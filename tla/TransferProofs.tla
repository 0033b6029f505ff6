--------------------------- MODULE TransferProofs ---------------------------
(***************************************************************************)
(* A transfer, for every entry, any number of attempts and of changes of   *)
(* the drive: what it does to the files below /output, and that one that   *)
(* succeeds has got everything.                                            *)
(***************************************************************************)
EXTENDS Transfer, FiniteSetTheorems, SequenceTheorems, TLAPS

(* What of the types the files depend on.                                  *)
FileTypes ==
  /\ remote \in [Items -> [kind : {"none", "file", "folder", "package"}, version : Versions]]
  /\ local \in [Items -> Nodes]
  /\ partial \in [Items -> Nodes \ {Directory}]

(* From the choice of the downloads to its end, an attempt has a plan.     *)
PlanOK == pc \notin {"idle", "clear"} => plan \in {"file_first", "tree_first", "tree_only"}

(* No version of a file is ahead of the drive's.                           *)
Behind(node, p) == node.kind = "file" => node.version <= remote[p].version

FilesOK == \A p \in Items : local[p].kind # "torn" /\ Behind(local[p], p)

(* What is being written is a version that the drive has had since the     *)
(* file in its place was written; it is whole when it takes that place.    *)
WritingOK ==
  \A p \in Items : p = Head(todo) =>
    /\ pc = "stream" => partial[p].kind = "torn"
    /\ pc = "replace" => partial[p].kind = "file"
    /\ pc \in {"stream", "replace"} =>
         /\ partial[p].version <= remote[p].version
         /\ local[p].kind = "file" => local[p].version <= partial[p].version

FilesInv == FileTypes /\ PlanOK /\ FilesOK /\ WritingOK

LEMMA NodesAre ==
  ASSUME NEW n \in Nodes
  PROVE  /\ n.kind \in {"none", "dir", "torn", "file"}
         /\ n.version \in Nat
         /\ n.kind = "none" => n = Nothing
         /\ n.kind = "dir" => n = Directory
         /\ n.kind = "torn" => n.version \in Versions /\ n = Torn(n.version)
  BY DEF Nodes, Nothing, Directory, Torn, File, Versions

(* A download that fails leaves the files alone, and what it leads to       *)
(* writes nothing yet.                                                      *)
LEMMA FailsIsHarmless ==
  ASSUME PlanOK, pc \notin {"idle", "clear"}, NEW reason, Fails(reason)
  PROVE  pc' \in {"resolve", "idle"} /\ PlanOK'
  BY DEF PlanOK, Fails, Fallback, GoesOn, Ends

(* Directories made for p replace no file.                                 *)
LEMMA ParentsReplaceNothing ==
  ASSUME FilesInv, NEW p \in Items, Reachable(p),
         local' = MakeParents(p), UNCHANGED remote
  PROVE  /\ local' \in [Items -> Nodes] /\ FilesOK'
         /\ \A q \in Items : local[q].kind = "file" => local'[q] = local[q]
         /\ \A q \in Items : local'[q].kind = "file" => local'[q] = local[q]
  BY DEF FilesInv, FileTypes, FilesOK, Reachable, MakeParents, Put, Nodes, Directory, Behind

LEMMA DirectoryReplacesNothing ==
  ASSUME FilesInv, NEW p \in Items, MakeDirectory(p), UNCHANGED remote
  PROVE  /\ local' \in [Items -> Nodes] /\ FilesOK'
         /\ \A q \in Items : local[q].kind = "file" => local'[q] = local[q]
  BY DEF FilesInv, FileTypes, FilesOK, Reachable, MakeDirectory, Put, Nodes, Directory, Behind

(* A partial file that is whole is a file of the same version.             *)
LEMMA TornBecomesFile ==
  ASSUME NEW v
  PROVE  [Torn(v) EXCEPT !.kind = "file"] = File(v)
  BY DEF Torn, File

LEMMA FilesInit == Init => FilesInv
  BY TransferAssumption
  DEF Init, FilesInv, FileTypes, PlanOK, FilesOK, WritingOK, Behind, Nodes,
      Nothing, Directory, Versions

(* A step that touches neither the drive nor what is below /output, and    *)
(* that writes nothing yet.                                                *)
LEMMA FilesUntouched ==
  ASSUME FilesInv, UNCHANGED <<drive, output>>, pc' \notin {"stream", "replace"}, PlanOK'
  PROVE  FilesInv'
  BY DEF FilesInv, FileTypes, FilesOK, WritingOK, Behind, drive, output

(* The same of one that makes directories.                                 *)
LEMMA FilesUntouchedByDirectories ==
  ASSUME FilesInv, UNCHANGED drive, UNCHANGED partial, local' \in [Items -> Nodes],
         FilesOK', pc' \notin {"stream", "replace"}, PlanOK'
  PROVE  FilesInv'
  BY DEF FilesInv, FileTypes, WritingOK, drive

(* An exception ends the attempt, and perhaps the transfer.                *)
LEMMA RaiseIsHarmless ==
  ASSUME Raise
  PROVE  pc' \in {"clear", "idle"} /\ PlanOK'
  BY DEF Raise, Ends, PlanOK

LEMMA FilesStep ==
  ASSUME FilesInv, [Next]_vars
  PROVE  FilesInv'
<1> USE FilesInv
<1>1. CASE Begin
  BY <1>1, FilesUntouched DEF Begin, GoesOn, PlanOK
<1>2. CASE ClearConflict
  <2>1. PlanOK' /\ pc' = "resolve"
    BY <1>2 DEF ClearConflict, GoesOn, PlanOK
  <2>2. FileTypes' /\ FilesOK'
    BY <1>2 DEF ClearConflict, FilesInv, FileTypes, FilesOK, Behind, Put, Nodes,
                Nothing, Directory, drive, output
  <2> QED
    BY <2>1, <2>2 DEF FilesInv, WritingOK
<1>3. CASE ClearFails
  <2>1. PlanOK' /\ pc' = "idle"
    BY <1>3 DEF ClearFails, Ends, PlanOK
  <2>2. FileTypes' /\ FilesOK'
    BY <1>3 DEF ClearFails, FilesInv, FileTypes, FilesOK, Behind, Put, Nodes,
                Nothing, Directory, drive
  <2> QED
    BY <2>1, <2>2 DEF FilesInv, WritingOK
<1>4. CASE FindFile
  <2>1. pc' \in {"resolve", "idle", "open"} /\ PlanOK'
    BY <1>4, FailsIsHarmless DEF FindFile, GoesOn, FilesInv, PlanOK
  <2> QED
    BY <1>4, <2>1, FilesUntouched DEF FindFile
<1>5. CASE FindTree
  <2>1. pc' \in {"resolve", "idle", "visit"} /\ PlanOK'
    BY <1>5, FailsIsHarmless DEF FindTree, GoesOn, FilesInv, PlanOK
  <2> QED
    BY <1>5, <2>1, FilesUntouched DEF FindTree
<1>6. CASE ReadMetadata
  <2>1. pc' \in {"resolve", "idle", "visit"} /\ PlanOK'
    BY <1>6, FailsIsHarmless DEF ReadMetadata, GoesOn, FilesInv, PlanOK
  <2>2. CASE UNCHANGED local
    BY <1>6, <2>1, <2>2, FilesUntouched DEF ReadMetadata, output
  <2>3. CASE MakeDirectory(Root)
    BY <1>6, <2>1, <2>3, TransferAssumption, DirectoryReplacesNothing,
       FilesUntouchedByDirectories DEF ReadMetadata, drive
  <2> QED
    BY <1>6, <2>2, <2>3 DEF ReadMetadata
<1>7. CASE TreeDone
  BY <1>7, FilesUntouched DEF TreeDone, Ends, PlanOK
<1>8. ASSUME NEW p \in Items, EnterFolder(p)
      PROVE  FilesInv'
  <2>1. pc' = "visit" /\ PlanOK'
    BY <1>8 DEF EnterFolder, Visiting, GoesOn, FilesInv, PlanOK
  <2> QED
    BY <1>8, <2>1, DirectoryReplacesNothing, FilesUntouchedByDirectories
    DEF EnterFolder, drive
<1>9. ASSUME NEW p \in Items, MissChild(p)
      PROVE  FilesInv'
  <2>1. pc' \in {"resolve", "idle"} /\ PlanOK'
    BY <1>9, FailsIsHarmless DEF MissChild, Visiting, FilesInv
  <2> QED
    BY <1>9, <2>1, FilesUntouched DEF MissChild
<1>10. ASSUME NEW p \in Items, FindMember(p)
       PROVE  FilesInv'
  BY <1>10, FilesUntouched DEF FindMember, Visiting, GoesOn, FilesInv, PlanOK, call
<1>11. ASSUME NEW p \in Items, EnterListedFolder(p)
       PROVE  FilesInv'
  <2>1. pc' \in {"resolve", "idle", "visit"} /\ PlanOK'
    BY <1>11, FailsIsHarmless DEF EnterListedFolder, Visiting, GoesOn, FilesInv, PlanOK
  <2>2. CASE UNCHANGED local
    BY <1>11, <2>1, <2>2, FilesUntouched DEF EnterListedFolder, output
  <2>3. CASE MakeDirectory(p)
    BY <1>11, <2>1, <2>3, DirectoryReplacesNothing, FilesUntouchedByDirectories
    DEF EnterListedFolder, drive
  <2> QED
    BY <1>11, <2>2, <2>3 DEF EnterListedFolder
<1>12. ASSUME NEW p \in Items, MissListedFile(p)
       PROVE  FilesInv'
  <2>1. pc' \in {"resolve", "idle"} /\ PlanOK'
    BY <1>12, FailsIsHarmless DEF MissListedFile, Visiting, FilesInv
  <2> QED
    BY <1>12, <2>1, FilesUntouched DEF MissListedFile
<1>13. ASSUME NEW p \in Items, OpenFails(p)
       PROVE  FilesInv'
  <2>1. pc' \in {"resolve", "idle"} /\ PlanOK'
    BY <1>13, FailsIsHarmless DEF OpenFails, At, FilesInv
  <2> QED
    BY <1>13, <2>1, ParentsReplaceNothing, FilesUntouchedByDirectories
    DEF OpenFails, drive
<1>14. ASSUME NEW p \in Items, Open(p)
       PROVE  FilesInv'
  <2>1. pc' = "stream" /\ PlanOK' /\ p = Head(todo')
    BY <1>14 DEF Open, At, GoesOn, FilesInv, PlanOK, call
  <2>2. /\ local' \in [Items -> Nodes] /\ FilesOK'
        /\ \A q \in Items : local'[q].kind = "file" => local'[q] = local[q]
    BY <1>14, ParentsReplaceNothing DEF Open, drive
  <2>3. FileTypes'
    BY <1>14, <2>2 DEF Open, FilesInv, FileTypes, Nodes, Torn, Directory, drive
  <2>4. WritingOK'
    <3>1. partial'[p] = Torn(remote[p].version) /\ remote' = remote
      BY <1>14 DEF Open, FilesInv, FileTypes, drive
    <3>2. local'[p].kind = "file" => local'[p].version <= remote[p].version
      BY <2>2, <3>1 DEF FilesOK, Behind
    <3>3. remote[p].version <= remote[p].version
      BY DEF FilesInv, FileTypes, Versions
    <3> QED
      BY <2>1, <3>1, <3>2, <3>3 DEF WritingOK, Torn
  <2> QED
    BY <2>1, <2>2, <2>3, <2>4 DEF FilesInv
<1>15. ASSUME NEW p \in Items, Stream(p)
       PROVE  FilesInv'
  <2>1. pc' = "replace" /\ PlanOK' /\ p = Head(todo) /\ todo' = todo
    BY <1>15 DEF Stream, At, GoesOn, FilesInv, PlanOK, call
  <2>2. partial[p] \in Nodes /\ partial[p].kind = "torn"
    BY <1>15 DEF Stream, At, FilesInv, FileTypes, WritingOK
  <2>3. PICK v \in Versions : partial[p] = Torn(v) /\ v = partial[p].version
    BY <2>2, NodesAre
  <2>4. partial' = [partial EXCEPT ![p] = File(v)]
    BY <1>15, <2>3, TornBecomesFile DEF Stream
  <2>5. FileTypes' /\ FilesOK'
    <3>1. File(v) \in Nodes \ {Directory}
      BY DEF Nodes, File, Directory
    <3>2. partial' \in [Items -> Nodes \ {Directory}]
      BY <2>4, <3>1 DEF FilesInv, FileTypes
    <3>3. UNCHANGED <<remote, local>>
      BY <1>15 DEF Stream, drive
    <3> QED
      BY <3>2, <3>3 DEF FilesInv, FileTypes, FilesOK, Behind
  <2>6. WritingOK'
    <3>1. partial'[p] = File(v) /\ UNCHANGED <<remote, local>>
      BY <1>15, <2>4 DEF Stream, FilesInv, FileTypes, drive
    <3>2. pc = "stream"
      BY <1>15 DEF Stream, At
    <3> QED
      BY <2>1, <2>3, <3>1, <3>2 DEF FilesInv, WritingOK, File
  <2> QED
    BY <2>1, <2>5, <2>6 DEF FilesInv
<1>16. ASSUME NEW p \in Items, WriteFails(p)
       PROVE  FilesInv'
  <2>1. pc' \in {"resolve", "idle"} /\ PlanOK'
    BY <1>16, FailsIsHarmless DEF WriteFails, FilesInv
  <2>2. FileTypes' /\ FilesOK'
    BY <1>16 DEF WriteFails, FilesInv, FileTypes, FilesOK, Behind, Nodes, Nothing, Directory, drive
  <2> QED
    BY <2>1, <2>2 DEF FilesInv, WritingOK
<1>17. ASSUME NEW p \in Items, Replace(p)
       PROVE  FilesInv'
  <2>1. pc' \in {"idle", "visit"} /\ PlanOK'
    BY <1>17 DEF Replace, At, Ends, GoesOn, FilesInv, PlanOK
  <2>2. partial[p] \in Nodes /\ partial[p].kind = "file" /\ partial[p].version <= remote[p].version
    BY <1>17 DEF Replace, At, FilesInv, FileTypes, WritingOK
  <2>3. FileTypes' /\ FilesOK'
    BY <1>17, <2>2 DEF Replace, FilesInv, FileTypes, FilesOK, Behind, Nodes, Nothing, Directory, drive
  <2> QED
    BY <2>1, <2>3 DEF FilesInv, WritingOK
<1>18. CASE RaiseError
  BY <1>18, RaiseIsHarmless, FilesUntouched DEF RaiseError
<1>19. CASE Crash
  BY <1>19, FilesUntouched DEF Crash, Ends, PlanOK
<1>20. ASSUME NEW p \in Items, Change(p)
       PROVE  FilesInv'
  <2>1. /\ FileTypes'
        /\ \A q \in Items : remote[q].version <= remote'[q].version
    <3>1. CASE \E kind \in {"none", "file", "folder", "package"} :
                 remote' = [remote EXCEPT ![p].kind = kind]
      BY <1>20, <3>1 DEF Change, FilesInv, FileTypes, Versions, output
    <3>2. CASE /\ remote[p].version < MaxVersion
               /\ remote' = [remote EXCEPT ![p].version = @ + 1]
      <4>1. /\ remote[p].version + 1 \in Versions
            /\ remote[p].version <= remote[p].version + 1
        BY <3>2, TransferAssumption DEF FilesInv, FileTypes, Versions
      <4> QED
        BY <1>20, <3>2, <4>1 DEF Change, FilesInv, FileTypes, Versions, output
    <3> QED
      BY <1>20, <3>1, <3>2 DEF Change
  <2>2. \A q \in Items : /\ remote[q].version \in Nat /\ remote'[q].version \in Nat
                         /\ local[q].version \in Nat /\ partial[q].version \in Nat
    BY <2>1, NodesAre DEF FilesInv, FileTypes, Versions
  <2>3. UNCHANGED <<local, partial, pc, todo, plan>>
    BY <1>20 DEF Change, output, call
  <2> QED
    BY <2>1, <2>2, <2>3 DEF FilesInv, PlanOK, FilesOK, WritingOK, Behind
<1>21. CASE UNCHANGED vars
  BY <1>21 DEF vars, drive, output, call, FilesInv, FileTypes, PlanOK, FilesOK, WritingOK, Behind
<1> QED
  BY <1>1, <1>2, <1>3, <1>4, <1>5, <1>6, <1>7, <1>8, <1>9, <1>10, <1>11, <1>12, <1>13,
     <1>14, <1>15, <1>16, <1>17, <1>18, <1>19, <1>20, <1>21
  DEF Next, Attempt

LEMMA FilesAlways == Spec => []FilesInv
  BY FilesInit, FilesStep, PTL DEF Spec

(* No file is ever seen below /output that is not whole: what takes its    *)
(* name has been streamed to its end.                                      *)
THEOREM FilesAreWhole == Spec => []WholeFiles
<1>1. FilesInv => WholeFiles
  BY DEF FilesInv, FilesOK, WholeFiles
<1> QED
  BY <1>1, FilesAlways, PTL

(* A file below /output is only ever replaced in one step, by a version no *)
(* older, whatever fails, is repeated or stops; but for what is removed    *)
(* because it stands in the way of the entry's kind.                       *)
THEOREM FilesAdvance == Spec => FilesOnlyAdvance
<1> DEFINE Advances ==
      \A p \in Items : local[p].kind = "file" =>
        \/ local'[p].kind = "file" /\ local'[p].version >= local[p].version
        \/ pc = "clear" /\ InTheWay
<1>1. ASSUME FilesInv, [Next]_vars
      PROVE  [Advances]_vars
  <2> USE <1>1
  <2>1. \A p \in Items : local[p].version >= local[p].version
    BY NodesAre DEF FilesInv, FileTypes
  <2>2. CASE UNCHANGED local
    BY <2>1, <2>2
  <2>3. CASE \A q \in Items : local[q].kind = "file" => local'[q] = local[q]
    BY <2>1, <2>3
  <2>4. CASE ClearConflict
    BY <2>2, <2>4 DEF ClearConflict, output
  <2>5. CASE ClearFails
    BY <2>5 DEF ClearFails
  <2>6. CASE ReadMetadata
    BY <2>2, <2>3, <2>6, TransferAssumption, DirectoryReplacesNothing
    DEF ReadMetadata, drive
  <2>7. CASE \E p \in Items : EnterFolder(p)
    BY <2>3, <2>7, DirectoryReplacesNothing DEF EnterFolder, drive
  <2>8. CASE \E p \in Items : EnterListedFolder(p)
    BY <2>2, <2>3, <2>8, DirectoryReplacesNothing DEF EnterListedFolder, drive
  <2>9. CASE \E p \in Items : OpenFails(p) \/ Open(p)
    BY <2>3, <2>9, ParentsReplaceNothing DEF OpenFails, Open, drive
  <2>10. ASSUME NEW p \in Items, Replace(p)
         PROVE  Advances
    <3>1. /\ partial[p].kind = "file"
          /\ local[p].kind = "file" => local[p].version <= partial[p].version
      BY <2>10 DEF Replace, At, FilesInv, WritingOK
    <3>2. /\ local[p].version \in Nat /\ partial[p].version \in Nat
          /\ local' = [local EXCEPT ![p] = partial[p]]
      BY <2>10, NodesAre DEF Replace, FilesInv, FileTypes
    <3> QED
      BY <2>1, <3>1, <3>2 DEF FilesInv, FileTypes
  <2>11. CASE \/ Begin \/ FindFile \/ FindTree \/ TreeDone \/ RaiseError \/ Crash
              \/ UNCHANGED vars
    BY <2>2, <2>11
    DEF Begin, FindFile, FindTree, TreeDone, RaiseError, Crash, vars, output
  <2>12. CASE \E p \in Items : \/ MissChild(p) \/ FindMember(p) \/ MissListedFile(p)
                              \/ Stream(p) \/ WriteFails(p) \/ Change(p)
    BY <2>2, <2>12
    DEF MissChild, FindMember, MissListedFile, Stream, WriteFails, Change, output
  <2> QED
    BY <2>4, <2>5, <2>6, <2>7, <2>8, <2>9, <2>10, <2>11, <2>12 DEF Next, Attempt
<1> QED
  BY <1>1, FilesAlways, PTL DEF Spec, FilesOnlyAdvance

---------------------------------------------------------------------------
(* What is below an item.                                                  *)

(* What is in an item is below it, with all that is in that; and nothing   *)
(* else is.                                                                *)
LEMMA UnderIsClosed ==
  ASSUME NEW p \in Items
  PROVE  /\ Under[p] \subseteq Items \ {Root}
         /\ Children[p] \subseteq Under[p]
         /\ Closed(Under[p])
<1>1. Under[p] \subseteq Items /\ Children[p] \subseteq Under[p]
  BY TransferAssumption DEF Under
<1>2. Closed(Under[p])
  BY TransferAssumption DEF Under, Closed
<1>3. Root \notin Under[p]
  <2> DEFINE S == Items \ {Root}
  <2>1. S \in SUBSET Items /\ Children[p] \subseteq S /\ Closed(S)
    BY TransferAssumption DEF Closed
  <2> QED
    BY <2>1 DEF Under
<1> QED
  BY <1>1, <1>2, <1>3

LEMMA UnderIsLeast ==
  ASSUME NEW p \in Items, NEW S \in SUBSET Items, Children[p] \subseteq S,
         \A q \in S \cap Under[p] : Children[q] \subseteq S
  PROVE  Under[p] \subseteq S
<1> DEFINE T == S \cap Under[p]
<1>1. T \in SUBSET Items /\ Children[p] \subseteq T /\ Closed(T)
  BY UnderIsClosed DEF Closed
<1> QED
  BY <1>1 DEF Under

LEMMA UnderIsTransitive ==
  ASSUME NEW p \in Items, NEW q \in Under[p]
  PROVE  Under[q] \subseteq Under[p]
<1>1. q \in Items /\ Children[q] \subseteq Under[p] /\ Under[p] \in SUBSET Items /\ Closed(Under[p])
  BY UnderIsClosed DEF Closed
<1> QED
  BY <1>1, UnderIsLeast DEF Closed

(* The first step of the way down.                                         *)
LEMMA UnderByChild ==
  ASSUME NEW p \in Items, NEW x \in Under[p]
  PROVE  \E c \in Children[p] : x \in {c} \cup Under[c]
<1> DEFINE S == {y \in Items : \E c \in Children[p] : y \in {c} \cup Under[c]}
<1>1. Children[p] \subseteq S
  BY TransferAssumption
<1>2. ASSUME NEW q \in S
      PROVE  Children[q] \subseteq S
  <2>1. PICK c \in Children[p] : q \in {c} \cup Under[c]
    BY <1>2
  <2>2. c \in Items /\ q \in Items
    BY TransferAssumption
  <2>3. Children[q] \subseteq Under[c] /\ Under[c] \subseteq Items
    BY <2>1, <2>2, UnderIsClosed DEF Closed
  <2> QED
    BY <2>1, <2>3
<1>3. Under[p] \subseteq S
  <2> HIDE DEF S
  <2>1. S \in SUBSET Items
    BY DEF S
  <2> QED
    BY <1>1, <1>2, <2>1, UnderIsLeast
<1> QED
  BY <1>3

(* The last one.                                                           *)
LEMMA UnderByParent ==
  ASSUME NEW p \in Items, NEW x \in Under[p], NEW q \in Items, x \in Children[q]
  PROVE  q \in {p} \cup Under[p]
<1> DEFINE S == {y \in Items : \E m \in {p} \cup Under[p] : y \in Children[m]}
<1>1. Children[p] \subseteq S
  BY TransferAssumption
<1>2. ASSUME NEW m \in S \cap Under[p]
      PROVE  Children[m] \subseteq S
  BY TransferAssumption
<1>3. Under[p] \subseteq S
  <2> HIDE DEF S
  <2>1. S \in SUBSET Items
    BY DEF S
  <2> QED
    BY <1>1, <1>2, <2>1, UnderIsLeast
<1>4. PICK m \in {p} \cup Under[p] : x \in Children[m]
  BY <1>3
<1>5. m \in Items
  BY UnderIsClosed
<1> QED
  BY <1>4, <1>5, TransferAssumption

(* The members of a set, in some order.                                    *)
LEMMA InSomeOrder ==
  ASSUME NEW S \in SUBSET Items
  PROVE  /\ SetToSeq(S) \in Seq(Items)
         /\ \A x : x \in S <=> \E i \in 1 .. Len(SetToSeq(S)) : x = SetToSeq(S)[i]
<1> DEFINE n == Cardinality(S)
           f == SetToSeq(S)
<1>1. IsFiniteSet(S)
  BY TransferAssumption, FS_Subset
<1>2. n \in Nat /\ ExistsBijection(1..n, S)
  BY <1>1, FS_CardinalityType
<1>3. f \in [1..n -> S] /\ IsInjective(f)
  <2>1. \E g \in [1..n -> S] : IsInjective(g)
    BY <1>2 DEF ExistsBijection, Bijection, Injection
  <2> QED
    BY <2>1 DEF SetToSeq
<1>4. f \in Surjection(1..n, S)
  <2>1. f \in Injection(1..n, S)
    BY <1>3 DEF Injection
  <2>2. Cardinality(1..n) = n
    BY <1>2, FS_Interval
  <2> HIDE DEF f
  <2> QED
    BY <1>1, <2>1, <2>2, FS_Injection
<1>5. f \in Seq(S) /\ Len(f) = n
  BY <1>2, <1>3
<1> QED
  BY <1>3, <1>4, <1>5 DEF Surjection

LEMMA NamesAreMembers ==
  ASSUME NEW p \in Items
  PROVE  /\ Names(p) \in Seq(Items)
         /\ \A x : x \in Children[p] /\ Exists(x) <=> \E i \in 1 .. Len(Names(p)) : x = Names(p)[i]
<1> DEFINE S == {c \in Children[p] : Exists(c)}
<1>1. S \in SUBSET Items
  BY TransferAssumption
<1>2. Names(p) = SetToSeq(S)
  BY DEF Names
<1> HIDE DEF S
<1>3. /\ SetToSeq(S) \in Seq(Items)
      /\ \A x : x \in S <=> \E i \in 1 .. Len(SetToSeq(S)) : x = SetToSeq(S)[i]
  BY <1>1, InSomeOrder
<1>4. \A x : x \in S <=> x \in Children[p] /\ Exists(x)
  BY DEF S
<1> QED
  BY <1>2, <1>3, <1>4

LEMMA ListedAreMembers ==
  ASSUME NEW p \in Items, NEW kinds
  PROVE  /\ Listed(p, kinds) \in Seq(Items)
         /\ \A x : x \in Children[p] /\ kinds[x] # "none" <=>
                   \E i \in 1 .. Len(Listed(p, kinds)) : x = Listed(p, kinds)[i]
<1> DEFINE S == {c \in Children[p] : kinds[c] = "folder"}
           T == {c \in Children[p] : kinds[c] \notin {"folder", "none"}}
<1>1. S \in SUBSET Items /\ T \in SUBSET Items
  BY TransferAssumption
<1>2. Listed(p, kinds) = SetToSeq(S) \o SetToSeq(T)
  BY DEF Listed
<1>3. \A x : x \in S \/ x \in T <=> x \in Children[p] /\ kinds[x] # "none"
  OBVIOUS
<1> HIDE DEF S, T
<1>4. /\ SetToSeq(S) \in Seq(Items)
      /\ \A x : x \in S <=> \E i \in 1 .. Len(SetToSeq(S)) : x = SetToSeq(S)[i]
      /\ SetToSeq(T) \in Seq(Items)
      /\ \A x : x \in T <=> \E i \in 1 .. Len(SetToSeq(T)) : x = SetToSeq(T)[i]
  BY <1>1, InSomeOrder
<1> DEFINE s == SetToSeq(S)
           t == SetToSeq(T)
<1> HIDE DEF s, t
<1>5. /\ s \in Seq(Items) /\ t \in Seq(Items) /\ Listed(p, kinds) = s \o t
      /\ \A x : x \in S <=> \E i \in 1 .. Len(s) : x = s[i]
      /\ \A x : x \in T <=> \E i \in 1 .. Len(t) : x = t[i]
  BY <1>2, <1>4 DEF s, t
<1>6. ASSUME NEW x
      PROVE  (\E i \in 1 .. Len(s \o t) : x = (s \o t)[i]) <=> x \in S \/ x \in T
  <2>1. ASSUME NEW i \in 1 .. Len(s), x = s[i]
        PROVE  \E j \in 1 .. Len(s \o t) : x = (s \o t)[j]
    BY <1>5, <2>1, ConcatProperties
  <2>2. ASSUME NEW i \in 1 .. Len(t), x = t[i]
        PROVE  \E j \in 1 .. Len(s \o t) : x = (s \o t)[j]
    <3>1. Len(s) + i \in 1 .. Len(s \o t) /\ (s \o t)[Len(s) + i] = t[i]
      BY <1>5, <2>2, ConcatProperties, LenProperties
    <3> QED
      BY <2>2, <3>1
  <2>3. ASSUME NEW i \in 1 .. Len(s \o t), x = (s \o t)[i]
        PROVE  \/ \E j \in 1 .. Len(s) : x = s[j]
               \/ \E j \in 1 .. Len(t) : x = t[j]
    BY <1>5, <2>3, ConcatProperties, LenProperties
  <2> QED
    BY <1>5, <2>1, <2>2, <2>3
<1>7. s \o t \in Seq(Items)
  BY <1>5, ConcatProperties
<1>8. \A x : x \in Children[p] /\ kinds[x] # "none" <=> \E i \in 1 .. Len(s \o t) : x = (s \o t)[i]
  BY <1>3, <1>6
<1> QED
  BY <1>5, <1>7, <1>8

(* p is one of s, or below one.                                            *)
Among(p, s) == \E i \in 1 .. Len(s) : p = s[i] \/ p \in Under[s[i]]

LEMMA AmongConcat ==
  ASSUME NEW s \in Seq(Items), NEW t \in Seq(Items), NEW p
  PROVE  Among(p, s \o t) <=> Among(p, s) \/ Among(p, t)
<1>1. ASSUME NEW i \in 1 .. Len(s)
      PROVE  i \in 1 .. Len(s \o t) /\ (s \o t)[i] = s[i]
  BY <1>1, ConcatProperties, LenProperties
<1>2. ASSUME NEW i \in 1 .. Len(t)
      PROVE  Len(s) + i \in 1 .. Len(s \o t) /\ (s \o t)[Len(s) + i] = t[i]
  BY <1>2, ConcatProperties, LenProperties
<1>3. ASSUME NEW i \in 1 .. Len(s \o t)
      PROVE  \/ \E j \in 1 .. Len(s) : (s \o t)[i] = s[j]
             \/ \E j \in 1 .. Len(t) : (s \o t)[i] = t[j]
  BY <1>3, ConcatProperties, LenProperties
<1> QED
  BY <1>1, <1>2, <1>3 DEF Among

LEMMA AmongHeadTail ==
  ASSUME NEW s \in Seq(Items), s # <<>>, NEW p
  PROVE  Among(p, s) <=> p = Head(s) \/ p \in Under[Head(s)] \/ Among(p, Tail(s))
<1>1. 1 \in 1 .. Len(s) /\ Head(s) = s[1]
  OBVIOUS
<1>2. ASSUME NEW i \in 1 .. Len(Tail(s))
      PROVE  i + 1 \in 1 .. Len(s) /\ Tail(s)[i] = s[i + 1]
  OBVIOUS
<1>3. ASSUME NEW i \in 1 .. Len(s), i # 1
      PROVE  \E j \in 1 .. Len(Tail(s)) : Tail(s)[j] = s[i]
  <2>1. i - 1 \in 1 .. Len(s) - 1 /\ (i - 1) + 1 = i /\ Len(Tail(s)) = Len(s) - 1
    BY <1>3, LenProperties, HeadTailProperties
  <2> QED
    BY <1>2, <2>1
<1> QED
  BY <1>1, <1>2, <1>3 DEF Among

---------------------------------------------------------------------------
(* The rest of the types: the transfer under way, and how the last ended.   *)
CallTypes ==
  /\ pc \in {"idle", "clear", "resolve", "visit", "open", "stream", "replace"}
  /\ result \in {"none", "file", "package", "reconciled", "failed"}
  /\ attempt \in 1..RETRY_ATTEMPTS
  /\ plan \in {"none", "file_first", "tree_first", "tree_only"}
  /\ doing \in {"none", "file", "tree", "walk", "metadata"}
  /\ todo \in Seq(Items)
  /\ payload \in [Items -> {"none", "file", "folder", "package"}]

OtherTypes ==
  /\ known \in BOOLEAN
  /\ changes \in 0..MaxChanges
  /\ transfers \in 0..MaxTransfers
  /\ steady \in BOOLEAN /\ hollow \in BOOLEAN

LEMMA EmptyCall == <<>> \in Seq(Items) /\ NoPayload \in [Items -> {"none", "file", "folder", "package"}]
  BY DEF NoPayload

LEMMA EndsTypes ==
  ASSUME NEW r \in {"none", "file", "package", "reconciled", "failed"}, Ends(r)
  PROVE  CallTypes'
  BY EmptyCall, TransferAssumption DEF Ends, CallTypes

LEMMA FailsTypes ==
  ASSUME PlanOK, pc \notin {"idle", "clear"}, CallTypes, NEW reason, Fails(reason)
  PROVE  CallTypes'
<1>1. CASE Ends("failed") \/ Ends("reconciled")
  BY <1>1, EndsTypes
<1>2. ASSUME NEW download \in {"file", "tree"}, Fallback(download)
      PROVE  CallTypes'
  BY <1>2, EmptyCall DEF Fallback, GoesOn, CallTypes
<1> QED
  BY <1>1, <1>2 DEF Fails, PlanOK

LEMMA TypesInit == Init => CallTypes /\ OtherTypes
<1> SUFFICES ASSUME Init PROVE CallTypes /\ OtherTypes
  OBVIOUS
<1>1. CallTypes
  BY EmptyCall, TransferAssumption DEF Init, CallTypes
<1>2. changes \in 0..MaxChanges /\ transfers \in 0..MaxTransfers
  BY TransferAssumption DEF Init
<1>3. known \in BOOLEAN /\ steady \in BOOLEAN /\ hollow \in BOOLEAN
  BY Zenon DEF Init
<1> QED
  BY <1>1, <1>2, <1>3 DEF OtherTypes

(* Where an attempt is, and what it is then about.                          *)
Busy == {"open", "stream", "replace"}

PhaseOK ==
  /\ pc = "resolve" => doing \in {"file", "tree", "metadata"}
  /\ pc = "visit" => doing \in {"walk", "metadata"}
  /\ pc \in Busy =>
       /\ doing \in {"file", "walk", "metadata"}
       /\ todo # <<>>
       /\ doing = "file" <=> Head(todo) = Root

LEMMA FailsPhase ==
  ASSUME PlanOK, pc \notin {"idle", "clear"}, NEW reason, Fails(reason)
  PROVE  PhaseOK'
  BY DEF PlanOK, Fails, Fallback, GoesOn, Ends, PhaseOK, Busy

LEMMA PhaseStep ==
  ASSUME FilesInv, PhaseOK, [Next]_vars
  PROVE  PhaseOK'
<1> USE PhaseOK
<1>1. CASE Begin \/ ClearConflict \/ ClearFails \/ TreeDone \/ Crash \/ RaiseError
  BY <1>1 DEF Begin, ClearConflict, ClearFails, TreeDone, Crash, RaiseError, Raise,
              GoesOn, Ends, PhaseOK, Busy
<1>2. CASE \/ pc \notin {"idle", "clear"} /\ \E reason : Fails(reason)
           \/ UNCHANGED <<pc, call>>
  BY <1>2, FailsPhase DEF FilesInv, PhaseOK, call
<1>3. CASE FindFile \/ FindTree \/ ReadMetadata
  BY <1>2, <1>3 DEF FindFile, FindTree, ReadMetadata, GoesOn, PhaseOK, Busy
<1>4. CASE \E p \in Items :
             \/ EnterFolder(p) \/ MissChild(p) \/ FindMember(p) \/ EnterListedFolder(p)
             \/ MissListedFile(p)
  BY <1>2, <1>4
  DEF EnterFolder, MissChild, FindMember, EnterListedFolder, MissListedFile, Visiting,
      GoesOn, call, PhaseOK, Busy
<1>5. CASE \E p \in Items :
             OpenFails(p) \/ Open(p) \/ Stream(p) \/ WriteFails(p) \/ Replace(p)
  BY <1>2, <1>5
  DEF OpenFails, Open, Stream, WriteFails, Replace, At, Ends, GoesOn, call, PhaseOK, Busy
<1>6. CASE \/ \E p \in Items : Change(p)
           \/ UNCHANGED vars
  BY <1>2, <1>6 DEF Change, vars
<1> QED
  BY <1>1, <1>3, <1>4, <1>5, <1>6 DEF Next, Attempt

LEMMA MetadataType ==
  ASSUME FileTypes
  PROVE  Metadata \in [Items -> {"none", "file", "folder", "package"}]
  BY DEF FileTypes, Metadata

LEMMA CallTypesStep ==
  ASSUME FilesInv, PhaseOK, CallTypes, [Next]_vars
  PROVE  CallTypes'
<1> USE FilesInv, CallTypes
<1>0. ASSUME pc \notin {"idle", "clear"}, NEW reason, Fails(reason)
      PROVE  CallTypes'
  BY <1>0, FailsTypes DEF FilesInv
<1>1. CASE Begin
  BY <1>1 DEF Begin, GoesOn, CallTypes, call
<1>2. CASE ClearConflict
  BY <1>2, EmptyCall DEF ClearConflict, GoesOn, CallTypes
<1>3. CASE ClearFails \/ TreeDone \/ Crash
  BY <1>3, EndsTypes DEF ClearFails, TreeDone, Crash
<1>4. CASE FindFile
  <2>1. CASE pc \notin {"idle", "clear"} /\ \E reason : Fails(reason)
    BY <2>1, <1>0
  <2>2. CASE GoesOn("open") /\ todo' = <<Root>> /\ UNCHANGED <<plan, doing, payload>>
    BY <2>2, TransferAssumption DEF GoesOn, CallTypes
  <2> QED
    BY <1>4, <2>1, <2>2 DEF FindFile
<1>5. CASE FindTree
  <2>1. CASE pc \notin {"idle", "clear"} /\ \E reason : Fails(reason)
    BY <2>1, <1>0
  <2>2. CASE GoesOn("visit") /\ doing' = "walk" /\ todo' = <<Root>> /\ UNCHANGED <<plan, payload>>
    BY <2>2, TransferAssumption DEF GoesOn, CallTypes
  <2>3. CASE GoesOn("resolve") /\ doing' = "metadata" /\ UNCHANGED <<plan, todo, payload>>
    BY <2>3 DEF GoesOn, CallTypes
  <2> QED
    BY <1>5, <2>1, <2>2, <2>3 DEF FindTree
<1>6. CASE ReadMetadata
  <2>1. CASE pc \notin {"idle", "clear"} /\ \E reason : Fails(reason)
    BY <2>1, <1>0
  <2>2. CASE /\ payload' = Metadata /\ todo' = Listed(Root, Metadata)
             /\ GoesOn("visit") /\ UNCHANGED <<plan, doing>>
    <3>1. todo' \in Seq(Items) /\ payload' \in [Items -> {"none", "file", "folder", "package"}]
      BY <2>2, ListedAreMembers, MetadataType, TransferAssumption DEF FilesInv
    <3> QED
      BY <2>2, <3>1 DEF GoesOn, CallTypes
  <2> QED
    BY <1>6, <2>1, <2>2 DEF ReadMetadata
<1>7. ASSUME NEW p \in Items, EnterFolder(p)
      PROVE  CallTypes'
  <2>1. Tail(todo) \in Seq(Items)
    BY <1>7, HeadTailProperties DEF EnterFolder, Visiting, CallTypes
  <2>2. todo' \in Seq(Items)
    <3>1. Names(p) \in Seq(Items)
      BY NamesAreMembers
    <3>2. Names(p) \o Tail(todo) \in Seq(Items)
      BY <2>1, <3>1, ConcatProperties
    <3> QED
      BY <1>7, <2>1, <3>2 DEF EnterFolder
  <2> QED
    BY <1>7, <2>2 DEF EnterFolder, GoesOn, CallTypes
<1>8. ASSUME NEW p \in Items, EnterListedFolder(p)
      PROVE  CallTypes'
  <2>1. CASE pc \notin {"idle", "clear"} /\ \E reason : Fails(reason)
    BY <2>1, <1>0
  <2>2. CASE /\ todo' = Listed(p, payload) \o Tail(todo)
             /\ GoesOn("visit") /\ UNCHANGED <<plan, doing, payload>>
    <3>1. Tail(todo) \in Seq(Items)
      BY <1>8, HeadTailProperties DEF EnterListedFolder, Visiting, CallTypes
    <3>2. Listed(p, payload) \in Seq(Items)
      BY ListedAreMembers
    <3>3. todo' \in Seq(Items)
      BY <2>2, <3>1, <3>2, ConcatProperties
    <3> QED
      BY <2>2, <3>3 DEF GoesOn, CallTypes
  <2> QED
    BY <1>8, <2>1, <2>2 DEF EnterListedFolder, Visiting
<1>9. ASSUME NEW p \in Items, MissChild(p) \/ MissListedFile(p) \/ OpenFails(p) \/ WriteFails(p)
      PROVE  CallTypes'
  BY <1>0, <1>9 DEF MissChild, MissListedFile, OpenFails, WriteFails, Visiting, At
<1>10. ASSUME NEW p \in Items, FindMember(p) \/ Open(p) \/ Stream(p)
       PROVE  CallTypes'
  BY <1>10 DEF FindMember, Open, Stream, GoesOn, call, CallTypes
<1>11. ASSUME NEW p \in Items, Replace(p)
       PROVE  CallTypes'
  <2>1. CASE Ends("file")
    BY <2>1, EndsTypes
  <2>2. CASE GoesOn("visit") /\ todo' = Tail(todo) /\ UNCHANGED <<plan, doing, payload>>
    <3>1. Tail(todo) \in Seq(Items)
      <4>1. todo # <<>>
        BY <1>11 DEF Replace, At, PhaseOK, Busy
      <4>2. todo \in Seq(Items)
        BY DEF CallTypes
      <4> QED
        BY <4>1, <4>2, HeadTailProperties
    <3>2. pc' = "visit" /\ UNCHANGED <<result, attempt, plan, doing, payload>>
      BY <2>2 DEF GoesOn
    <3> QED
      BY <2>2, <3>1, <3>2 DEF CallTypes
  <2> QED
    BY <1>11, <2>1, <2>2 DEF Replace
<1>12. CASE RaiseError
  BY <1>12, EndsTypes, TransferAssumption DEF RaiseError, Raise, call, CallTypes
<1>13. ASSUME NEW p \in Items, Change(p)
       PROVE  CallTypes'
  BY <1>13 DEF Change, call, CallTypes
<1>14. CASE UNCHANGED vars
  BY <1>14 DEF vars, call, CallTypes
<1> QED
  BY <1>1, <1>2, <1>3, <1>4, <1>5, <1>6, <1>7, <1>8, <1>9, <1>10, <1>11, <1>12, <1>13, <1>14
  DEF Next, Attempt

LEMMA OtherTypesStep ==
  ASSUME OtherTypes, [Next]_vars
  PROVE  OtherTypes'
<1> USE OtherTypes
<1>1. CASE Begin
  <2>1. transfers' \in 0..MaxTransfers
    BY <1>1, TransferAssumption DEF Begin, OtherTypes
  <2>2. UNCHANGED drive /\ steady' = TRUE /\ hollow' = FALSE
    BY <1>1, Zenon DEF Begin
  <2> QED
    BY <2>1, <2>2 DEF drive, OtherTypes
<1>2. CASE UNCHANGED <<drive, transfers, steady, hollow>>
  BY <1>2 DEF drive, OtherTypes
<1>3. ASSUME NEW p \in Items, EnterFolder(p)
      PROVE  OtherTypes'
  BY <1>3 DEF EnterFolder, drive, OtherTypes
<1>4. CASE RaiseError
  BY <1>4 DEF RaiseError, Raise, drive, OtherTypes
<1>5. ASSUME NEW p \in Items, Change(p)
      PROVE  OtherTypes'
  <2>1. changes' \in 0..MaxChanges
    BY <1>5, TransferAssumption DEF Change, OtherTypes
  <2>2. steady' = FALSE /\ UNCHANGED <<known, transfers, hollow>>
    BY <1>5, Zenon DEF Change
  <2> QED
    BY <2>1, <2>2 DEF OtherTypes
<1>6. CASE ClearConflict \/ ClearFails \/ FindFile \/ FindTree \/ ReadMetadata \/ TreeDone \/ Crash
  BY <1>2, <1>6 DEF ClearConflict, ClearFails, FindFile, FindTree, ReadMetadata, TreeDone, Crash
<1>7. CASE \E p \in Items : \/ MissChild(p) \/ FindMember(p) \/ EnterListedFolder(p)
                           \/ MissListedFile(p) \/ OpenFails(p) \/ Open(p) \/ Stream(p)
                           \/ WriteFails(p) \/ Replace(p)
  BY <1>2, <1>7
  DEF MissChild, FindMember, EnterListedFolder, MissListedFile, OpenFails, Open, Stream,
      WriteFails, Replace
<1>8. CASE UNCHANGED vars
  BY <1>2, <1>8 DEF vars
<1> QED
  BY <1>1, <1>3, <1>4, <1>5, <1>6, <1>7, <1>8 DEF Next, Attempt

LEMMA CallAlways == Spec => [](PhaseOK /\ CallTypes)
<1>1. Init => PhaseOK
  BY DEF Init, PhaseOK, Busy
<1>2. FilesInv /\ PhaseOK /\ CallTypes /\ [Next]_vars => (PhaseOK /\ CallTypes)'
  BY PhaseStep, CallTypesStep
<1> QED
  BY <1>1, <1>2, TypesInit, FilesAlways, PTL DEF Spec

(* Every variable keeps its type; what an attempt has yet to visit are      *)
(* items of the entry, and there is one whenever a file is being written.   *)
THEOREM TypeCorrect == Spec => []TypeOK
<1>1. OtherTypes /\ [Next]_vars => OtherTypes'
  BY OtherTypesStep
<1>2. FilesInv /\ CallTypes /\ OtherTypes => TypeOK
  BY DEF FilesInv, FileTypes, CallTypes, OtherTypes, TypeOK
<1> QED
  BY <1>1, <1>2, TypesInit, FilesAlways, CallAlways, PTL DEF Spec

---------------------------------------------------------------------------
(* A folder is in place of a folder or package, a file is the drive's.     *)
Done(p) ==
  IF remote[p].kind = "file" THEN local[p] = File(remote[p].version) ELSE local[p] = Directory

InTree == pc \in Busy \cup {"visit"} /\ doing # "file"

(* Only the entry is a package.                                            *)
KindsOK == \A p \in Items \ {Root} : remote[p].kind # "package"

(* While the drive does not change, what is written is its version.        *)
CopyOK ==
  steady /\ pc \in {"stream", "replace"} =>
    \A p \in Items : p = Head(todo) =>
      remote[p].kind \in {"file", "package"} /\ partial[p].version = remote[p].version

(* ... and what the attempt was told of the entry is still so.             *)
TreeOK ==
  steady /\ InTree =>
    /\ doing = "walk" => remote[Root].kind = "folder"
    /\ doing = "metadata" => payload = Metadata

(* ... and everything in the entry is in place, or yet to be visited.      *)
ProgressOK ==
  steady /\ ~hollow /\ InTree =>
    \A p \in {Root} \cup Under[Root] : Exists(p) => Done(p) \/ Among(p, todo)

CompleteInv == KindsOK /\ CopyOK /\ TreeOK /\ ProgressOK /\ SuccessIsComplete

LEMMA ContainerExists ==
  ASSUME NEW p \in Items, NEW c \in Under[p], Exists(c)
  PROVE  Exists(p) /\ remote[p].kind \in {"folder", "package"}
<1>1. c \in Items
  BY UnderIsClosed
<1>2. p \in Above[c]
  BY <1>1 DEF Above
<1>3. ASSUME NEW q \in Above[p]
      PROVE  q \in Above[c]
  <2>1. q \in Items /\ p \in Under[q]
    BY <1>3 DEF Above
  <2>2. c \in Under[q]
    BY <2>1, UnderIsTransitive
  <2> QED
    BY <1>1, <2>1, <2>2 DEF Above
<1> QED
  BY <1>2, <1>3 DEF Exists

(* What is in p is in one of its members that exist.                       *)
LEMMA MemberOnTheWay ==
  ASSUME NEW p \in Items, NEW x \in Under[p], Exists(x)
  PROVE  \E c \in Children[p] : Exists(c) /\ x \in {c} \cup Under[c]
<1>1. PICK c \in Children[p] : x \in {c} \cup Under[c]
  BY UnderByChild
<1>2. c \in Items
  BY TransferAssumption
<1> QED
  BY <1>1, <1>2, ContainerExists

(* Making directories undoes nothing.                                      *)
LEMMA DirectoryKeepsDone ==
  ASSUME FileTypes, NEW p \in Items, MakeDirectory(p), UNCHANGED remote
  PROVE  /\ local'[p] = Directory
         /\ \A q \in Items : Done(q) => Done(q)'
  BY DEF FileTypes, MakeDirectory, Reachable, Put, Done, File, Directory

LEMMA ParentsKeepDone ==
  ASSUME FileTypes, NEW p \in Items, Reachable(p), local' = MakeParents(p), UNCHANGED remote
  PROVE  \A q \in Items : Done(q) => Done(q)'
  BY DEF FileTypes, MakeParents, Reachable, Put, Done, File, Directory

(* A failure ends no transfer with success, and leads into no tree.        *)
LEMMA FailsIsNoSuccess ==
  ASSUME PlanOK, pc \notin {"idle", "clear"}, NEW reason, Fails(reason)
  PROVE  /\ pc' \in {"resolve", "idle"}
         /\ pc' = "idle" => result' \in {"failed", "reconciled"}
  BY DEF PlanOK, Fails, Fallback, GoesOn, Ends

LEMMA KindsStep ==
  ASSUME FileTypes, KindsOK, [Next]_vars
  PROVE  KindsOK'
<1>1. CASE UNCHANGED remote
  BY <1>1 DEF KindsOK
<1>2. ASSUME NEW p \in Items, Change(p)
      PROVE  KindsOK'
  <2>1. CASE \E kind \in {"none", "file", "folder"} \cup (IF p = Root THEN {"package"} ELSE {}) :
               remote' = [remote EXCEPT ![p].kind = kind]
    BY <2>1 DEF FileTypes, KindsOK
  <2>2. CASE remote' = [remote EXCEPT ![p].version = @ + 1]
    BY <2>2 DEF FileTypes, KindsOK
  <2> QED
    BY <1>2, <2>1, <2>2 DEF Change
<1>3. CASE UNCHANGED drive \/ UNCHANGED vars
  BY <1>1, <1>3 DEF drive, vars
<1>4. CASE Begin \/ Attempt \/ Crash
  BY <1>3, <1>4
  DEF Begin, Attempt, ClearConflict, ClearFails, FindFile, FindTree, ReadMetadata, TreeDone,
      EnterFolder, MissChild, FindMember, EnterListedFolder, MissListedFile, OpenFails, Open,
      Stream, WriteFails, Replace, RaiseError, Crash
<1> QED
  BY <1>2, <1>3, <1>4 DEF Next

(* A step that ends the attempt's walk through the entry, or comes after a *)
(* change of the drive, has nothing to show but how the transfer ends.     *)
LEMMA LeavesTree ==
  ASSUME pc' \in {"idle", "clear", "resolve"} \/ ~steady'
  PROVE  (CopyOK /\ TreeOK /\ ProgressOK)'
  BY DEF CopyOK, TreeOK, ProgressOK, InTree, Busy

LEMMA CompleteStep ==
  ASSUME FilesInv, PhaseOK, CallTypes, CompleteInv, [Next]_vars
  PROVE  CompleteInv'
<1> USE FilesInv, PhaseOK, CallTypes, CompleteInv
<1>0. KindsOK'
  BY KindsStep DEF FilesInv, CompleteInv
<1>a. ASSUME pc \notin {"idle", "clear"}, NEW reason, Fails(reason)
      PROVE  CompleteInv'
  BY <1>0, <1>a, FailsIsNoSuccess, LeavesTree DEF CompleteInv, SuccessIsComplete, FilesInv
<1>b. ASSUME pc' # "idle", CopyOK', TreeOK', ProgressOK'
      PROVE  CompleteInv'
  BY <1>0, <1>b DEF CompleteInv, SuccessIsComplete
<1>1. CASE Begin \/ ClearConflict
  <2>1. pc' \in {"clear", "resolve"}
    BY <1>1 DEF Begin, ClearConflict, GoesOn
  <2> QED
    BY <1>b, <2>1, LeavesTree
<1>2. CASE ClearFails \/ Crash \/ RaiseError
  <2>1. pc' = "clear" \/ (pc' = "idle" /\ result' \in {"none", "failed"})
    BY <1>2 DEF ClearFails, Crash, RaiseError, Raise, Ends
  <2> QED
    BY <1>0, <2>1, LeavesTree DEF CompleteInv, SuccessIsComplete
<1>3. CASE FindFile
  <2>1. CASE GoesOn("open") /\ UNCHANGED doing /\ doing = "file"
    <3>1. pc' = "open" /\ doing' = "file"
      BY <2>1 DEF GoesOn
    <3> QED
      BY <1>b, <3>1 DEF CopyOK, TreeOK, ProgressOK, InTree
  <2> QED
    BY <1>3, <1>a, <2>1 DEF FindFile
<1>4. CASE FindTree
  <2>1. CASE /\ Looks("folder") /\ GoesOn("visit") /\ doing' = "walk" /\ todo' = <<Root>>
             /\ UNCHANGED remote
    <3>1. pc' = "visit"
      BY <2>1 DEF GoesOn
    <3>2. Among(Root, todo') /\ \A x \in Under[Root] : Among(x, todo')
      BY <2>1 DEF Among
    <3>3. CopyOK' /\ TreeOK'
      BY <2>1, <3>1 DEF CopyOK, TreeOK, Looks
    <3>4. ProgressOK'
      BY <3>2 DEF ProgressOK
    <3> QED
      BY <1>b, <3>1, <3>3, <3>4
  <2>2. CASE GoesOn("resolve")
    <3>1. pc' = "resolve"
      BY <2>2 DEF GoesOn
    <3> QED
      BY <1>b, <3>1, LeavesTree
  <2> QED
    BY <1>4, <1>a, <2>1, <2>2 DEF FindTree, drive
<1>5. CASE ReadMetadata
  <2>1. CASE /\ Listed(Root, Metadata) # <<>>
             /\ MakeDirectory(Root)
             /\ payload' = Metadata
             /\ todo' = Listed(Root, Metadata)
             /\ GoesOn("visit")
             /\ UNCHANGED <<plan, doing>>
    <3>1. pc' = "visit" /\ doing' = "metadata" /\ UNCHANGED remote
      BY <1>5, <2>1 DEF ReadMetadata, GoesOn, drive
    <3>2. Metadata' = Metadata
      BY <3>1 DEF Metadata, Exists
    <3>3. CopyOK' /\ TreeOK'
      BY <2>1, <3>1, <3>2 DEF CopyOK, TreeOK
    <3>4. \A c \in Children[Root] : Metadata[c] # "none" <=> Exists(c) /\ remote[c].kind # "none"
      BY TransferAssumption, UnderIsClosed DEF Metadata
    <3>5. /\ Listed(Root, Metadata) \in Seq(Items)
          /\ \A c : c \in Children[Root] /\ Metadata[c] # "none" <=>
                    \E i \in 1 .. Len(Listed(Root, Metadata)) : c = Listed(Root, Metadata)[i]
      BY ListedAreMembers, TransferAssumption
    <3>6. Done(Root)'
      <4>1. 1 \in 1 .. Len(Listed(Root, Metadata))
        BY <2>1, <3>5, EmptySeq, LenProperties
      <4>2. \E c \in Children[Root] : Exists(c)
        BY <3>4, <3>5, <4>1
      <4>3. remote[Root].kind \in {"folder", "package"}
        BY <4>2, ContainerExists, UnderIsClosed, TransferAssumption
      <4>4. local'[Root] = Directory
        BY <2>1, <3>1, DirectoryKeepsDone, TransferAssumption DEF FilesInv
      <4> QED
        BY <3>1, <4>3, <4>4 DEF Done
    <3>7. ASSUME NEW x \in Under[Root], Exists(x)
          PROVE  Among(x, todo')
      <4>1. PICK c \in Children[Root] : Exists(c) /\ x \in {c} \cup Under[c]
        BY <3>7, MemberOnTheWay, TransferAssumption
      <4>2. \E i \in 1 .. Len(todo') : c = todo'[i]
        BY <2>1, <3>4, <3>5, <4>1 DEF Exists
      <4> QED
        BY <4>1, <4>2 DEF Among
    <3>8. \A x : Exists(x)' <=> Exists(x)
      BY <3>1 DEF Exists
    <3>9. ProgressOK'
      BY <3>6, <3>7, <3>8 DEF ProgressOK
    <3> QED
      BY <1>b, <3>1, <3>3, <3>9
  <2> QED
    BY <1>5, <1>a, <2>1 DEF ReadMetadata
<1>6. CASE TreeDone
  <2>1. /\ pc' = "idle" /\ result' = "package" /\ pc = "visit" /\ todo = <<>>
        /\ UNCHANGED <<remote, local, steady, hollow>>
    BY <1>6 DEF TreeDone, Ends, drive, output
  <2>2. ASSUME steady, ~hollow, NEW p \in {Root} \cup Under[Root], Exists(p)
        PROVE  Done(p)
    <3>1. InTree
      BY <2>1 DEF InTree, PhaseOK
    <3>2. ~Among(p, todo)
      BY <2>1, EmptySeq DEF Among
    <3> QED
      BY <2>2, <3>1, <3>2 DEF CompleteInv, ProgressOK
  <2>3. \A p : Exists(p)' <=> Exists(p)
    BY <2>1 DEF Exists
  <2>4. SuccessIsComplete'
    BY <2>1, <2>2, <2>3 DEF SuccessIsComplete, Done
  <2> QED
    BY <1>0, <2>1, <2>4, LeavesTree DEF CompleteInv
<1>7. ASSUME NEW p \in Items, EnterFolder(p)
      PROVE  CompleteInv'
  <2>1. /\ pc' = "visit" /\ pc = "visit" /\ doing = "walk" /\ todo # <<>> /\ p = Head(todo)
        /\ UNCHANGED <<remote, doing, payload, steady>>
    BY <1>7 DEF EnterFolder, Visiting, GoesOn, drive
  <2>2. CopyOK' /\ TreeOK'
    BY <2>1 DEF CompleteInv, CopyOK, TreeOK, InTree
  <2>3. ASSUME steady, ~hollow', NEW x \in {Root} \cup Under[Root], Exists(x)
        PROVE  Done(x)' \/ Among(x, todo')
    <3>1. todo' = Names(p) \o Tail(todo) /\ hollow' = hollow
      BY <1>7, <2>3 DEF EnterFolder
    <3>2. x \in Items
      BY UnderIsClosed, TransferAssumption
    <3>3. /\ Names(p) \in Seq(Items) /\ Tail(todo) \in Seq(Items)
          /\ \A c : c \in Children[p] /\ Exists(c) <=> \E i \in 1 .. Len(Names(p)) : c = Names(p)[i]
      BY <2>1, NamesAreMembers, HeadTailProperties DEF CallTypes
    <3>4. Among(x, todo') <=> Among(x, Names(p)) \/ Among(x, Tail(todo))
      BY <3>1, <3>3, AmongConcat
    <3>5. Done(x) \/ x = p \/ x \in Under[p] \/ Among(x, Tail(todo))
      BY <2>1, <2>3, <3>1, AmongHeadTail DEF CompleteInv, ProgressOK, InTree, CallTypes
    <3>6. MakeDirectory(p)
      BY <1>7 DEF EnterFolder
    <3>7. CASE Done(x)
      BY <2>1, <3>2, <3>6, <3>7, DirectoryKeepsDone DEF FilesInv
    <3>8. CASE x = p
      <4>1. remote[p].kind = "folder"
        BY <1>7, <2>1, <2>3 DEF EnterFolder, CompleteInv, TreeOK, InTree
      <4>2. local'[p] = Directory
        BY <2>1, <3>6, DirectoryKeepsDone DEF FilesInv
      <4> QED
        BY <2>1, <3>8, <4>1, <4>2 DEF Done
    <3>9. CASE x \in Under[p]
      <4>1. PICK c \in Children[p] : Exists(c) /\ x \in {c} \cup Under[c]
        BY <2>3, <3>9, MemberOnTheWay
      <4> QED
        BY <3>3, <3>4, <4>1 DEF Among
    <3> QED
      BY <3>4, <3>5, <3>7, <3>8, <3>9
  <2>4. \A x : Exists(x)' <=> Exists(x)
    BY <2>1 DEF Exists
  <2>5. ProgressOK'
    BY <2>1, <2>3, <2>4 DEF ProgressOK
  <2> QED
    BY <1>b, <2>1, <2>2, <2>5
<1>8. ASSUME NEW p \in Items, MissChild(p) \/ MissListedFile(p)
      PROVE  CompleteInv'
  BY <1>8, <1>a DEF MissChild, MissListedFile, Visiting
<1>9. ASSUME NEW p \in Items, EnterListedFolder(p)
      PROVE  CompleteInv'
  <2>1. CASE /\ MakeDirectory(p)
             /\ todo' = Listed(p, payload) \o Tail(todo)
             /\ GoesOn("visit")
             /\ UNCHANGED <<plan, doing, payload>>
    <3>1. /\ pc' = "visit" /\ pc = "visit" /\ doing = "metadata" /\ todo # <<>> /\ p = Head(todo)
          /\ payload[p] = "folder" /\ UNCHANGED <<remote, doing, payload, steady, hollow>>
      BY <1>9, <2>1 DEF EnterListedFolder, Visiting, GoesOn, drive
    <3>2. Metadata' = Metadata
      BY <3>1 DEF Metadata, Exists
    <3>3. CopyOK' /\ TreeOK'
      BY <3>1, <3>2 DEF CompleteInv, CopyOK, TreeOK, InTree
    <3>4. ASSUME steady, ~hollow, NEW x \in {Root} \cup Under[Root], Exists(x)
          PROVE  Done(x)' \/ Among(x, todo')
      <4>1. x \in Items
        BY UnderIsClosed, TransferAssumption
      <4>2. payload = Metadata
        BY <3>1, <3>4 DEF CompleteInv, TreeOK, InTree
      <4>3. p \in Under[Root] /\ remote[p].kind = "folder"
        BY <3>1, <4>2 DEF Metadata
      <4>4. /\ Listed(p, payload) \in Seq(Items) /\ Tail(todo) \in Seq(Items)
            /\ \A c : c \in Children[p] /\ payload[c] # "none" <=>
                      \E i \in 1 .. Len(Listed(p, payload)) : c = Listed(p, payload)[i]
        BY <3>1, ListedAreMembers, HeadTailProperties DEF CallTypes
      <4>5. Among(x, todo') <=> Among(x, Listed(p, payload)) \/ Among(x, Tail(todo))
        BY <2>1, <4>4, AmongConcat
      <4>6. Done(x) \/ x = p \/ x \in Under[p] \/ Among(x, Tail(todo))
        BY <3>1, <3>4, AmongHeadTail DEF CompleteInv, ProgressOK, InTree, CallTypes
      <4>7. CASE Done(x)
        BY <2>1, <3>1, <4>1, <4>7, DirectoryKeepsDone DEF FilesInv
      <4>8. CASE x = p
        <5>1. local'[p] = Directory
          BY <2>1, <3>1, DirectoryKeepsDone DEF FilesInv
        <5> QED
          BY <3>1, <4>3, <4>8, <5>1 DEF Done
      <4>9. CASE x \in Under[p]
        <5>1. PICK c \in Children[p] : Exists(c) /\ x \in {c} \cup Under[c]
          BY <3>4, <4>9, MemberOnTheWay
        <5>2. c \in Under[Root] /\ c \in Items
          BY <4>3, <5>1, UnderIsClosed, TransferAssumption DEF Closed
        <5>3. payload[c] # "none"
          BY <4>2, <5>1, <5>2 DEF Metadata, Exists
        <5> QED
          BY <4>4, <4>5, <5>1, <5>3 DEF Among
      <4> QED
        BY <4>5, <4>6, <4>7, <4>8, <4>9
    <3>5. \A x : Exists(x)' <=> Exists(x)
      BY <3>1 DEF Exists
    <3>6. ProgressOK'
      BY <3>1, <3>4, <3>5 DEF ProgressOK
    <3> QED
      BY <1>b, <3>1, <3>3, <3>6
  <2> QED
    BY <1>9, <1>a, <2>1 DEF EnterListedFolder, Visiting
<1>10. ASSUME NEW p \in Items, FindMember(p)
       PROVE  CompleteInv'
  <2>1. /\ pc' = "open" /\ pc = "visit"
        /\ UNCHANGED <<remote, local, doing, todo, payload, steady, hollow>>
    BY <1>10 DEF FindMember, Visiting, GoesOn, drive, output, call
  <2>2. Metadata' = Metadata /\ \A x : /\ Exists(x)' <=> Exists(x)
                                       /\ Done(x)' <=> Done(x)
    BY <2>1 DEF Metadata, Exists, Done
  <2> QED
    BY <1>b, <2>1, <2>2 DEF CompleteInv, CopyOK, TreeOK, ProgressOK, InTree, Busy
<1>11. ASSUME NEW p \in Items, OpenFails(p) \/ WriteFails(p)
       PROVE  CompleteInv'
  BY <1>11, <1>a DEF OpenFails, WriteFails, At
<1>12. ASSUME NEW p \in Items, Open(p)
       PROVE  CompleteInv'
  <2>1. /\ pc' = "stream" /\ pc = "open" /\ p = Head(todo)
        /\ UNCHANGED <<remote, doing, todo, payload, steady, hollow>>
    BY <1>12 DEF Open, At, GoesOn, drive, call
  <2>2. Metadata' = Metadata /\ \A x : Exists(x)' <=> Exists(x)
    BY <2>1 DEF Metadata, Exists
  <2>3. \A q \in Items : Done(q) => Done(q)'
    BY <1>12, <2>1, ParentsKeepDone DEF Open, FilesInv
  <2>4. CopyOK'
    <3>1. partial'[p] = Torn(remote[p].version) /\ remote[p].kind \in {"file", "package"}
      BY <1>12 DEF Open, Exists, FilesInv, FileTypes
    <3> QED
      BY <2>1, <3>1 DEF CopyOK, Torn
  <2>5. TreeOK' /\ ProgressOK'
    <3>1. \A x \in {Root} \cup Under[Root] : x \in Items
      BY UnderIsClosed, TransferAssumption
    <3> QED
      BY <2>1, <2>2, <2>3, <3>1 DEF CompleteInv, TreeOK, ProgressOK, InTree, Busy
  <2> QED
    BY <1>b, <2>1, <2>4, <2>5
<1>13. ASSUME NEW p \in Items, Stream(p)
       PROVE  CompleteInv'
  <2>1. /\ pc' = "replace" /\ pc = "stream" /\ p = Head(todo)
        /\ UNCHANGED <<remote, local, doing, todo, payload, steady, hollow>>
    BY <1>13 DEF Stream, At, GoesOn, drive, call
  <2>2. Metadata' = Metadata /\ \A x : /\ Exists(x)' <=> Exists(x)
                                       /\ Done(x)' <=> Done(x)
    BY <2>1 DEF Metadata, Exists, Done
  <2>3. CopyOK'
    <3>1. partial'[p].version = partial[p].version
      BY <1>13 DEF Stream, FilesInv, FileTypes, Nodes, Nothing, Torn, File, Directory
    <3> QED
      BY <2>1, <3>1 DEF CompleteInv, CopyOK
  <2> QED
    BY <1>b, <2>1, <2>2, <2>3 DEF CompleteInv, TreeOK, ProgressOK, InTree, Busy
<1>14. ASSUME NEW p \in Items, Replace(p)
       PROVE  CompleteInv'
  <2>1. /\ pc = "replace" /\ p = Head(todo) /\ local' = [local EXCEPT ![p] = partial[p]]
        /\ UNCHANGED <<remote, steady, hollow>>
    BY <1>14 DEF Replace, At, drive
  <2>2. steady => /\ remote[p].kind \in {"file", "package"}
                  /\ local'[p] = File(remote[p].version)
    <3>1. partial[p] \in Nodes /\ partial[p].kind = "file" /\ local \in [Items -> Nodes]
      BY <2>1 DEF FilesInv, FileTypes, WritingOK
    <3>2. partial[p] = File(partial[p].version)
      BY <3>1 DEF Nodes, Nothing, Directory, Torn, File
    <3> QED
      BY <2>1, <3>1, <3>2 DEF CompleteInv, CopyOK
  <2>3. CASE doing = "file"
    <3>1. pc' = "idle" /\ result' = "file" /\ p = Root
      BY <1>14, <2>1, <2>3 DEF Replace, Ends, PhaseOK, Busy
    <3>2. SuccessIsComplete'
      BY <2>1, <2>2, <3>1 DEF SuccessIsComplete
    <3> QED
      BY <1>0, <3>1, <3>2, LeavesTree DEF CompleteInv
  <2>4. CASE doing # "file"
    <3>1. /\ pc' = "visit" /\ todo' = Tail(todo) /\ UNCHANGED <<doing, payload>>
          /\ p # Root /\ todo # <<>>
      BY <1>14, <2>1, <2>4 DEF Replace, GoesOn, PhaseOK, Busy
    <3>2. Metadata' = Metadata /\ \A x : Exists(x)' <=> Exists(x)
      BY <2>1 DEF Metadata, Exists
    <3>3. CopyOK' /\ TreeOK'
      BY <2>1, <3>1, <3>2 DEF CompleteInv, CopyOK, TreeOK, InTree, Busy
    <3>4. ASSUME steady, ~hollow, NEW x \in {Root} \cup Under[Root], Exists(x)
          PROVE  Done(x)' \/ Among(x, todo')
      <4>1. x \in Items /\ local \in [Items -> Nodes]
        BY UnderIsClosed, TransferAssumption DEF FilesInv, FileTypes
      <4>2. remote[p].kind = "file"
        BY <2>2, <3>1, <3>4 DEF CompleteInv, KindsOK
      <4>3. Done(x) \/ x = p \/ x \in Under[p] \/ Among(x, todo')
        BY <2>1, <2>4, <3>1, <3>4, AmongHeadTail
        DEF CompleteInv, ProgressOK, InTree, Busy, CallTypes
      <4>4. x \notin Under[p]
        BY <3>4, <4>2, ContainerExists
      <4>5. CASE x = p
        BY <2>1, <2>2, <3>4, <4>2, <4>5 DEF Done
      <4>6. CASE Done(x) /\ x # p
        BY <2>1, <4>1, <4>6 DEF Done
      <4> QED
        BY <4>3, <4>4, <4>5, <4>6
    <3>5. ProgressOK'
      BY <2>1, <3>2, <3>4 DEF ProgressOK
    <3> QED
      BY <1>b, <3>1, <3>3, <3>5
  <2> QED
    BY <2>3, <2>4
<1>15. ASSUME NEW p \in Items, Change(p)
       PROVE  CompleteInv'
  <2>1. steady' = FALSE
    BY <1>15 DEF Change
  <2> QED
    BY <1>0, <2>1, LeavesTree DEF CompleteInv, SuccessIsComplete
<1>16. CASE UNCHANGED vars
  <2>1. UNCHANGED <<remote, local, partial, pc, result, doing, todo, payload, steady, hollow>>
    BY <1>16 DEF vars, drive, output, call
  <2>2. Metadata' = Metadata /\ \A x : /\ Exists(x)' <=> Exists(x)
                                       /\ Done(x)' <=> Done(x)
    BY <2>1 DEF Metadata, Exists, Done
  <2> QED
    BY <1>0, <2>1, <2>2
    DEF CompleteInv, CopyOK, TreeOK, ProgressOK, InTree, SuccessIsComplete
<1> QED
  BY <1>1, <1>2, <1>3, <1>4, <1>5, <1>6, <1>7, <1>8, <1>9, <1>10, <1>11, <1>12, <1>13,
     <1>14, <1>15, <1>16
  DEF Next, Attempt

LEMMA CompleteInit == Init => CompleteInv
  BY TransferAssumption
  DEF Init, CompleteInv, KindsOK, CopyOK, TreeOK, ProgressOK, InTree, Busy, SuccessIsComplete

(* A transfer that succeeds has got everything: a walk through the entry,   *)
(* by its folders or by what its parent's metadata list, skips nothing and  *)
(* undoes nothing, however often it was begun anew and whatever was there   *)
(* before, unless the drive changed or a folder gave no answer meanwhile.   *)
THEOREM SuccessComplete == Spec => []SuccessIsComplete
<1>1. FilesInv /\ PhaseOK /\ CallTypes /\ CompleteInv /\ [Next]_vars => CompleteInv'
  BY CompleteStep
<1>2. CompleteInv => SuccessIsComplete
  BY DEF CompleteInv
<1> QED
  BY <1>1, <1>2, CompleteInit, FilesAlways, CallAlways, PTL DEF Spec
=============================================================================
