----------------------------- MODULE SmallDrive -----------------------------
(***************************************************************************)
(* A small drive: three directories in the root, one of them an app        *)
(* library whose kind must be probed, one with a name its parent does not  *)
(* resolve; each holds a file, one of which must be probed.                *)
(***************************************************************************)
CONSTANTS root, docs, library, padded, report, note, draft

DriveNodes == {root, docs, library, padded, report, note, draft}
DriveDirs == {root, docs, library, padded}
DriveChildren ==
  [d \in DriveDirs |->
     CASE d = root    -> {docs, library, padded}
       [] d = docs    -> {report}
       [] d = library -> {note}
       [] d = padded  -> {draft}]
DriveUntyped == {library, report}
DriveUnresolvable == {padded}
=============================================================================
