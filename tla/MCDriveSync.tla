---------------------------- MODULE MCDriveSync ----------------------------
(***************************************************************************)
(* A drive with an app library that holds one report, and, in the larger   *)
(* one, a document with a package suffix beside it.                        *)
(***************************************************************************)
EXTENDS DriveSync

CONSTANTS library, report, sheet

LibraryPaths == {library, report}
SheetPaths == {library, report, sheet}

TreeOf(paths) == [p \in paths |-> IF p = library THEN {report} ELSE {}]
LibraryUnder == TreeOf(LibraryPaths)
SheetUnder == TreeOf(SheetPaths)

DriveOf(paths) == [p \in paths |-> IF p = library THEN "folder" ELSE "file"]
LibraryDrive == DriveOf(LibraryPaths)
SheetDrive == DriveOf(SheetPaths)
=============================================================================
