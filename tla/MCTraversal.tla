---------------------------- MODULE MCTraversal ----------------------------
(* Traversal on the small drive. *)
EXTENDS Traversal, SmallDrive
=============================================================================
