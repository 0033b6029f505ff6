-------------------------- MODULE MCSerialListing --------------------------
(* SerialListing on the small drive. *)
EXTENDS SerialListing, SmallDrive
=============================================================================
