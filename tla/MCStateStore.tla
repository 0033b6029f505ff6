---------------------------- MODULE MCStateStore ----------------------------
(***************************************************************************)
(* Two records, which is what it takes for a save to replace another one.  *)
(***************************************************************************)
EXTENDS StateStore

CONSTANTS older, newer

OlderAndNewer == {older, newer}
=============================================================================
