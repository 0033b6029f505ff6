------------------------------ MODULE MCWorker ------------------------------
(***************************************************************************)
(* Instances of Worker for TLC.  An interval of 7 days starts outside the  *)
(* warning window (6 days left); steps of 3 days reach the 5-day alert and *)
(* the 2-day prompt.                                                       *)
(***************************************************************************)
EXTENDS Worker

LoopCommands == {"backup", "auth_code", "reauth"}
WaitCommands == {"backup", "auth", "reauth_code", "ignored"}
=============================================================================
