-------------------------- MODULE StateStoreProofs --------------------------
(***************************************************************************)
(* The types of StateStore, and that it implements DurableCell.            *)
(***************************************************************************)
EXTENDS StateStore, TLAPS

(* Every variable has its type, and what the places of write_json and      *)
(* read_json take for granted holds there.                                 *)
THEOREM TypeCorrect == Spec => []TypeOK
<1>1. Init => TypeOK
  BY DEF Init, TypeOK, Files, SavePlaces, LoadPlaces
<1>2. ASSUME TypeOK, [Next]_vars
      PROVE  TypeOK'
  <2> USE <1>2 DEF TypeOK, Files, SavePlaces, LoadPlaces, files, Goto, Return
  <2>1. CASE Save
    BY <2>1 DEF Save
  <2>2. CASE OpenTemporary
    BY <2>2 DEF OpenTemporary
  <2>3. CASE Dump
    BY <2>3 DEF Dump
  <2>4. CASE Replace
    BY <2>4 DEF Replace
  <2>5. CASE ReplaceFails
    BY <2>5 DEF ReplaceFails
  <2>6. CASE LogCommit
    BY <2>6 DEF LogCommit
  <2>7. CASE Cleanup
    BY <2>7 DEF Cleanup
  <2>8. CASE Load
    BY <2>8 DEF Load
  <2>9. CASE Read
    BY <2>9 DEF Read
  <2>10. CASE ReadTorn
    BY <2>10 DEF ReadTorn
  <2>11. CASE RemoveQuarantined
    BY <2>11 DEF RemoveQuarantined
  <2>12. CASE SetAside
    BY <2>12 DEF SetAside
  <2>13. CASE Crash
    BY <2>13 DEF Crash
  <2>14. CASE ReachDisk
    BY <2>14 DEF ReachDisk
  <2>15. CASE PowerLoss
    BY <2>15 DEF PowerLoss
  <2>16. CASE UNCHANGED vars
    BY <2>16 DEF vars
  <2> QED
    BY <2>1, <2>2, <2>3, <2>4, <2>5, <2>6, <2>7, <2>8, <2>9, <2>10, <2>11, <2>12,
       <2>13, <2>14, <2>15, <2>16 DEF Next
<1> QED
  BY <1>1, <1>2, PTL DEF Spec

(* What a power loss may leave, once a record was put into the state file. *)
LEMMA ReplacedAtRisk ==
  ASSUME NEW r \in Records, NEW before, NEW after, after = before \union {r, "torn"}
  PROVE  {Parsed(f) : f \in after} = {Parsed(f) : f \in before} \union {r, Nothing}
  BY RecordsAssumption DEF Parsed

(* Setting a torn file aside adds nothing to what a power loss may leave.  *)
LEMMA SetAsideAtRisk ==
  ASSUME NEW before, "torn" \in before
  PROVE  {Parsed(f) : f \in before \union {"missing"}} = {Parsed(f) : f \in before}
<1>1. Parsed("missing") = Nothing /\ Parsed("torn") = Nothing
  BY RecordsAssumption DEF Parsed
<1> QED
  BY <1>1

(* The steps of write_json, read_json and the quarantine, with every       *)
(* failure and interruption, implement a cell written atomically.          *)
THEOREM ImplementsCell == Spec => Implements
<1>1. Init => Cell!Init
  BY RecordsAssumption DEF Init, Files, Parsed, CallOf, LoadPlaces, Cell!Init, Cell!Contents
<1>2. ASSUME TypeOK, [Next]_vars
      PROVE  [Cell!Next]_Cell!vars
  <2>1. CASE Save
    BY <1>2, <2>1 DEF Save, files, CallOf, LoadPlaces, Cell!Next, Cell!BeginSave
  <2>2. CASE OpenTemporary
    <3>1. UNCHANGED <<file, survivors, record, reply>> /\ CallOf = "saving"
      BY <2>2 DEF OpenTemporary, Goto, CallOf, LoadPlaces
    <3>2. CASE pc' = "dump"
      BY <3>1, <3>2 DEF CallOf, LoadPlaces, Cell!vars
    <3>3. CASE pc' = "cleanup"
      BY <3>1, <3>3 DEF CallOf, LoadPlaces, Cell!Next, Cell!Fail
    <3> QED
      BY <2>2, <3>2, <3>3 DEF OpenTemporary, Goto
  <2>3. CASE Dump
    <3>1. UNCHANGED <<file, survivors, record, reply>> /\ CallOf = "saving"
      BY <2>3 DEF Dump, Goto, CallOf, LoadPlaces
    <3>2. CASE pc' = "replace"
      BY <3>1, <3>2 DEF CallOf, LoadPlaces, Cell!vars
    <3>3. CASE pc' = "cleanup"
      BY <3>1, <3>3 DEF CallOf, LoadPlaces, Cell!Next, Cell!Fail
    <3> QED
      BY <2>3, <3>2, <3>3 DEF Dump, Goto
  <2>4. CASE Replace
    <3>1. /\ record \in Records /\ file' = record
          /\ survivors' = survivors \union {record, "torn"}
      BY <1>2, <2>4 DEF Replace, TypeOK, SavePlaces
    <3>2. Parsed(file)' = record
      BY <3>1 DEF Parsed
    <3>3. {Parsed(f) : f \in survivors}' = {Parsed(f) : f \in survivors} \union {record, Nothing}
      BY <3>1, ReplacedAtRisk
    <3>4. CallOf = "saving" /\ CallOf' = "saved" /\ UNCHANGED <<record, reply>>
      BY <2>4 DEF Replace, Goto, CallOf, LoadPlaces
    <3> QED
      BY <3>2, <3>3, <3>4 DEF Cell!Next, Cell!Commit
  <2>5. CASE ReplaceFails
    BY <2>5 DEF ReplaceFails, files, Goto, CallOf, LoadPlaces, Cell!Next, Cell!Fail
  <2>6. CASE LogCommit
    BY <2>6 DEF LogCommit, files, Goto, Return, CallOf, LoadPlaces,
                Cell!Next, Cell!Fail, Cell!SaveSucceeds, Cell!Ended
  <2>7. CASE Cleanup
    BY <2>7 DEF Cleanup, Return, CallOf, LoadPlaces, Cell!Next, Cell!SaveFails, Cell!Ended
  <2>8. CASE Load
    BY <2>8 DEF Load, files, CallOf, LoadPlaces, Cell!Next, Cell!BeginLoad
  <2>9. CASE Read
    BY <2>9 DEF Read, files, Return, Parsed, CallOf, LoadPlaces,
                Cell!Next, Cell!LoadReplies, Cell!Ended
  <2>10. CASE ReadTorn
    BY <2>10 DEF ReadTorn, files, Goto, CallOf, LoadPlaces, Cell!vars
  <2>11. CASE RemoveQuarantined
    <3>1. UNCHANGED <<file, survivors>> /\ CallOf = "loading"
      BY <2>11 DEF RemoveQuarantined, CallOf, LoadPlaces
    <3>2. CASE Goto("set_aside")
      BY <3>1, <3>2 DEF Goto, CallOf, LoadPlaces, Cell!vars
    <3>3. CASE Return(Nothing)
      BY <3>1, <3>3 DEF Return, CallOf, LoadPlaces, Cell!Next, Cell!LoadReplies, Cell!Ended
    <3> QED
      BY <2>11, <3>2, <3>3 DEF RemoveQuarantined
  <2>12. CASE SetAside
    <3>1. file = "torn" /\ "torn" \in survivors
      BY <1>2, <2>12 DEF SetAside, TypeOK
    <3>2. Parsed(file)' = Parsed(file)
      BY <2>12, <3>1, RecordsAssumption DEF SetAside, Parsed
    <3>3. {Parsed(f) : f \in survivors}' = {Parsed(f) : f \in survivors}
      BY <2>12, <3>1, SetAsideAtRisk DEF SetAside
    <3>4. CallOf = "loading" /\ CallOf' = "none" /\ record' = Nothing /\ reply' = Nothing
      BY <2>12 DEF SetAside, Return, CallOf, LoadPlaces
    <3> QED
      BY <3>2, <3>3, <3>4 DEF Cell!Next, Cell!LoadReplies, Cell!Ended
  <2>13. CASE Crash
    <3>1. CallOf' = "none"
      BY <2>13 DEF Crash, Return, CallOf, LoadPlaces
    <3>2. Parsed(file)' = Parsed(file)
      BY <2>13 DEF Crash, files, Parsed
    <3>3. Cell!Crash
      BY <2>13, <3>1, <3>2 DEF Crash, files, Return, Cell!Crash, Cell!Ended
    <3> QED
      BY <3>3 DEF Cell!Next
  <2>14. CASE ReachDisk
    <3>1. {Parsed(f) : f \in survivors}' = {Parsed(file)}
      BY <2>14 DEF ReachDisk
    <3> QED
      BY <2>14, <3>1 DEF ReachDisk, CallOf, Cell!Next, Cell!ReachDisk
  <2>15. CASE PowerLoss
    <3>1. {Parsed(f) : f \in survivors}' = {Parsed(file)'}
      BY <2>15 DEF PowerLoss
    <3>2. Parsed(file)' \in {Parsed(f) : f \in survivors}
      BY <2>15 DEF PowerLoss, Parsed
    <3>3. CallOf' = "none"
      BY <2>15 DEF PowerLoss, Return, CallOf, LoadPlaces
    <3>4. Cell!PowerLoss
      BY <2>15, <3>1, <3>2, <3>3 DEF PowerLoss, Return, Cell!PowerLoss, Cell!Ended
    <3> QED
      BY <3>4 DEF Cell!Next
  <2>16. CASE UNCHANGED vars
    BY <2>16 DEF vars, CallOf, Parsed, Cell!vars
  <2> QED
    BY <1>2, <2>1, <2>2, <2>3, <2>4, <2>5, <2>6, <2>7, <2>8, <2>9, <2>10, <2>11, <2>12,
       <2>13, <2>14, <2>15, <2>16 DEF Next
<1> QED
  BY <1>1, <1>2, TypeCorrect, PTL DEF Spec, Implements, Cell!Spec
=============================================================================
