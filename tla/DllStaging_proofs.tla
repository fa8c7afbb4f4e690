--------------------------- MODULE DllStaging_proofs ---------------------------
(***************************************************************************)
(* The properties of DllStaging hold for every set of vendor DLLs as long  *)
(* as the runs of the scripts do not overlap (one element in Procs, any    *)
(* number of runs one after another).  Two overlapping runs lose the       *)
(* original: the run on MCDllStagingTwo.cfg shows how.                     *)
(***************************************************************************)
EXTENDS DllStaging, TLAPS

(* What holds whatever is killed or fails: the backup is the file the last   *)
(* Stage moved away, it exists wherever the script is about to give up the   *)
(* target, and the hash in hand is that of a vendor DLL.                     *)
Safe(p) ==
  /\ OriginalKept
  /\ backup \in Vendors \union {"none"}
  /\ pc[p] \in {"copy", "write", "unplace", "drop", "back"} => backup \in Vendors
  /\ pc[p] \in {"move", "copy", "write"} => hash[p] \in Vendors
  /\ backup \in Vendors => displaced = backup
  /\ pc[p] \in {"verify", "clean"} => target = displaced /\ backup = "none"
  /\ (pc[p] = "drop" /\ ~force[p] /\ known[p].kind = "record") => target \notin Vendors

Untouched == target \in Vendors /\ backup = "none" /\ statefile = NoRecord
Displaced == target = "none" /\ backup \in Vendors /\ statefile = NoRecord
Staged    == backup \in Vendors /\ statefile = RecordOf(backup)
Returned  == target \in Vendors /\ backup = "none" /\ statefile = RecordOf(target)

(* Where an unscarred script can stand: what each label may find on disk.    *)
Orderly(p) ==
  ~scarred =>
    /\ pc[p] \in {"idle", "stage", "restore"} => Untouched \/ Staged
    /\ pc[p] = "move" => Untouched /\ hash[p] = target
    /\ pc[p] = "copy" => Displaced /\ hash[p] = backup
    /\ pc[p] \in {"write", "unplace"} =>
         backup \in Vendors /\ hash[p] = backup /\ statefile = NoRecord
    /\ pc[p] = "undo" => Untouched \/ Displaced
    /\ pc[p] \in {"drop", "back"} => Staged /\ known[p] = statefile
    /\ pc[p] \in {"verify", "clean"} => Returned /\ known[p] = statefile

Inv(p) == TypeOK /\ Safe(p) /\ Orderly(p)

-----------------------------------------------------------------------------
(* The contents that are no vendor DLL, and the parts of the record type.    *)
LEMMA Distinct ==
  /\ "none" \notin Vendors /\ "partial" \notin Vendors /\ Bridge \notin Vendors
  /\ Bridge # "none" /\ Bridge # "partial"
BY StagingAssumption

LEMMA Records ==
  /\ NoRecord \in StateFiles /\ Torn \in StateFiles
  /\ \A o \in Vendors : RecordOf(o) \in StateFiles
  /\ NoRecord.kind = "none" /\ Torn.kind = "torn"
  /\ \A o : /\ RecordOf(o).kind = "record"
            /\ RecordOf(o).original = o
            /\ RecordOf(o).bridge = Bridge
  /\ \A s \in StateFiles : s.kind = "record" => s.bridge = Bridge
  /\ \A o : RecordOf(o) # Torn /\ RecordOf(o) # NoRecord
  /\ Torn # NoRecord
BY DEF StateFiles, NoRecord, Torn, RecordOf

LEMMA Start ==
  ASSUME NEW p \in Procs, Procs = {p}, Init
  PROVE  Inv(p)
BY Distinct, Records
   DEF Init, Inv, TypeOK, Safe, Orderly, OriginalKept, Untouched, Contents

-----------------------------------------------------------------------------
LEMMA BeginStep ==
  ASSUME NEW p \in Procs, Procs = {p}, Inv(p), NEW mode \in {"stage", "restore"},
         NEW f \in BOOLEAN, Begin(p, mode, f)
  PROVE  Inv(p)'
BY Distinct, Records
   DEF Begin, Goto, files, Inv, TypeOK, Safe, Orderly, OriginalKept,
       Untouched, Staged

LEMMA StageStep ==
  ASSUME NEW p \in Procs, Procs = {p}, Inv(p),
         StageChecks(p) \/ StageMove(p) \/ StageCopy(p) \/ StageWrite(p)
  PROVE  Inv(p)'
<1>1. CASE StageChecks(p)
  BY <1>1, Distinct, Records
     DEF StageChecks, Stageable, Goto, End, files, Inv, TypeOK, Safe, Orderly,
         OriginalKept, Untouched, Staged, Contents
<1>2. CASE StageMove(p)
  BY <1>2, Distinct, Records
     DEF StageMove, Goto, Inv, TypeOK, Safe, Orderly, OriginalKept, Untouched,
         Displaced, Contents
<1>3. CASE StageCopy(p)
  BY <1>3, Distinct, Records, ZenonT(60)
     DEF StageCopy, Goto, Inv, TypeOK, Safe, Orderly, OriginalKept, Untouched,
         Displaced, Contents
<1>4. CASE StageWrite(p)
  <2>1. hash[p] \in Vendors /\ pc[p] = "write" /\ backup \in Vendors
    BY <1>4 DEF StageWrite, Inv, Safe
  <2>2. CASE statefile' = RecordOf(hash[p]) /\ End(p, "staged") /\ UNCHANGED scarred
    <3>1. TypeOK' /\ Safe(p)'
      BY <1>4, <2>1, <2>2, Distinct, Records
         DEF StageWrite, End, Inv, TypeOK, Safe, OriginalKept
    <3>2. ~scarred => hash[p] = backup
      BY <2>1 DEF Inv, Orderly
    <3>3. Orderly(p)'
      BY <1>4, <2>1, <2>2, <3>2 DEF StageWrite, End, Inv, TypeOK, Orderly, Staged
    <3>4. QED
      BY <3>1, <3>3 DEF Inv
  <2>3. CASE statefile' \in {statefile, Torn} /\ Goto(p, "unplace")
    <3>1. TypeOK'
      BY <1>4, <2>3, Records DEF StageWrite, Goto, Inv, TypeOK
    <3>2. pc'[p] = "unplace" /\ target' = target /\ backup' = backup /\ hash' = hash
          /\ displaced' = displaced
      BY <1>4, <2>3 DEF StageWrite, Goto, Inv, TypeOK
    <3>3. Safe(p)'
      BY <2>1, <3>2, Distinct DEF Inv, Safe, OriginalKept
    <3>4. ~scarred' => ~scarred /\ statefile' = statefile
      BY <1>4, <2>1, <2>3, Distinct, Records
         DEF StageWrite, End, Goto, Inv, TypeOK
    <3>5. Orderly(p)'
      BY <2>1, <3>2, <3>4 DEF Inv, Orderly
    <3>6. QED
      BY <3>1, <3>3, <3>5 DEF Inv
  <2>4. QED
    BY <1>4, <2>2, <2>3 DEF StageWrite
<1>5. QED
  BY <1>1, <1>2, <1>3, <1>4

LEMMA UndoStep ==
  ASSUME NEW p \in Procs, Procs = {p}, Inv(p), UndoRemove(p) \/ UndoMove(p)
  PROVE  Inv(p)'
<1>1. CASE UndoRemove(p)
  BY <1>1, Distinct, Records
     DEF UndoRemove, Goto, Inv, TypeOK, Safe, Orderly, OriginalKept, Untouched,
         Displaced, Contents
<1>2. CASE UndoMove(p)
  BY <1>2, Distinct, Records
     DEF UndoMove, End, Inv, TypeOK, Safe, Orderly, OriginalKept, Untouched,
         Displaced, Staged, Contents
<1>3. QED
  BY <1>1, <1>2

LEMMA RestoreStep ==
  ASSUME NEW p \in Procs, Procs = {p}, Inv(p),
         RestoreChecks(p) \/ RestoreDrop(p) \/ RestoreBack(p) \/ RestoreVerify(p)
           \/ RestoreClean(p)
  PROVE  Inv(p)'
<1>1. CASE RestoreChecks(p)
  BY <1>1, Distinct, Records
     DEF RestoreChecks, Readings, Unexpected, Goto, End, files, Inv, TypeOK, Safe,
         Orderly, OriginalKept, Untouched, Staged, Contents
<1>2. CASE RestoreDrop(p)
  BY <1>2, Distinct, Records
     DEF RestoreDrop, Goto, End, Inv, TypeOK, Safe, Orderly, OriginalKept,
         Untouched, Staged, Contents
<1>3. CASE RestoreBack(p)
  BY <1>3, Distinct, Records
     DEF RestoreBack, Goto, End, Inv, TypeOK, Safe, Orderly, OriginalKept,
         Untouched, Staged, Returned, Contents
<1>4. CASE RestoreVerify(p)
  BY <1>4, Distinct, Records
     DEF RestoreVerify, Goto, End, files, Inv, TypeOK, Safe, Orderly, OriginalKept,
         Untouched, Staged, Returned, Contents
<1>5. CASE RestoreClean(p)
  BY <1>5, Distinct, Records, ZenonT(60)
     DEF RestoreClean, Goto, End, Inv, TypeOK, Safe, Orderly, OriginalKept,
         Untouched, Staged, Returned, Contents
<1>6. QED
  BY <1>1, <1>2, <1>3, <1>4, <1>5

(* A kill scars, so only Safe has to survive it; an installer runs between   *)
(* the scripts.                                                              *)
LEMMA OutsideStep ==
  ASSUME NEW p \in Procs, Procs = {p}, Inv(p),
         Kill(p) \/ (\E v \in Vendors : Install(v)) \/ UNCHANGED vars
  PROVE  Inv(p)'
<1>1. CASE Kill(p)
  BY <1>1, Distinct, Records
     DEF Kill, End, Inv, TypeOK, Safe, Orderly, OriginalKept, Contents
<1>2. ASSUME NEW v \in Vendors, Install(v)
      PROVE  Inv(p)'
  BY <1>2, Distinct, Records
     DEF Install, AllIdle, Inv, TypeOK, Safe, Orderly, OriginalKept, Untouched,
         Staged, Contents
<1>3. CASE UNCHANGED vars
  BY <1>3
     DEF vars, files, Inv, TypeOK, Safe, Orderly, OriginalKept, Untouched,
         Displaced, Staged, Returned
<1>4. QED
  BY <1>1, <1>2, <1>3

LEMMA InvStep ==
  ASSUME NEW p \in Procs, Procs = {p}, Inv(p), [Next]_vars
  PROVE  Inv(p)'
<1>1. \/ \E f \in BOOLEAN : Begin(p, "stage", f) \/ Begin(p, "restore", f)
      \/ Step(p) \/ Kill(p) \/ (\E v \in Vendors : Install(v)) \/ UNCHANGED vars
  BY DEF Next
<1>2. QED
  BY <1>1, BeginStep, StageStep, UndoStep, RestoreStep, OutsideStep DEF Step

LEMMA InvAlways ==
  ASSUME NEW p \in Procs, Procs = {p}
  PROVE  Spec => []Inv(p)
<1>1. Init => Inv(p)
  BY Start
<1>2. Inv(p) /\ [Next]_vars => Inv(p)'
  BY InvStep
<1>3. QED
  BY <1>1, <1>2, PTL DEF Spec

-----------------------------------------------------------------------------
(* The variables keep their types; in particular every recorded hash is that *)
(* of a vendor DLL.                                                          *)
THEOREM TypeCorrect ==
  ASSUME NEW p \in Procs, Procs = {p}
  PROVE  Spec => []TypeOK
<1>1. Inv(p) => TypeOK
  BY DEF Inv
<1>2. QED
  BY <1>1, InvAlways, PTL

(* Whatever fails or is killed, and whatever is installed between two runs,  *)
(* a vendor DLL is in its place or in the backup.                            *)
THEOREM OriginalAlwaysKept ==
  ASSUME NEW p \in Procs, Procs = {p}
  PROVE  Spec => []OriginalKept
<1>1. Inv(p) => OriginalKept
  BY DEF Inv, Safe
<1>2. QED
  BY <1>1, InvAlways, PTL

(* Without a scar the directory is untouched or staged with a truthful       *)
(* record whenever no script runs.                                           *)
THEOREM NeverHalfStaged ==
  ASSUME NEW p \in Procs, Procs = {p}
  PROVE  Spec => []NoHalfStage
<1>1. Inv(p) => NoHalfStage
  BY DEF Inv, Orderly, NoHalfStage, AllIdle, Untouched, Staged
<1>2. QED
  BY <1>1, InvAlways, PTL

(* With a readable record, Restore without -Force never removes a vendor DLL *)
(* that took the bridge's place.                                             *)
THEOREM RecordedTargetAlwaysKept ==
  ASSUME NEW p \in Procs, Procs = {p}
  PROVE  Spec => []RecordedTargetIsKept
<1>1. Inv(p) => RecordedTargetIsKept
  BY DEF Inv, Safe, RecordedTargetIsKept
<1>2. QED
  BY <1>1, InvAlways, PTL

(* A Restore that reports success put back the very file the last Stage      *)
(* moved away, and left no trace of the staging.                             *)
THEOREM RestoreAlwaysExact ==
  ASSUME NEW p \in Procs, Procs = {p}
  PROVE  Spec => RestoreIsExact
<1>1. ASSUME Inv(p), [Next]_vars, pc[p] = "clean", outcome'[p] = "restored",
             pc'[p] = "idle"
      PROVE  target' = displaced /\ backup' = "none" /\ statefile' = NoRecord
  <2>1. target = displaced /\ backup = "none" /\ p \in DOMAIN outcome
        /\ outcome \in [Procs -> {"none", "refused", "failed", "killed", "staged",
                                  "restored"}]
        /\ pc \in [Procs -> {"idle", "stage", "move", "copy", "write", "unplace", "undo",
                       "restore", "drop", "back", "verify", "clean"}]
    BY <1>1 DEF Inv, Safe, TypeOK
  <2>2. RestoreClean(p) \/ Kill(p)
    BY <1>1, <2>1 DEF Next, Step, Begin, StageChecks, StageMove, StageCopy, StageWrite,
       UndoRemove, UndoMove, RestoreChecks, RestoreDrop, RestoreBack, RestoreVerify,
       Install, AllIdle, vars
  <2>3. CASE RestoreClean(p)
    BY <1>1, <2>1, <2>3 DEF RestoreClean, End
  <2>4. CASE Kill(p)
    BY <1>1, <2>1, <2>4 DEF Kill, End
  <2>5. QED
    BY <2>2, <2>3, <2>4
<1>2. Inv(p) /\ [Next]_vars => [ExactRestore]_vars
  BY <1>1 DEF ExactRestore
<1>3. QED
  BY <1>2, InvAlways, PTL DEF Spec, RestoreIsExact
=============================================================================
