------------------------------ MODULE DllStaging ------------------------------
(***************************************************************************)
(* scripts/stage-cudnn-bridge.ps1 and its twin stage-cusolver-proxy.ps1:   *)
(* put a bridge DLL in the place of the vendor's, keep the vendor's as a   *)
(* backup, record both hashes in a state file, and undo all that with      *)
(* -Restore.  Every file operation is a step that may fail; a script may   *)
(* be killed between and within steps; other software may install a new    *)
(* vendor DLL.                                                             *)
(*                                                                         *)
(* A file is its content (a hash tells contents apart).  The tests at the  *)
(* head of either half are one step.  Building the bridge and the          *)
(* recorded paths are left out.                                            *)
(***************************************************************************)
EXTENDS Naturals, FiniteSets

CONSTANTS
  Procs,            (* runs of the scripts that may overlap                   *)
  Vendors,          (* contents of vendor DLLs, the installed and later ones  *)
  Bridge            (* content of the bridge DLL                              *)

ASSUME StagingAssumption ==
  /\ Vendors # {}
  /\ {Bridge, "none", "partial"} \intersect Vendors = {}
  /\ Bridge \notin {"none", "partial"}

Contents == Vendors \union {Bridge, "none", "partial"}

(* The state file: absent, damaged, or the two recorded hashes. *)
NoRecord == [kind |-> "none", original |-> "none", bridge |-> "none"]
Torn     == [NoRecord EXCEPT !.kind = "torn"]
RecordOf(o) == [kind |-> "record", original |-> o, bridge |-> Bridge]
StateFiles == {NoRecord, Torn} \union {RecordOf(o) : o \in Vendors}

VARIABLES
  target,     (* content of cudnn64_8.dll                                    *)
  backup,     (* content of cudnn64_8_nvidia.dll                             *)
  statefile,  (* .cudaamd-cudnn-bridge.json                                  *)
  pc,         (* pc[p]: the next step of script run p, or "idle"             *)
  force,      (* force[p]: -Force                                            *)
  hash,       (* hash[p]: $originalHash                                      *)
  known,      (* known[p]: $state, as Restore read it                        *)
  outcome,    (* outcome[p]: how p's last run ended                          *)
  displaced,  (* history: the content the last Stage moved away              *)
  scarred     (* history: a script was killed, an undo step or the removal   *)
              (* of the state file failed, or a failing write left debris    *)

files == <<target, backup, statefile>>
vars == <<files, pc, force, hash, known, outcome, displaced, scarred>>

Init ==
  /\ target \in Vendors
  /\ backup = "none"
  /\ statefile = NoRecord
  /\ pc = [p \in Procs |-> "idle"]
  /\ force = [p \in Procs |-> FALSE]
  /\ hash = [p \in Procs |-> "none"]
  /\ known = [p \in Procs |-> NoRecord]
  /\ outcome = [p \in Procs |-> "none"]
  /\ displaced = "none"
  /\ scarred = FALSE

Goto(p, label) == pc' = [pc EXCEPT ![p] = label] /\ UNCHANGED outcome

(* The script returns or throws; its locals are gone. *)
End(p, how) ==
  /\ pc' = [pc EXCEPT ![p] = "idle"]
  /\ outcome' = [outcome EXCEPT ![p] = how]

Begin(p, mode, f) ==
  /\ pc[p] = "idle"
  /\ Goto(p, mode)
  /\ force' = [force EXCEPT ![p] = f]
  /\ hash' = [hash EXCEPT ![p] = "none"]
  /\ known' = [known EXCEPT ![p] = NoRecord]
  /\ UNCHANGED <<files, displaced, scarred>>

-----------------------------------------------------------------------------
(* Staging.  There must be a DLL, no earlier staging (with or without         *)
(* -Force), and a bridge that differs from the DLL.                           *)
Stageable == /\ target # "none"
             /\ backup = "none" /\ statefile = NoRecord
             /\ target # Bridge

(* Mutant: the hash of the original is not taken. *)
StageChecks_NoHash(p) ==
  /\ pc[p] = "stage"
  /\ IF Stageable THEN Goto(p, "move") ELSE End(p, "refused")
  /\ UNCHANGED <<files, force, hash, known, displaced, scarred>>

StageChecks(p) ==
  /\ pc[p] = "stage"
  /\ IF Stageable THEN Goto(p, "move") ELSE End(p, "refused")
  /\ hash' = [hash EXCEPT ![p] = IF Stageable THEN target ELSE @]
  /\ UNCHANGED <<files, force, known, displaced, scarred>>

(* Move-Item $target $backup, which does not overwrite. *)
StageMove(p) ==
  /\ pc[p] = "move"
  /\ \/ /\ target # "none" /\ backup = "none"
        /\ backup' = target
        /\ target' = "none"
        /\ displaced' = target
        /\ Goto(p, "copy")
     \/ /\ Goto(p, "undo")
        /\ UNCHANGED <<target, backup, displaced>>
  /\ UNCHANGED <<statefile, force, hash, known, scarred>>

(* Copy-Item $BridgeDll $target -Force; $installed = $true. *)
StageCopy(p) ==
  /\ pc[p] = "copy"
  /\ \/ target' = Bridge /\ Goto(p, "write") /\ UNCHANGED scarred
     \/ target' = target /\ Goto(p, "undo") /\ UNCHANGED scarred
     \/ target' = "partial" /\ Goto(p, "undo") /\ scarred' = TRUE
  /\ UNCHANGED <<backup, statefile, force, hash, known, displaced>>

(* Set-Content $statePath *)
StageWrite(p) ==
  /\ pc[p] = "write"
  /\ \/ statefile' = RecordOf(hash[p]) /\ End(p, "staged") /\ UNCHANGED scarred
     \/ UNCHANGED statefile /\ Goto(p, "unplace") /\ UNCHANGED scarred
     \/ statefile' = Torn /\ Goto(p, "unplace") /\ scarred' = TRUE
  /\ UNCHANGED <<target, backup, force, hash, known, displaced>>

(* catch: remove what was installed, errors ignored. *)
UndoRemove(p) ==
  /\ pc[p] = "unplace"
  /\ Goto(p, "undo")
  /\ \/ target' = "none" /\ UNCHANGED scarred
     \/ target # "none" /\ UNCHANGED target /\ scarred' = TRUE
  /\ UNCHANGED <<backup, statefile, force, hash, known, displaced>>

(* Mutant: the backup stays where it is. *)
UndoMove_Skipped(p) ==
  /\ pc[p] = "undo"
  /\ End(p, "failed")
  /\ UNCHANGED <<files, force, hash, known, displaced, scarred>>

(* catch: move the backup back if its place is free, errors ignored; throw. *)
UndoMove(p) ==
  /\ pc[p] = "undo"
  /\ End(p, "failed")
  /\ LET due == backup # "none" /\ target = "none" IN
       \/ due /\ target' = backup /\ backup' = "none" /\ UNCHANGED scarred
       \/ due /\ UNCHANGED <<target, backup>> /\ scarred' = TRUE
       \/ ~due /\ UNCHANGED <<target, backup, scarred>>
  /\ UNCHANGED <<statefile, force, hash, known, displaced>>

-----------------------------------------------------------------------------
(* Restoring.  What Restore makes of the state file: a damaged one counts as  *)
(* none or is an error.                                                       *)
Readings == IF statefile = Torn THEN {NoRecord, Torn} ELSE {statefile}

(* Mutant: only the original itself is kept. *)
Unexpected_OriginalOnly(s) == s.kind = "record" /\ target = s.original

(* The target is no longer the recorded bridge. *)
Unexpected(s) == s.kind = "record" /\ target # "none" /\ target # s.bridge

(* Mutant: no look at the backup. *)
RestoreChecks_NoBackupTest(p) ==
  /\ pc[p] = "restore"
  /\ \E s \in Readings :
       /\ known' = [known EXCEPT ![p] = s]
       /\ IF s = Torn \/ (Unexpected(s) /\ ~force[p])
            THEN End(p, "refused")
            ELSE Goto(p, "drop")
  /\ UNCHANGED <<files, force, hash, displaced, scarred>>

RestoreChecks(p) ==
  /\ pc[p] = "restore"
  /\ \E s \in Readings :
       /\ known' = [known EXCEPT ![p] = s]
       /\ IF backup = "none" \/ s = Torn \/ (Unexpected(s) /\ ~force[p])
            THEN End(p, "refused")
            ELSE Goto(p, "drop")
  /\ UNCHANGED <<files, force, hash, displaced, scarred>>

(* if (Test-Path $target) { Remove-Item $target -Force } *)
RestoreDrop(p) ==
  /\ pc[p] = "drop"
  /\ \/ target' = "none" /\ Goto(p, "back")
     \/ target # "none" /\ UNCHANGED target /\ End(p, "failed")
  /\ UNCHANGED <<backup, statefile, force, hash, known, displaced, scarred>>

(* Mutant: the backup is copied. *)
RestoreBack_Copies(p) ==
  /\ pc[p] = "back"
  /\ \/ backup # "none" /\ target' = backup /\ Goto(p, "verify")
     \/ UNCHANGED target /\ End(p, "failed")
  /\ UNCHANGED <<backup, statefile, force, hash, known, displaced, scarred>>

(* Move-Item $backup $target -Force *)
RestoreBack(p) ==
  /\ pc[p] = "back"
  /\ \/ backup # "none" /\ target' = backup /\ backup' = "none" /\ Goto(p, "verify")
     \/ UNCHANGED <<target, backup>> /\ End(p, "failed")
  /\ UNCHANGED <<statefile, force, hash, known, displaced, scarred>>

(* The restored file must have the recorded hash. *)
RestoreVerify(p) ==
  /\ pc[p] = "verify"
  /\ IF known[p].kind = "record" /\ target # known[p].original
       THEN End(p, "failed") ELSE Goto(p, "clean")
  /\ UNCHANGED <<files, force, hash, known, displaced, scarred>>

(* if (Test-Path $statePath) { Remove-Item $statePath -Force } *)
RestoreClean(p) ==
  /\ pc[p] = "clean"
  /\ \/ statefile' = NoRecord /\ End(p, "restored") /\ UNCHANGED scarred
     \/ /\ statefile # NoRecord
        /\ UNCHANGED statefile /\ End(p, "failed") /\ scarred' = TRUE
  /\ UNCHANGED <<target, backup, force, hash, known, displaced>>

-----------------------------------------------------------------------------
(* The script is killed: between two operations, or within a write. *)
Kill(p) ==
  /\ pc[p] # "idle"
  /\ End(p, "killed")
  /\ target' \in IF pc[p] = "copy" THEN {target, "partial"} ELSE {target}
  /\ statefile' \in IF pc[p] = "write" THEN {statefile, Torn} ELSE {statefile}
  /\ scarred' = TRUE
  /\ UNCHANGED <<backup, force, hash, known, displaced>>

AllIdle == \A p \in Procs : pc[p] = "idle"

(* pip, an installer or the user puts a vendor DLL in place, not in the      *)
(* middle of a script.                                                       *)
Install(v) ==
  /\ AllIdle
  /\ target' = v
  /\ UNCHANGED <<backup, statefile, pc, force, hash, known, outcome, displaced,
                 scarred>>

Step(p) ==
  \/ StageChecks(p) \/ StageMove(p) \/ StageCopy(p) \/ StageWrite(p)
  \/ UndoRemove(p) \/ UndoMove(p)
  \/ RestoreChecks(p) \/ RestoreDrop(p) \/ RestoreBack(p)
  \/ RestoreVerify(p) \/ RestoreClean(p)

Next ==
  \/ \E p \in Procs :
       \/ \E f \in BOOLEAN : Begin(p, "stage", f) \/ Begin(p, "restore", f)
       \/ Step(p)
       \/ Kill(p)
  \/ \E v \in Vendors : Install(v)

Spec == Init /\ [][Next]_vars

-----------------------------------------------------------------------------
TypeOK ==
  /\ target \in Contents /\ backup \in Contents
  /\ statefile \in StateFiles
  /\ pc \in [Procs -> {"idle", "stage", "move", "copy", "write", "unplace", "undo",
                       "restore", "drop", "back", "verify", "clean"}]
  /\ force \in [Procs -> BOOLEAN]
  /\ hash \in [Procs -> Vendors \union {"none"}]
  /\ known \in [Procs -> StateFiles]
  /\ outcome \in [Procs -> {"none", "refused", "failed", "killed", "staged",
                            "restored"}]
  /\ displaced \in Contents
  /\ scarred \in BOOLEAN

(* docs/CUDNN_BRIDGE.md, "Reversible staging": whatever fails or is killed,  *)
(* a vendor DLL is on disk, in its place or as the backup.                   *)
OriginalKept == target \in Vendors \/ backup \in Vendors

(* A Restore that reports success ends with the very file the last Stage     *)
(* moved away, and nothing staged.                                           *)
ExactRestore ==
  \A p \in Procs :
     (pc[p] = "clean" /\ outcome'[p] = "restored" /\ pc'[p] = "idle") =>
        target' = displaced /\ backup' = "none" /\ statefile' = NoRecord

(* docs/CUDNN_BRIDGE.md, "Restore the exact original binary": no step that   *)
(* ends a Restore with success is anything but exact.                        *)
RestoreIsExact == [][ExactRestore]_vars

(* Unless a script was killed or its undoing failed, the directory is either *)
(* as the vendor left it or staged with a truthful record: a Stage that      *)
(* throws rolls back, a Restore that throws can be repeated.                 *)
NoHalfStage ==
  (AllIdle /\ ~scarred) =>
     \/ target \in Vendors /\ backup = "none" /\ statefile = NoRecord
     \/ backup \in Vendors /\ statefile = RecordOf(backup)

(* As far as the state file is readable: Restore without -Force is never     *)
(* about to remove a vendor DLL that took the bridge's place.                *)
RecordedTargetIsKept ==
  \A p \in Procs :
     (pc[p] = "drop" /\ ~force[p] /\ known[p].kind = "record") => target \notin Vendors

(* docs/CUDNN_BRIDGE.md: the staging script refuses to overwrite an          *)
(* unexpected modified target.                                               *)
RefusesModifiedTarget ==
  \A p \in Procs : (pc[p] = "drop" /\ ~force[p]) => target \notin Vendors

(* The message of the refused Stage, "Restore it first": whenever a Stage is *)
(* refused because of a staging state, there is something to restore.        *)
RefusalCanBeFollowed ==
  (AllIdle /\ statefile # NoRecord) => backup # "none"
=============================================================================
