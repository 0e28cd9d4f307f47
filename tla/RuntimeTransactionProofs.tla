----------------------- MODULE RuntimeTransactionProofs -----------------------
(***************************************************************************)
(* Proofs about RuntimeTransaction for any number of roles, any choice of  *)
(* the unit and of the Wine roles, any parent directories and any bounds.  *)
(***************************************************************************)
EXTENDS RuntimeTransaction, TLAPS

-----------------------------------------------------------------------------
(* The invariant, in every world: what the running command has recorded and *)
(* which names it has not used yet                                          *)

Working == InstallSteps \ {"preflight"}

\* The journal's state tells which command can be running, and the running
\* command which roles it works on.
Control ==
    /\ state = "none" => pc = "idle"
    /\ state = "reserved" => pc \in {"idle", "st_journal"}
    /\ state \in {"installed", "accepted", "rolled_back", "recovery_required",
                  "runtime_restored"} => pc = "idle"
    /\ pc = "st_journal" => state = "reserved"
    /\ pc \in (StageSteps \ {"st_journal"}) \cup {"preflight"} =>
          state = "prepared" /\ cur \in Roles
    /\ pc = "preflight" => cur = N
    /\ pc \in Working => state = "installing" /\ cur \in Roles
    /\ pc = "reload" => cur = N
    /\ pc \in RestoreSteps => state = "rolling_back"
    /\ pc \in RestoreSteps \ {"next"} => cur \in roles

\* The recorded operation says which roles a recovery restores.
Recovery ==
    /\ state \in {"none", "reserved", "prepared", "installing", "installed", "accepted"} =>
          operation = "none"
    /\ state \in {"rolling_back", "recovery_required"} => operation # "none"
    /\ state = "runtime_restored" => operation = "restore-runtime"
    /\ pc \in RestoreSteps =>
          /\ operation = "rollback" => roles = Roles
          /\ operation = "restore-runtime" => roles = Wine /\ loop = "undo"

\* No role has been touched by install_record when staging fails.
Unstaging ==
    /\ loop = "unstage" => pc \in RestoreSteps
    /\ state \in {"none", "reserved"} => \A r \in Roles : phase[r] = "stage_pending"
    /\ pc \in StageSteps \/ loop = "unstage" =>
          \A r \in Roles : phase[r] \in {"stage_pending", "staged", "restored",
                                         "recovery_required"}

\* The names a command is about to fill are free.
FreshNames ==
    /\ state \in {"none", "reserved"} =>
          \A r \in Roles : stage[r] = "absent" /\ backup[r] = "absent"
    /\ pc \in StageSteps \cup {"preflight"} => \A r \in Roles : backup[r] = "absent"
    /\ pc \in {"st_open", "st_write"} => stage[cur] = "absent"
    /\ pc = "st_fill" => stage[cur] = "partial"
    /\ pc \in StageSteps => \A r \in Roles : r > cur => stage[r] = "absent"
    /\ pc \in {"in_unit", "in_check", "in_backup"} => backup[cur] = "absent"
    /\ pc \in Working => \A r \in Roles : r > cur => backup[r] = "absent"

\* The gate is restored only after the reload, and a file is moved to its backup
\* name only by install_record.
Reloaded ==
    /\ pc \in RestoreSteps \ {"next"} /\ cur = Gate /\ loop = "undo" => ~reload
    /\ pc = "in_backup" => phase[cur] = "backup_pending"

AnyWorld == TypeOK /\ Control /\ Recovery /\ Unstaging /\ FreshNames /\ Reloaded

-----------------------------------------------------------------------------
(* The invariant where no other program writes the destinations *)

\* The three ways the names of a role can stand: untouched or put back; moved to
\* the backup name; replaced.
Original(r) == dest[r] = before[r] /\ backup[r] = "absent"
Moved(r)    == dest[r] = "absent" /\ backup[r] = before[r] /\ before[r] # "absent"
InPlace(r)  == dest[r] = "new" /\ backup[r] = before[r] /\ stage[r] = "absent"

\* The recorded phase never lags behind the names by more than one rename, and a
\* recovery that was interrupted never makes it lie.
Shape(r) ==
    /\ stage[r] \in {"absent", "new"} \/ (phase[r] = "stage_pending" /\ stage[r] = "partial")
    /\ phase[r] \in {"stage_pending", "staged", "backup_skipped", "restored"} => Original(r)
    /\ phase[r] \in {"backup_pending", "backed_up"} => Original(r) \/ Moved(r)
    /\ phase[r] \in {"install_pending", "installed"} => Original(r) \/ Moved(r) \/ InPlace(r)
    /\ phase[r] = "restored" => stage[r] = "absent"
    /\ phase[r] # "recovery_required"

Shapes == \A r \in Roles : Shape(r)

Ready(r) == phase[r] = "staged" /\ stage[r] = "new"
Done(r)  == phase[r] = "installed" /\ InPlace(r)

\* How far staging, install_record and restore_record have come.
Staging ==
    /\ pc = "st_mark" => stage[cur] = "new"
    /\ pc \in StageSteps \ {"st_journal"} =>
          \A r \in Roles : /\ r < cur => Ready(r)
                           /\ r >= cur => phase[r] = "stage_pending"
    /\ pc = "preflight" => \A r \in Roles : Ready(r)

Installing ==
    /\ pc \in Working =>
          \A r \in Roles : (r < cur => Done(r)) /\ (r > cur => Ready(r))
    /\ pc \in {"in_unit", "in_check"} => Ready(cur)
    /\ pc \in {"in_backup", "in_backed", "in_pending", "in_rename"} => stage[cur] = "new"
    /\ pc = "in_backup" => Original(cur) /\ phase[cur] = "backup_pending"
    /\ pc = "in_backed" => Moved(cur) /\ phase[cur] = "backup_pending"
    /\ pc = "in_pending" => phase[cur] \in {"backed_up", "backup_skipped"}
    /\ pc \in {"in_pending", "in_rename"} => dest[cur] = "absent" /\ backup[cur] = before[cur]
    /\ pc = "in_rename" => phase[cur] = "install_pending"
    /\ pc = "in_mark" => InPlace(cur) /\ phase[cur] = "install_pending"
    /\ pc \in {"in_verify", "reload"} => Done(cur)

Restoring ==
    /\ pc \in RestoreSteps =>
          ok /\ \A r \in roles : r > cur => phase[r] = "restored"
    /\ pc \in {"un_stage", "un_left", "mark"} => Original(cur)
    /\ pc \in {"un_left", "re_backup", "re_left", "mark"} => stage[cur] = "absent"
    /\ pc = "re_keep" => ~same /\ dest[cur] # before[cur]
    /\ pc \in {"re_stage", "re_backup"} =>
          IF same THEN dest[cur] = before[cur]
          ELSE dest[cur] = "absent" /\ (Original(cur) \/ Moved(cur))
    /\ pc = "re_left" => dest[cur] = before[cur]
    /\ pc = "mark" => same

\* What the settled states say of every role.
Settled ==
    /\ state \in {"installed", "accepted"} => ~reload /\ \A r \in Roles : Done(r)
    /\ operation = "restore-runtime" => \A r \in Roles \ Wine : Done(r)
    /\ state = "rolled_back" => \A r \in Roles : phase[r] = "restored"
    /\ state = "runtime_restored" => \A r \in Wine : phase[r] = "restored"

Alone == /\ Shapes /\ Staging /\ Installing /\ Restoring /\ Settled
         /\ GateGuardsMutation

IInv == AnyWorld /\ (world = "alone" => Alone)

-----------------------------------------------------------------------------
\* The invariant holds before the transaction.
LEMMA InitInv == Init => IInv
<1> SUFFICES ASSUME Init PROVE IInv
  OBVIOUS
<1> USE ConstantsAssumption DEF Init, Roles, Gate
<1>1. dest \in [Roles -> {"absent", "old", "new"}] /\ before = dest
  OBVIOUS
<1>2. TypeOK
  <2>1. dirs \subseteq {DirOf[r] : r \in Roles}
    BY ConstantsAssumption DEF Init
  <2>2. FileTypes
    BY <1>1, <2>1 DEF FileTypes, Contents
  <2>3. reload \in BOOLEAN /\ ok \in BOOLEAN /\ same \in BOOLEAN
    BY Zenon
  <2>4. cur \in 0..N /\ roles \subseteq Roles
    OBVIOUS
  <2>5. phase \in [Roles -> ArtifactPhases]
    BY DEF ArtifactPhases
  <2>6. JournalTypes /\ LocalTypes
    BY <2>3, <2>4, <2>5 DEF JournalTypes, LocalTypes
  <2> QED BY <2>2, <2>6 DEF TypeOK
<1>3. Control /\ Recovery /\ Unstaging /\ FreshNames /\ Reloaded
  BY DEF Control, Recovery, Unstaging, FreshNames, Reloaded, StageSteps, InstallSteps, Working,
     RestoreSteps
<1>4. Alone
  BY DEF Alone, Shapes, Shape, Original, Staging, Installing, Restoring, Settled,
     GateGuardsMutation, StageSteps, InstallSteps, Working, RestoreSteps
<1> QED BY <1>2, <1>3, <1>4 DEF IInv, AnyWorld

-----------------------------------------------------------------------------
(* In every world *)

\* A command between its first and its last step works on a role.
LEMMA OnRole == ASSUME AnyWorld, pc \notin {"idle", "st_journal", "next"} PROVE cur \in Roles
<1> USE DEF AnyWorld, TypeOK, LocalTypes, Control
<1>1. CASE pc \in (StageSteps \ {"st_journal"}) \cup InstallSteps
  BY <1>1 DEF Working
<1>2. CASE pc \in RestoreSteps \ {"next"}
  BY <1>2
<1> QED BY <1>1, <1>2

\* The commands that leave the three names of every role alone.
LEMMA FilesKept ==
  ASSUME Next
  PROVE  \/ BeginInstall \/ StageOpen \/ StageWrite \/ StageFill \/ InstallBackup \/ InstallRename
         \/ RestoreUntouchedStage \/ RestoreUntouchedBackup \/ RestoreKeep
         \/ RestoreTouchedStage \/ RestoreBackup \/ RestoreTouchedBackup \/ ForeignEdit
         \/ UNCHANGED <<before, files>>
BY DEF Next, Stage, Install, Restore, Recover, StageJournal, StageMark, StageFails, Preflight,
   PreflightRefused, InstallUnit, InstallCheck, InstallBackedUp, InstallPending, InstallMark,
   InstallVerify, InstallDone, InstallReloadFails, NextRole, NextIsGate, GateReloadFails, Finish,
   RestoreNoParent, RestoreBegin, RestoreCurrent, RestoreMark, RestoreBlocked, Rollback,
   RestoreRuntime, Accept, Crash, Fail

\* The files keep their types.
LEMMA FileTypesStep == ASSUME AnyWorld, Next PROVE FileTypes'
<1>1. FileTypes
  BY DEF AnyWorld, TypeOK
<1> USE <1>1 DEF FileTypes, Contents, files, Set, Preserve, At
<1>2. CASE BeginInstall
  BY <1>2 DEF BeginInstall
<1>3. CASE StageOpen \/ StageWrite \/ StageFill
  <2>1. cur \in Roles
    BY <1>3, OnRole DEF StageOpen, StageWrite, StageFill
  <2> QED BY <1>3, <2>1 DEF StageOpen, StageWrite, StageFill
<1>4. CASE InstallBackup
  <2>1. cur \in Roles
    BY <1>4, OnRole DEF InstallBackup
  <2> QED BY <1>4, <2>1 DEF InstallBackup, Fail
<1>5. CASE InstallRename
  <2>1. cur \in Roles
    BY <1>5, OnRole DEF InstallRename
  <2> QED BY <1>5, <2>1 DEF InstallRename, Fail
<1>6. CASE RestoreUntouchedStage \/ RestoreTouchedStage
  <2>1. cur \in Roles
    BY <1>6, OnRole DEF RestoreUntouchedStage, RestoreTouchedStage, KeepStage
  <2> QED BY <1>6, <2>1 DEF RestoreUntouchedStage, RestoreTouchedStage, KeepStage
<1>7. CASE RestoreUntouchedBackup \/ RestoreTouchedBackup
  <2>1. cur \in Roles
    BY <1>7, OnRole DEF RestoreUntouchedBackup, RestoreTouchedBackup, KeepBackup
  <2> QED BY <1>7, <2>1 DEF RestoreUntouchedBackup, RestoreTouchedBackup, KeepBackup
<1>8. CASE RestoreKeep
  <2>1. cur \in Roles
    BY <1>8, OnRole DEF RestoreKeep
  <2> QED BY <1>8, <2>1 DEF RestoreKeep
<1>9. CASE RestoreBackup
  <2>1. cur \in Roles
    BY <1>9, OnRole DEF RestoreBackup
  <2> QED BY <1>9, <2>1 DEF RestoreBackup
<1>10. CASE ForeignEdit
  BY <1>10 DEF ForeignEdit
<1>11. CASE UNCHANGED <<before, files>>
  BY <1>11
<1> QED BY <1>2, <1>3, <1>4, <1>5, <1>6, <1>7, <1>8, <1>9, <1>10, <1>11, FilesKept

\* The journal keeps its types.
LEMMA JournalTypesStep == ASSUME AnyWorld, Next PROVE JournalTypes'
<1>1. JournalTypes
  BY DEF AnyWorld, TypeOK
<1>2. state' \in {"none", "reserved"} \cup TransactionStates
  BY <1>1 DEF JournalTypes, TransactionStates, journal, Next, Stage, Install, Restore,
     Recover, BeginInstall, StageJournal, StageOpen, StageWrite, StageFill, StageMark, StageFails,
     Preflight, PreflightRefused, InstallUnit, InstallCheck, InstallBackup, InstallBackedUp,
     InstallPending, InstallRename, InstallMark, InstallVerify, InstallDone, InstallReloadFails,
     NextRole, NextIsGate, GateReloadFails, Finish, RestoreNoParent, RestoreBegin,
     RestoreUntouchedStage, RestoreUntouchedBackup, RestoreCurrent, RestoreKeep,
     RestoreTouchedStage,
     RestoreBackup, RestoreBlocked, RestoreTouchedBackup, KeepStage, KeepBackup, RestoreMark,
     Finished,
     Rollback, RestoreRuntime, Accept, Crash, ForeignEdit, Fail, StartRestoring, Mark
<1>3. operation' \in {"none", "rollback", "restore-runtime"} /\ reload' \in BOOLEAN
  BY <1>1 DEF JournalTypes, journal, Next, Stage, Install, Restore,
     Recover, BeginInstall, StageJournal, StageOpen, StageWrite, StageFill, StageMark, StageFails,
     Preflight, PreflightRefused, InstallUnit, InstallCheck, InstallBackup, InstallBackedUp,
     InstallPending, InstallRename, InstallMark, InstallVerify, InstallDone, InstallReloadFails,
     NextRole, NextIsGate, GateReloadFails, Finish, RestoreNoParent, RestoreBegin,
     RestoreUntouchedStage, RestoreUntouchedBackup, RestoreCurrent, RestoreKeep,
     RestoreTouchedStage,
     RestoreBackup, RestoreBlocked, RestoreTouchedBackup, KeepStage, KeepBackup, RestoreMark,
     Rollback, RestoreRuntime, Accept, Crash, ForeignEdit, Fail, StartRestoring, Mark
<1>4. UNCHANGED phase \/ \E p \in ArtifactPhases : phase' = [phase EXCEPT ![cur] = p]
  BY DEF ArtifactPhases, journal, Next, Stage, Install, Restore,
     Recover, BeginInstall, StageJournal, StageOpen, StageWrite, StageFill, StageMark, StageFails,
     Preflight, PreflightRefused, InstallUnit, InstallCheck, InstallBackup, InstallBackedUp,
     InstallPending, InstallRename, InstallMark, InstallVerify, InstallDone, InstallReloadFails,
     NextRole, NextIsGate, GateReloadFails, Finish, RestoreNoParent, RestoreBegin,
     RestoreUntouchedStage, RestoreUntouchedBackup, RestoreCurrent, RestoreKeep,
     RestoreTouchedStage,
     RestoreBackup, RestoreBlocked, RestoreTouchedBackup, KeepStage, KeepBackup, RestoreMark,
     Rollback, RestoreRuntime, Accept, Crash, ForeignEdit, Fail, StartRestoring, Mark
<1> QED BY <1>1, <1>2, <1>3, <1>4 DEF JournalTypes

\* A command's loop variables keep their types.
LEMMA LocalTypesStep == ASSUME AnyWorld, Next PROVE LocalTypes'
<1>1. LocalTypes
  BY DEF AnyWorld, TypeOK
<1>2. N \in Nat /\ N \in 0..N /\ 1 \in 0..N /\ Roles \subseteq 0..N /\ Wine \subseteq Roles
  BY ConstantsAssumption DEF Roles
<1>3. \/ UNCHANGED Local
      \/ End \/ (\E rs \in {Roles, Wine}, how \in {"unstage", "undo"} :
                    cur' = N /\ roles' = rs /\ loop' = how /\ ok' = TRUE /\ same' = FALSE)
      \/ /\ cur' = 1 \/ (cur < N /\ cur' = cur + 1) \/ (cur > 0 /\ cur' = cur - 1) \/ cur' = cur
         /\ UNCHANGED <<roles, loop, ok, same>>
      \/ RestoreUntouchedBackup \/ RestoreTouchedBackup \/ RestoreMark \/ RestoreCurrent
  BY DEF Local, Next, Stage, Install, Restore,
     Recover, BeginInstall, StageOpen, StageWrite, StageFill, StageFails,
     PreflightRefused, InstallUnit, InstallCheck, InstallBackup, InstallBackedUp,
     InstallPending, InstallRename, InstallMark, InstallDone, InstallReloadFails,
     NextIsGate, GateReloadFails, Finish, RestoreNoParent, RestoreBegin,
     RestoreUntouchedStage, RestoreKeep, RestoreTouchedStage,
     RestoreBackup, RestoreBlocked, KeepStage, Finished,
     Rollback, RestoreRuntime, Accept, Crash, ForeignEdit, Fail, StartRestoring,
     StageJournal, StageMark, Preflight, InstallVerify, NextRole
<1> USE DEF LocalTypes
<1>4. CASE UNCHANGED Local
  BY <1>1, <1>4 DEF Local
<1>5. CASE End
  <2>1. ok' \in BOOLEAN /\ same' \in BOOLEAN
    BY <1>5, Zenon DEF End
  <2> QED BY <1>2, <1>5, <2>1 DEF End
<1>6. ASSUME NEW rs \in {Roles, Wine}, NEW how \in {"unstage", "undo"},
             cur' = N, roles' = rs, loop' = how, ok' = TRUE, same' = FALSE
      PROVE  LocalTypes'
  <2>1. ok' \in BOOLEAN /\ same' \in BOOLEAN
    BY <1>6, Zenon
  <2> QED BY <1>2, <1>6, <2>1
<1>7. ASSUME cur' = 1 \/ (cur < N /\ cur' = cur + 1) \/ (cur > 0 /\ cur' = cur - 1) \/ cur' = cur,
             UNCHANGED <<roles, loop, ok, same>>
      PROVE  LocalTypes'
  BY <1>1, <1>2, <1>7
<1>8. CASE RestoreCurrent
  <2>1. same' \in BOOLEAN
    BY <1>8, Zenon DEF RestoreCurrent
  <2> QED BY <1>1, <1>8, <2>1 DEF RestoreCurrent
<1>9. CASE RestoreUntouchedBackup \/ RestoreTouchedBackup
  <2>1. same' \in BOOLEAN
    BY <1>9, Zenon DEF RestoreUntouchedBackup, RestoreTouchedBackup, KeepBackup, Present
  <2> QED BY <1>1, <1>9, <2>1 DEF RestoreUntouchedBackup, RestoreTouchedBackup, KeepBackup
<1>10. CASE RestoreMark
  <2>1. cur \in Roles
    BY <1>10, OnRole DEF RestoreMark, At
  <2>2. ok' \in BOOLEAN /\ same' \in BOOLEAN
    BY <1>1, <1>10, Zenon DEF RestoreMark
  <2> QED BY <1>1, <1>2, <1>10, <2>1, <2>2 DEF RestoreMark, Roles
<1> QED BY <1>3, <1>4, <1>5, <1>6, <1>7, <1>8, <1>9, <1>10

\* Every step keeps the types.
LEMMA TypeStep == ASSUME AnyWorld, [Next]_vars PROVE TypeOK'
<1>1. CASE UNCHANGED vars
  BY <1>1 DEF vars, files, journal, AnyWorld, TypeOK, FileTypes, JournalTypes, LocalTypes
<1>2. CASE Next
  <2>1. (UNCHANGED faults \/ Fault) /\ UNCHANGED world
    BY <1>2 DEF Next, Stage, Install, Restore,
     Recover, BeginInstall, StageJournal, StageOpen, StageWrite, StageFill, StageMark, StageFails,
     Preflight, PreflightRefused, InstallUnit, InstallCheck, InstallBackup, InstallBackedUp,
     InstallPending, InstallRename, InstallMark, InstallVerify, InstallDone, InstallReloadFails,
     NextRole, NextIsGate, GateReloadFails, Finish, RestoreNoParent, RestoreBegin,
     RestoreUntouchedStage, RestoreUntouchedBackup, RestoreCurrent, RestoreKeep,
     RestoreTouchedStage,
     RestoreBackup, RestoreBlocked, RestoreTouchedBackup, KeepStage, KeepBackup, RestoreMark,
     Rollback, RestoreRuntime, Accept, Crash, ForeignEdit
  <2>2. faults' \in Nat /\ world' \in {"alone", "racing"}
    BY <2>1 DEF AnyWorld, TypeOK, Fault
  <2>3. pc' \in {"idle"} \cup StageSteps \cup InstallSteps \cup RestoreSteps
    BY <1>2 DEF AnyWorld, TypeOK, StageSteps, InstallSteps, RestoreSteps, Next, Stage, Install,
         Restore,
     Recover, BeginInstall, StageJournal, StageOpen, StageWrite, StageFill, StageMark, StageFails,
     Preflight, PreflightRefused, InstallUnit, InstallCheck, InstallBackup, InstallBackedUp,
     InstallPending, InstallRename, InstallMark, InstallVerify, InstallDone, InstallReloadFails,
     NextRole, NextIsGate, GateReloadFails, Finish, RestoreNoParent, RestoreBegin,
     RestoreUntouchedStage, RestoreUntouchedBackup, RestoreCurrent, RestoreKeep,
     RestoreTouchedStage,
     RestoreBackup, RestoreBlocked, RestoreTouchedBackup, KeepStage, KeepBackup, RestoreMark,
     Finished,
     Rollback, RestoreRuntime, Accept, Crash, ForeignEdit, Goto, End, Fail, StartRestoring
  <2> QED BY <1>2, <2>2, <2>3, FileTypesStep, JournalTypesStep, LocalTypesStep DEF TypeOK
<1> QED BY <1>1, <1>2

\* The commands start and end in the states the journal records, and work on
\* the roles of the recorded operation.
LEMMA ControlStep == ASSUME AnyWorld, Next PROVE (Control /\ Recovery)'
<1>1. Control /\ Recovery /\ TypeOK
  BY DEF AnyWorld
<1>2. N \in Nat /\ N \in Roles /\ 1 \in Roles
  BY ConstantsAssumption DEF Roles
<1>3. cur \in 0..N /\ roles \subseteq Roles /\ operation \in {"none", "rollback", "restore-runtime"}
  BY <1>1 DEF TypeOK, LocalTypes, JournalTypes
<1> USE <1>1, <1>2, <1>3
    DEF Control, Recovery, StageSteps, InstallSteps, Working, RestoreSteps, At, Goto
<1>4. CASE BeginInstall \/ StageJournal \/ StageOpen \/ StageWrite \/ StageFill
  BY <1>4 DEF BeginInstall, StageJournal, StageOpen, StageWrite, StageFill, Local, journal
<1>5. CASE StageMark
  BY <1>5 DEF StageMark, Mark, Roles
<1>6. CASE Fail \/ StageFails \/ Recover \/ PreflightRefused \/ InstallReloadFails
  BY <1>6 DEF Fail, StageFails, Recover, PreflightRefused, InstallReloadFails, StartRestoring,
     Rollback, RestoreRuntime
<1>7. CASE Preflight \/ InstallUnit \/ InstallCheck \/ InstallBackup
  BY <1>6, <1>7 DEF Preflight, InstallUnit, InstallCheck, InstallBackup, Mark, Local, journal
<1>8. CASE InstallBackedUp \/ InstallPending \/ InstallRename \/ InstallMark \/ InstallDone
  BY <1>6, <1>8 DEF InstallBackedUp, InstallPending, InstallRename, InstallMark, InstallDone,
     Mark, Local, journal, End
<1>9. CASE InstallVerify
  BY <1>6, <1>9 DEF InstallVerify, Roles, journal
<1>10. CASE Accept \/ Crash \/ ForeignEdit \/ RestoreNoParent \/ RestoreBlocked
  BY <1>10 DEF Accept, Crash, ForeignEdit, RestoreNoParent, RestoreBlocked, End, Local, journal
<1>11. CASE NextRole \/ NextIsGate \/ GateReloadFails \/ Finish \/ RestoreBegin
  BY <1>11 DEF NextRole, NextIsGate, GateReloadFails, Finish, Finished, RestoreBegin, End, Local,
     journal
<1>12. CASE RestoreUntouchedStage \/ RestoreTouchedStage \/ RestoreCurrent \/ RestoreKeep
        \/ RestoreBackup
  BY <1>12 DEF RestoreUntouchedStage, RestoreTouchedStage, KeepStage, RestoreCurrent, RestoreKeep,
     RestoreBackup, Local, journal, files
<1>13. CASE RestoreUntouchedBackup \/ RestoreTouchedBackup \/ RestoreMark
  BY <1>13 DEF RestoreUntouchedBackup, RestoreTouchedBackup, KeepBackup, RestoreMark, Mark, Local,
       journal, files
<1> QED BY <1>4, <1>5, <1>6, <1>7, <1>8, <1>9, <1>10, <1>11, <1>12, <1>13
        DEF Next, Stage, Install, Restore

\* Staging only fills free names, install_record only moves to free backup
\* names, and the gate waits for the reload.
LEMMA NamesStep == ASSUME AnyWorld, Next PROVE (Unstaging /\ FreshNames /\ Reloaded)'
<1>1. Control /\ Unstaging /\ FreshNames /\ Reloaded /\ TypeOK
  BY DEF AnyWorld
<1>2. N \in Nat /\ N \in Roles /\ Roles = 1..N
  BY ConstantsAssumption DEF Roles
<1>3. cur \in 0..N /\ cur \in Nat /\ roles \subseteq Roles /\ loop \in {"unstage", "undo"}
  BY <1>1, <1>2 DEF TypeOK, LocalTypes
<1>4. /\ phase \in [Roles -> ArtifactPhases]
      /\ stage \in [Roles -> Contents] /\ backup \in [Roles -> Contents]
  BY <1>1 DEF TypeOK, FileTypes, JournalTypes
<1> USE <1>1, <1>2, <1>3, <1>4
    DEF Control, Unstaging, FreshNames, Reloaded, Set,
        StageSteps, InstallSteps, Working, RestoreSteps, At, Goto
<1>5. CASE BeginInstall \/ StageJournal \/ StageOpen
  BY <1>5 DEF BeginInstall, StageJournal, StageOpen, Local, journal, files
<1>6. CASE StageWrite \/ StageFill
  BY <1>6 DEF StageWrite, StageFill, Local, journal, files
<1>7. CASE StageMark
  BY <1>7 DEF StageMark, Mark, files
<1>8. CASE StageFails
  BY <1>8 DEF StageFails, StartRestoring, files
<1>9. CASE Fail \/ Recover \/ PreflightRefused \/ InstallReloadFails
  BY <1>9 DEF Fail, Recover, PreflightRefused, InstallReloadFails, StartRestoring,
     Rollback, RestoreRuntime, files
<1>10. CASE Preflight \/ InstallUnit \/ InstallCheck
  BY <1>9, <1>10 DEF Preflight, InstallUnit, InstallCheck, Mark, Local, journal, files
<1>11. CASE InstallBackup
  BY <1>9, <1>11 DEF InstallBackup, Local, journal, files
<1>12. CASE InstallBackedUp \/ InstallPending \/ InstallRename \/ InstallMark \/ InstallDone
  BY <1>9, <1>12 DEF InstallBackedUp, InstallPending, InstallRename, InstallMark, InstallDone,
     Mark, Local, journal, End, files
<1>13. CASE InstallVerify
  BY <1>9, <1>13 DEF InstallVerify, Roles, journal, files
<1>14. CASE Accept \/ Crash \/ ForeignEdit \/ RestoreNoParent \/ RestoreBlocked
  BY <1>14 DEF Accept, Crash, ForeignEdit, RestoreNoParent, RestoreBlocked, End, Local, journal,
       files
<1>15. CASE NextRole \/ NextIsGate \/ GateReloadFails \/ Finish \/ RestoreBegin
  BY <1>15 DEF NextRole, NextIsGate, GateReloadFails, Finish, Finished, RestoreBegin, End, Local,
     journal, files
<1>16. CASE RestoreUntouchedStage \/ RestoreTouchedStage \/ RestoreCurrent \/ RestoreKeep
        \/ RestoreBackup
  BY <1>16 DEF RestoreUntouchedStage, RestoreTouchedStage, KeepStage, RestoreCurrent, RestoreKeep,
     RestoreBackup, Local, journal, files
<1>17. CASE RestoreUntouchedBackup \/ RestoreTouchedBackup \/ RestoreMark
  BY <1>17 DEF RestoreUntouchedBackup, RestoreTouchedBackup, KeepBackup, RestoreMark, Mark, Local,
       journal, files
<1> QED BY <1>5, <1>6, <1>7, <1>8, <1>9, <1>10, <1>11, <1>12, <1>13, <1>14, <1>15, <1>16, <1>17
        DEF Next, Stage, Install, Restore

-----------------------------------------------------------------------------
(* Where no other program writes the destinations *)

\* What the steps below take from the invariant: the types of the files, and
\* that the running command works on a role.
LEMMA Typed ==
  ASSUME IInv
  PROVE  /\ N \in Nat /\ N \in Roles /\ 1 \in Roles /\ Roles = 1..N
         /\ Unit \in Roles /\ Wine \subseteq Roles /\ Gate \notin Wine
         /\ cur \in 0..N /\ cur \in Nat
         /\ roles \subseteq Roles /\ loop \in {"unstage", "undo"}
         /\ phase \in [Roles -> ArtifactPhases]
         /\ before \in [Roles -> Contents] /\ dest \in [Roles -> Contents]
         /\ stage \in [Roles -> Contents] /\ backup \in [Roles -> Contents]
BY ConstantsAssumption DEF IInv, AnyWorld, TypeOK, FileTypes, JournalTypes, LocalTypes, Roles, Gate

\* The commands that write a phase.
LEMMA PhasesKept ==
  ASSUME Next
  PROVE  \/ StageMark \/ InstallCheck \/ InstallBackedUp \/ InstallPending \/ InstallMark
         \/ RestoreMark
         \/ UNCHANGED phase
BY DEF Next, Stage, Install, Restore, Recover, BeginInstall, StageJournal, StageOpen, StageWrite,
   StageFill, StageFails, Preflight, PreflightRefused, InstallUnit, InstallBackup, InstallRename,
   InstallVerify, InstallDone, InstallReloadFails, NextRole, NextIsGate, GateReloadFails, Finish,
   RestoreNoParent, RestoreBegin, RestoreUntouchedStage, RestoreTouchedStage, KeepStage,
   RestoreCurrent, RestoreKeep, RestoreUntouchedBackup, RestoreTouchedBackup, KeepBackup,
   RestoreBackup, RestoreBlocked, Rollback, RestoreRuntime, Accept, Crash,
   ForeignEdit, Fail, StartRestoring, journal

\* Every rename is announced in the journal: the phase and the names of each role
\* stay in step.
LEMMA ShapesStep == ASSUME IInv, world = "alone", Next PROVE Shapes'
<1>1. AnyWorld /\ Shapes /\ Staging /\ Installing /\ Restoring
  BY DEF IInv, Alone
<1> SUFFICES ASSUME NEW r \in Roles PROVE Shape(r)'
  BY DEF Shapes
<1>2. Shape(r)
  BY <1>1 DEF Shapes
<1>3. CASE BeginInstall
  <2>1. phase[r] = "stage_pending"
    BY <1>1, <1>3 DEF BeginInstall, AnyWorld, Unstaging
  <2> QED BY <1>2, <1>3, <2>1 DEF BeginInstall, Shape, Original, files
<1> USE <1>1, <1>2, Typed DEF Shape, Original, Moved, InPlace, Ready, Set, At, Present,
        Staging, Installing, Restoring, StageSteps, Working, InstallSteps, RestoreSteps
<1>4. CASE StageWrite \/ StageFill
  BY <1>4, OnRole DEF StageWrite, StageFill, journal
<1>5. CASE StageMark
  BY <1>5, OnRole DEF StageMark, Mark, files
<1>6. CASE InstallCheck
  BY <1>6, OnRole DEF InstallCheck, Mark, files, Fail, StartRestoring
<1>7. CASE InstallBackup
  BY <1>7, OnRole DEF InstallBackup, files, Fail, StartRestoring, journal
<1>8. CASE InstallBackedUp \/ InstallPending \/ InstallMark
  BY <1>8, OnRole DEF InstallBackedUp, InstallPending, InstallMark, Mark, files
<1>9. CASE InstallRename
  BY <1>9, OnRole DEF InstallRename, files, Fail, StartRestoring, journal
<1>10. CASE RestoreUntouchedStage \/ RestoreTouchedStage
  BY <1>10, OnRole DEF RestoreUntouchedStage, RestoreTouchedStage, KeepStage, journal
<1>11. CASE RestoreUntouchedBackup \/ RestoreTouchedBackup
  BY <1>11, OnRole DEF RestoreUntouchedBackup, RestoreTouchedBackup, KeepBackup, journal
<1>12. CASE RestoreKeep
  BY <1>12, OnRole DEF RestoreKeep, journal
<1>13. CASE RestoreBackup
  BY <1>13, OnRole DEF RestoreBackup, MustPutBack, journal
<1>17. CASE RestoreMark
  BY <1>17, OnRole DEF RestoreMark, Mark, files
<1>14. CASE UNCHANGED <<before, dest, stage, backup, phase>>
  BY <1>14
<1>15. ~ForeignEdit
  BY DEF IInv, ForeignEdit
<1> QED BY <1>3, <1>4, <1>5, <1>6, <1>7, <1>8, <1>9, <1>10, <1>11, <1>12, <1>13, <1>14, <1>15,
     <1>17,
         FilesKept, PhasesKept DEF files, StageOpen

\* The files are staged one role after the other.
LEMMA StagingStep == ASSUME IInv, world = "alone", Next PROVE Staging'
<1>1. Control /\ Unstaging /\ FreshNames /\ Shapes /\ Staging
  BY DEF IInv, AnyWorld, Alone
<1> USE <1>1, Typed DEF Control, Staging, Ready, Set, At, Goto, StageSteps, InstallSteps, Working,
     RestoreSteps
<1>2. CASE StageJournal
  BY <1>2 DEF StageJournal, Unstaging, files, journal
<1>3. CASE StageOpen
  BY <1>3 DEF StageOpen, Local, journal
<1>4. CASE StageWrite
  BY <1>4 DEF StageWrite, Local, journal
<1>5. CASE StageFill
  BY <1>5 DEF StageFill, Local, journal
<1>6. CASE StageMark
  BY <1>6 DEF StageMark, Mark, files
<1>7. pc' \notin (StageSteps \ {"st_journal"}) \cup {"preflight"} => Staging'
  OBVIOUS
<1>8. \/ StageJournal \/ StageOpen \/ StageWrite \/ StageFill \/ StageMark
      \/ pc' \notin (StageSteps \ {"st_journal"}) \cup {"preflight"}
      \/ UNCHANGED <<pc, cur, stage, phase>>
  BY DEF Next, Stage, Install, Restore, Recover, BeginInstall, StageFails, Preflight,
     PreflightRefused, InstallUnit, InstallCheck, InstallBackup, InstallBackedUp, InstallPending,
     InstallRename, InstallMark, InstallVerify, InstallDone, InstallReloadFails, NextRole,
     NextIsGate, GateReloadFails, Finish, Finished, RestoreNoParent, RestoreBegin,
     RestoreUntouchedStage,
     RestoreUntouchedBackup, RestoreTouchedStage, RestoreTouchedBackup, KeepStage, KeepBackup,
     RestoreMark,
     RestoreCurrent, RestoreKeep, RestoreBackup, RestoreBlocked, Rollback, RestoreRuntime, Accept,
     Crash,
     ForeignEdit, Fail, StartRestoring, End, Local, journal, files
<1>9. CASE UNCHANGED <<pc, cur, stage, phase>>
  BY <1>9
<1> QED BY <1>2, <1>3, <1>4, <1>5, <1>6, <1>7, <1>8, <1>9

\* install_record takes one role after the other, each through all its phases.
LEMMA InstallingStep == ASSUME IInv, world = "alone", Next PROVE Installing'
<1>1. Control /\ FreshNames /\ Shapes /\ Staging /\ Installing
  BY DEF IInv, AnyWorld, Alone
<1>2. \A r \in Roles : Shape(r)
  BY <1>1 DEF Shapes
<1> USE <1>1, Typed DEF Control, Installing, Ready, Done, Original, Moved, InPlace, Set, Present,
        At, Goto, Local, StageSteps, InstallSteps, Working, RestoreSteps
<1>3. pc' \notin Working => Installing'
  OBVIOUS
<1>4. CASE pc' = "next"
  BY <1>3, <1>4
<1>5. CASE Preflight
  BY <1>4, <1>5 DEF Preflight, Staging, Fail, StartRestoring, files, Roles
<1>6. CASE InstallUnit
  BY <1>6 DEF InstallUnit, files
<1>7. CASE InstallCheck
  BY <1>2, <1>4, <1>7 DEF InstallCheck, Mark, Fail, StartRestoring, files, Shape
<1>8. CASE InstallBackup
  BY <1>4, <1>8 DEF InstallBackup, Fail, StartRestoring, files, journal
<1>9. CASE InstallBackedUp
  BY <1>9 DEF InstallBackedUp, Mark, files
<1>10. CASE InstallPending
  BY <1>10 DEF InstallPending, Mark, files
<1>11. CASE InstallRename
  BY <1>4, <1>11 DEF InstallRename, Fail, StartRestoring, files, journal
<1>12. CASE InstallMark
  BY <1>12 DEF InstallMark, Mark, files
<1>13. CASE InstallVerify
  BY <1>4, <1>13 DEF InstallVerify, Fail, StartRestoring, files, journal
<1>14. \/ Preflight \/ InstallUnit \/ InstallCheck \/ InstallBackup \/ InstallBackedUp
       \/ InstallPending \/ InstallRename \/ InstallMark \/ InstallVerify
       \/ pc' \notin Working \/ UNCHANGED <<pc, cur, before, dest, stage, backup, phase>>
       \/ ForeignEdit
  BY DEF Next, Stage, Install, Restore, Recover, BeginInstall, StageJournal, StageOpen, StageWrite,
     StageFill, StageMark, StageFails,
     PreflightRefused, InstallDone, InstallReloadFails, NextRole,
     NextIsGate, GateReloadFails, Finish, Finished, RestoreNoParent, RestoreBegin,
     RestoreUntouchedStage,
     RestoreUntouchedBackup, RestoreTouchedStage, RestoreTouchedBackup, KeepStage, KeepBackup,
     RestoreMark,
     RestoreCurrent, RestoreKeep, RestoreBackup, RestoreBlocked, Rollback, RestoreRuntime, Accept,
     Crash,
     Fail, StartRestoring, End, journal, files
<1>15. CASE UNCHANGED <<pc, cur, before, dest, stage, backup, phase>>
  BY <1>15
<1>16. ~ForeignEdit
  BY DEF ForeignEdit
<1> QED BY <1>3, <1>5, <1>6, <1>7, <1>8, <1>9, <1>10, <1>11, <1>12, <1>13, <1>14, <1>15, <1>16

\* The roles are restored from the last to the first, and each one truly.
LEMMA RestoringStep == ASSUME IInv, world = "alone", Next PROVE Restoring'
<1>1. Control /\ Shapes /\ Restoring
  BY DEF IInv, AnyWorld, Alone
<1>2. \A r \in Roles : Shape(r)
  BY <1>1 DEF Shapes
<1> USE <1>1, Typed DEF Control, Restoring, Original, Moved, Set, Present,
        At, Goto, Local, StageSteps, InstallSteps, Working, RestoreSteps
<1>3. pc' \notin RestoreSteps => Restoring'
  OBVIOUS
<1>4. ASSUME NEW op, NEW rs \in SUBSET Roles, NEW how, StartRestoring(op, rs, how) PROVE Restoring'
  BY <1>4 DEF StartRestoring
<1>5. CASE NextRole
  BY <1>5 DEF NextRole, files
<1>6. CASE NextIsGate
  BY <1>6 DEF NextIsGate, files, Finished, End
<1>7. CASE RestoreBegin
  BY <1>2, <1>7 DEF RestoreBegin, files, journal, DestinationUntouched, Shape, InPlace
<1>8. CASE RestoreUntouchedStage
  BY <1>8 DEF RestoreUntouchedStage, KeepStage, journal
<1>9. CASE RestoreTouchedStage
  BY <1>9 DEF RestoreTouchedStage, KeepStage, journal
<1>10. CASE RestoreUntouchedBackup \/ RestoreTouchedBackup
  <2>1. /\ pc \in {"un_left", "re_left"} /\ pc' = "mark" /\ backup' = Set(backup, cur, "absent")
        /\ UNCHANGED <<before, dest, stage, phase, cur, roles, ok>>
    BY <1>10 DEF RestoreUntouchedBackup, RestoreTouchedBackup, KeepBackup, journal
  <2>2. dest[cur] = before[cur] /\ stage[cur] = "absent"
    BY <2>1
  <2>3. same'
    BY <1>10, <2>2 DEF RestoreUntouchedBackup, RestoreTouchedBackup, KeepBackup
  <2> QED BY <2>1, <2>2, <2>3
<1>11. CASE RestoreMark
  <2>1. same /\ ok /\ cur \in roles
    BY <1>11 DEF RestoreMark
  <2>2. ok' /\ phase' = [phase EXCEPT ![cur] = "restored"] /\ cur' = cur - 1 /\ UNCHANGED roles
        /\ pc' = "next"
    BY <1>11, <2>1 DEF RestoreMark, Mark
  <2>3. ASSUME NEW r \in roles, r > cur - 1 PROVE phase'[r] = "restored"
    <3>1. r \in Roles /\ r \in Nat /\ cur \in Nat /\ (r = cur \/ r > cur)
      BY <2>3
    <3>2. r > cur => phase[r] = "restored"
      BY <1>11 DEF RestoreMark
    <3> QED BY <2>2, <3>1, <3>2
  <2> QED BY <2>2, <2>3 DEF Restoring
<1>12. CASE RestoreCurrent
  BY <1>2, <1>12 DEF RestoreCurrent, files, journal, Shape, InPlace, ArtifactPhases
<1>17. CASE RestoreKeep
  BY <1>2, <1>17 DEF RestoreKeep, journal, Shape, InPlace, ArtifactPhases
<1>13. CASE RestoreBackup
  BY <1>13 DEF RestoreBackup, MustPutBack, journal
<1>14. \/ NextRole \/ NextIsGate \/ RestoreBegin \/ RestoreUntouchedStage \/ RestoreTouchedStage
       \/ RestoreUntouchedBackup \/ RestoreTouchedBackup \/ RestoreMark
       \/ RestoreCurrent \/ RestoreKeep \/ RestoreBackup
       \/ \E op \in {"rollback", "restore-runtime"}, rs \in {Roles, Wine}, how \in {"unstage", "undo"} :
             StartRestoring(op, rs, how)
       \/ pc' \notin RestoreSteps \/ UNCHANGED <<pc, Local, before, dest, stage, backup, phase>>
       \/ ForeignEdit
  BY DEF Next, Stage, Install, Restore, Recover, BeginInstall, StageJournal, StageOpen, StageWrite,
     StageFill, StageMark, StageFails, Preflight,
     PreflightRefused, InstallUnit, InstallCheck, InstallBackup, InstallBackedUp, InstallPending,
     InstallRename, InstallMark, InstallVerify, InstallDone, InstallReloadFails,
     GateReloadFails, Finish, Finished, RestoreNoParent, RestoreBlocked, Rollback, RestoreRuntime,
     Accept, Crash, Fail, End, journal, files
<1>15. CASE UNCHANGED <<pc, Local, before, dest, stage, backup, phase>>
  BY <1>15
<1>16. ~ForeignEdit
  BY DEF ForeignEdit
<1> QED BY <1>3, <1>4, <1>5, <1>6, <1>7, <1>8, <1>9, <1>10, <1>11, <1>12, <1>13, <1>14, <1>15,
     <1>16, <1>17

\* A settled state is written only when it is true of every role, and stays true.
LEMMA SettledStep == ASSUME IInv, world = "alone", Next PROVE Settled'
<1>1. Control /\ Recovery /\ Installing /\ Restoring /\ Settled
  BY DEF IInv, AnyWorld, Alone
<1> USE <1>1, Typed DEF Control, Recovery, Settled, At, Goto, Local, StageSteps, InstallSteps,
        Working, RestoreSteps
<1>2. CASE BeginInstall \/ StageJournal \/ StageOpen \/ StageWrite \/ StageFill \/ StageMark
  BY <1>2 DEF BeginInstall, StageJournal, StageOpen, StageWrite, StageFill, StageMark, Mark, journal
<1>3. CASE Fail \/ StageFails \/ Rollback \/ PreflightRefused \/ InstallReloadFails
  BY <1>3 DEF Fail, StageFails, Rollback, PreflightRefused, InstallReloadFails, StartRestoring
<1>4. CASE RestoreRuntime
  BY <1>4 DEF RestoreRuntime, StartRestoring, files, Done, InPlace
<1>5. CASE Preflight \/ InstallUnit \/ InstallCheck \/ InstallBackup \/ InstallBackedUp
        \/ InstallPending \/ InstallRename \/ InstallMark \/ InstallVerify
  BY <1>3, <1>5 DEF Preflight, InstallUnit, InstallCheck, InstallBackup, InstallBackedUp,
     InstallPending, InstallRename, InstallMark, InstallVerify, Mark, journal
<1>6. CASE InstallDone
  <2>1. \A r \in Roles : Done(r)
    BY <1>6 DEF InstallDone, Installing
  <2>2. \A r \in Roles : Done(r)'
    BY <1>6, <2>1 DEF InstallDone, Done, InPlace, files
  <2> QED BY <1>6, <2>2 DEF InstallDone
<1>7. CASE Accept \/ Crash \/ RestoreNoParent \/ RestoreBlocked \/ RestoreBegin
  BY <1>7 DEF Accept, Crash, RestoreNoParent, RestoreBlocked, RestoreBegin, files, journal, Done,
       InPlace
<1>8. CASE Finish
  <2>1. ok /\ \A r \in roles : phase[r] = "restored"
    BY <1>8 DEF Finish, Restoring
  <2>2. /\ state' = IF operation = "rollback" THEN "rolled_back" ELSE "runtime_restored"
        /\ UNCHANGED <<before, dest, stage, backup, operation, phase>>
    BY <1>8, <2>1 DEF Finish, Finished, files
  <2>3. operation \in {"rollback", "restore-runtime"}
    BY <1>8 DEF Finish, IInv, AnyWorld, TypeOK, JournalTypes
  <2>4. (operation = "rollback" => roles = Roles) /\ (operation = "restore-runtime" => roles = Wine)
    BY <1>8 DEF Finish
  <2>5. (\A r \in Roles \ Wine : Done(r)) => (\A r \in Roles \ Wine : Done(r)')
    BY <2>2 DEF Done, InPlace
  <2> QED BY <2>1, <2>2, <2>3, <2>4, <2>5
<1>9. CASE NextRole \/ NextIsGate \/ GateReloadFails
  BY <1>9 DEF NextRole, NextIsGate, GateReloadFails, Finished, files, Done, InPlace
<1>10. ASSUME pc \in RestoreSteps \ {"next"}, UNCHANGED <<state, operation, before>>,
              \A r \in Roles \ {cur} : UNCHANGED <<dest[r], stage[r], backup[r], phase[r]>>
       PROVE  Settled'
  BY <1>10 DEF Done, InPlace
<1>11. CASE RestoreUntouchedStage \/ RestoreTouchedStage
  BY <1>10, <1>11 DEF RestoreUntouchedStage, RestoreTouchedStage, KeepStage, journal, Set
<1>12. CASE RestoreUntouchedBackup \/ RestoreTouchedBackup \/ RestoreMark
  BY <1>10, <1>12 DEF RestoreUntouchedBackup, RestoreTouchedBackup, KeepBackup, RestoreMark, Mark,
     journal, files, Set
<1>13. CASE RestoreCurrent \/ RestoreKeep \/ RestoreBackup
  BY <1>10, <1>13 DEF RestoreCurrent, RestoreKeep, RestoreBackup, journal, files, Set
<1>14. ~ForeignEdit
  BY DEF ForeignEdit
<1> QED BY <1>2, <1>3, <1>4, <1>5, <1>6, <1>7, <1>8, <1>9, <1>11, <1>12, <1>13, <1>14
        DEF Next, Stage, Install, Restore, Recover

\* The gate is installed before and restored after every other role.
LEMMA GateStep == ASSUME IInv, world = "alone", Next PROVE GateGuardsMutation'
<1>1. Control /\ Recovery /\ Shapes /\ Installing /\ Restoring /\ GateGuardsMutation
  BY DEF IInv, AnyWorld, Alone
<1>2. \A r \in Roles : Shape(r)
  BY <1>1 DEF Shapes
<1> USE <1>1, Typed DEF GateGuardsMutation, At, Gate, Set
<1>3. CASE BeginInstall
  BY <1>3 DEF BeginInstall, files
<1>4. ASSUME pc \in Working, cur \in Roles, UNCHANGED before,
             \A r \in Roles \ {cur} : UNCHANGED dest[r]
      PROVE  GateGuardsMutation'
  <2>1. CASE cur = Gate
    BY <1>2, <1>4, <2>1 DEF Installing, Ready, Shape, Original
  <2>2. CASE cur # Gate
    BY <1>4, <2>2 DEF Installing, Done, InPlace
  <2> QED BY <2>1, <2>2
<1>5. CASE InstallBackup \/ InstallRename
  BY <1>1, <1>4, <1>5 DEF InstallBackup, InstallRename, Fail, files, Control, Working, InstallSteps
<1>6. ASSUME pc \in RestoreSteps \ {"next"}, cur \in roles, UNCHANGED before,
             dest[cur] = before[cur] => dest'[cur] = before'[cur],
             \A r \in Roles \ {cur} : UNCHANGED dest[r]
      PROVE  GateGuardsMutation'
  <2>1. CASE cur = Gate
    <3>1. roles = Roles
      BY <1>1, <1>6, <2>1 DEF Control, Recovery, IInv, AnyWorld, TypeOK, JournalTypes
    <3>2. \A r \in Roles \ {Gate} : phase[r] = "restored"
      BY <1>6, <2>1, <3>1 DEF Restoring
    <3> QED BY <1>2, <1>6, <2>1, <3>2 DEF Shape, Original
  <2>2. CASE cur # Gate
    BY <1>6, <2>2
  <2> QED BY <2>1, <2>2
<1>7. CASE RestoreKeep
  BY <1>6, <1>7 DEF RestoreKeep, Restoring, Control, RestoreSteps
<1>8. CASE RestoreBackup
  BY <1>6, <1>8 DEF RestoreBackup, Control, RestoreSteps, MustPutBack
<1>9. CASE UNCHANGED <<before, dest>>
  BY <1>9 DEF Next
<1>10. ~ForeignEdit
  BY DEF ForeignEdit
<1> QED BY <1>3, <1>5, <1>7, <1>8, <1>9, <1>10, FilesKept DEF files, StageOpen, StageWrite,
     StageFill,
         RestoreUntouchedStage, RestoreUntouchedBackup, RestoreTouchedStage, RestoreTouchedBackup,
         KeepStage, KeepBackup

-----------------------------------------------------------------------------
(* The theorems *)

\* One step keeps the invariant.
LEMMA InvStep == ASSUME IInv, [Next]_vars PROVE IInv'
<1>1. CASE UNCHANGED vars
  <2>1. AnyWorld' /\ (Alone => Alone')
    BY <1>1, TypeStep DEF IInv, AnyWorld, vars, files, journal, Control, Recovery, Unstaging,
       FreshNames, Reloaded, Alone, Shapes, Shape, Original, Moved, InPlace, Staging, Ready,
       Installing, Done, Restoring, Settled, GateGuardsMutation
  <2> QED BY <1>1, <2>1 DEF IInv, vars
<1>2. CASE Next
  <2>1. AnyWorld /\ UNCHANGED world
    BY <1>2 DEF IInv, Next
  <2>2. AnyWorld'
    BY <1>2, <2>1, TypeStep, ControlStep, NamesStep DEF AnyWorld
  <2>3. ASSUME world = "alone" PROVE Alone'
    BY <1>2, <2>3, ShapesStep, StagingStep, InstallingStep, RestoringStep, SettledStep, GateStep
       DEF Alone
  <2> QED BY <2>1, <2>2, <2>3 DEF IInv
<1> QED BY <1>1, <1>2

\* The invariant holds of every transaction.
THEOREM Inductive == Spec => []IInv
BY InitInv, InvStep, PTL DEF Spec

\* Whatever step the process died at, no other file differs from the original
\* unless the launcher gate is in place (install order, restore order).
THEOREM GateAlwaysGuards == Spec => []GateGuardsMutation
<1>1. IInv => GateGuardsMutation
  BY DEF IInv, Alone, GateGuardsMutation
<1> QED BY <1>1, Inductive, PTL

\* installed, accepted, rolled_back and runtime_restored are true of the files,
\* after any interleaving of exits, failures and resumed recoveries.
THEOREM FinalStates == Spec => []FinalStatesAreTrue
<1>1. ASSUME IInv PROVE FinalStatesAreTrue
  <2>1. TypeOK
    BY <1>1 DEF IInv, AnyWorld
  <2>2. ASSUME world = "alone"
        PROVE  RestoredMeansOriginal /\ InstalledMeansComplete /\ RestoreRuntimeTouchesOnlyWine
    <3>1. Settled /\ \A r \in Roles : Shape(r)
      BY <1>1, <2>2 DEF IInv, Alone, Shapes
    <3>2. RestoredMeansOriginal
      BY <1>1, <3>1, Typed DEF RestoredMeansOriginal, AsBefore, Settled, Shape, Original
    <3>3. InstalledMeansComplete /\ RestoreRuntimeTouchesOnlyWine
      BY <3>1 DEF InstalledMeansComplete, RestoreRuntimeTouchesOnlyWine, Settled, Done, InPlace
    <3> QED BY <3>2, <3>3
  <2> QED BY <2>1, <2>2 DEF FinalStatesAreTrue
<1> QED BY <1>1, Inductive, PTL

\* A content under one of a role's names is still under one of them after a step.
LEMMA HeldStep ==
  ASSUME IInv, Next, InstallerStep, NEW r \in Roles PROVE Held(r) \subseteq Held(r)'
<1> USE Typed DEF Held, Set, Preserve, Present, At
<1>1. FreshNames /\ AnyWorld /\ kept \in [Roles -> SUBSET (Contents \ {"absent"})]
  BY DEF IInv, AnyWorld, TypeOK, FileTypes
<1> USE <1>1
<1>2. CASE BeginInstall \/ StageOpen \/ UNCHANGED <<before, files>>
  BY <1>2 DEF BeginInstall, StageOpen, files
<1>3. CASE StageWrite \/ StageFill
  BY <1>3, OnRole DEF StageWrite, StageFill, FreshNames
<1>4. CASE InstallBackup
  BY <1>4, OnRole DEF InstallBackup, Fail, files, FreshNames
<1>5. CASE InstallRename
  BY <1>5, OnRole DEF InstallRename, Fail, files
<1>6. CASE RestoreUntouchedStage \/ RestoreTouchedStage
  <2>1. cur \in Roles /\ kept' = Preserve(stage, cur) /\ stage' = Set(stage, cur, "absent")
        /\ UNCHANGED <<dest, backup>>
    BY <1>6, OnRole DEF RestoreUntouchedStage, RestoreTouchedStage, KeepStage
  <2>2. CASE r # cur
    BY <2>1, <2>2
  <2>3. CASE r = cur
    BY <2>1, <2>3
  <2> QED BY <2>2, <2>3
<1>7. CASE RestoreUntouchedBackup \/ RestoreTouchedBackup
  <2>1. cur \in Roles /\ kept' = Preserve(backup, cur) /\ backup' = Set(backup, cur, "absent")
        /\ UNCHANGED <<dest, stage>>
    BY <1>7, OnRole DEF RestoreUntouchedBackup, RestoreTouchedBackup, KeepBackup
  <2>2. CASE r # cur
    BY <2>1, <2>2
  <2>3. CASE r = cur
    BY <2>1, <2>3
  <2> QED BY <2>2, <2>3
<1>8. CASE RestoreKeep
  BY <1>8, OnRole DEF RestoreKeep
<1>9. CASE RestoreBackup
  BY <1>9, OnRole DEF RestoreBackup, MustPutBack
<1>10. ~ForeignEdit
  BY DEF InstallerStep, ForeignEdit, Local, journal
<1> QED BY <1>2, <1>3, <1>4, <1>5, <1>6, <1>7, <1>8, <1>9, <1>10, FilesKept

\* No rename of the installer destroys a file, other programs or not.
THEOREM NothingLost == Spec => NoContentLost
<1>1. ASSUME IInv, [Next]_vars
      PROVE  [InstallerStep => \A r \in Roles : Held(r) \subseteq Held(r)']_vars
  BY <1>1, HeldStep
<1> QED BY <1>1, Inductive, PTL DEF Spec, NoContentLost

\* No rollback withdraws the gate while the manager still runs the new unit.
THEOREM GateWaitsForReload == Spec => GateReleasedAfterReload
<1>1. ASSUME IInv, Next, phase[Gate] = "installed", dest[Gate] = "new",
             dest'[Gate] # "new", InstallerStep
      PROVE  ~reload
  <2>1. AnyWorld
    BY <1>1 DEF IInv
  <2> USE <1>1, <2>1, Typed DEF Set, Present, At, Gate, AnyWorld
  <2>2. CASE InstallBackup
    BY <2>2 DEF InstallBackup, Fail, files, Reloaded
  <2>3. CASE InstallRename
    BY <2>3 DEF InstallRename, Fail, files
  <2>4. CASE RestoreKeep
    <3>1. cur = Gate
      BY <2>4 DEF RestoreKeep
    <3>2. loop = "undo"
      BY <2>4 DEF RestoreKeep, Unstaging
    <3> QED BY <2>4, <3>1, <3>2 DEF RestoreKeep, Reloaded, RestoreSteps
  <2>5. CASE RestoreBackup
    BY <2>5 DEF RestoreBackup
  <2>6. ~ForeignEdit
    BY DEF InstallerStep, ForeignEdit, Local, journal
  <2> QED BY <2>2, <2>3, <2>4, <2>5, <2>6, FilesKept DEF files, BeginInstall, StageOpen, StageWrite,
          StageFill, RestoreUntouchedStage, RestoreUntouchedBackup, RestoreTouchedStage,
          RestoreTouchedBackup, KeepStage, KeepBackup
<1>2. ASSUME IInv, [Next]_vars
      PROVE  [(/\ phase[Gate] = "installed" /\ dest[Gate] = "new"
               /\ dest'[Gate] # "new" /\ InstallerStep) => ~reload]_vars
  BY <1>1, <1>2
<1> QED BY <1>2, Inductive, PTL DEF Spec, GateReleasedAfterReload

Hidden ==
    world = "alone" /\ state \in {"none", "reserved", "rolled_back"} => dest = before

\* Nothing differs before the journal exists or after it says rolled_back.
LEMMA HiddenOutside == IInv => Hidden
<1> SUFFICES ASSUME IInv, world = "alone", state \in {"none", "reserved", "rolled_back"}
             PROVE  dest = before
  BY DEF Hidden
<1>1. Unstaging /\ Settled /\ \A r \in Roles : Shape(r)
  BY DEF IInv, AnyWorld, Alone, Shapes
<1>2. \A r \in Roles : dest[r] = before[r]
  BY <1>1 DEF Unstaging, Settled, Shape, Original
<1> QED BY <1>2, Typed

\* The installer changes files only between the journal's first write and its last.
LEMMA ChangeStep ==
  ASSUME IInv, Next, ~ForeignEdit, ~(dest' = dest /\ before' = before)
  PROVE  \/ BeginInstall
         \/ UNCHANGED state /\ state \in {"installing", "rolling_back"}
<1>1. Control
  BY DEF IInv, AnyWorld
<1> QED BY <1>1, FilesKept DEF files, journal, StageOpen, StageWrite, StageFill, InstallBackup,
        InstallRename, RestoreUntouchedStage, RestoreUntouchedBackup, RestoreKeep,
        RestoreTouchedStage, RestoreBackup, RestoreTouchedBackup, KeepStage, KeepBackup, Fail,
        Control, Working, InstallSteps, RestoreSteps, At

\* The order in which the journal's states follow each other.
LEMMA StateStep ==
  ASSUME IInv, Next, state' # state
  PROVE  \/ state = "none" /\ state' = "reserved"
         \/ state = "reserved" /\ state' = "prepared"
         \/ /\ state \notin {"none", "reserved", "rolled_back"}
            /\ state' \in {"installing", "rolling_back", "recovery_required"}
         \/ state \in {"installing", "rolling_back"} /\ state' = "installed"
         \/ state = "installed" /\ state' = "accepted"
         \/ state = "rolling_back" /\ state' \in {"rolled_back", "runtime_restored"}
<1>1. Control
  BY DEF IInv, AnyWorld
<1> USE <1>1 DEF Control, Working, StageSteps, InstallSteps, RestoreSteps, At, StartRestoring,
        Finished, Fail, journal, Mark
<1>2. CASE Stage
  BY <1>2 DEF Stage, BeginInstall, StageJournal, StageOpen, StageWrite, StageFill, StageMark,
     StageFails
<1>3. CASE Install
  BY <1>3 DEF Install, Preflight, PreflightRefused, InstallUnit, InstallCheck, InstallBackup,
     InstallBackedUp, InstallPending, InstallRename, InstallMark, InstallVerify, InstallDone,
     InstallReloadFails
<1>4. CASE Restore
  BY <1>4 DEF Restore, NextRole, NextIsGate, GateReloadFails, Finish, RestoreNoParent,
     RestoreBegin, RestoreUntouchedStage, RestoreUntouchedBackup, RestoreCurrent, RestoreKeep,
     RestoreTouchedStage, RestoreBackup, RestoreBlocked, RestoreTouchedBackup, KeepStage,
     KeepBackup, RestoreMark
<1>5. CASE Recover \/ Accept \/ Crash \/ ForeignEdit
  BY <1>5 DEF Recover, Rollback, RestoreRuntime, Accept, Crash, ForeignEdit
<1> QED BY <1>2, <1>3, <1>4, <1>5 DEF Next

\* The runtime transaction implements OwnedChange.
THEOREM RuntimeImplements == Spec => RuntimeIsOwnedChange
<1> USE DEF ChangeSt
<1>1. Init => Change!Init
  BY DEF Init, Change!Init
<1>2. ASSUME IInv, Hidden, Hidden', [Next]_vars PROVE [Change!Next]_(Change!vars)
  <2> DEFINE Shown == world = "alone" /\ dest # before
  <2> USE <1>2 DEF Change!Next, Change!vars, Change!Begin, Change!Change,
          Change!Commit, Change!Withdraw, Change!Undo
  <2>1. CASE UNCHANGED vars
    BY <2>1 DEF vars, files, journal
  <2>2. CASE Next /\ state' = state
    <3>1. UNCHANGED world
      BY <2>2 DEF Next
    <3>2. CASE UNCHANGED <<dest, before>>
      BY <2>2, <3>1, <3>2
    <3>3. CASE state \in {"installing", "rolling_back"}
      BY <2>2, <3>1, <3>3
    <3>4. CASE world # "alone"
      BY <2>2, <3>1, <3>4
    <3>5. CASE world = "alone" /\ BeginInstall
      BY <2>2, <3>5 DEF BeginInstall
    <3> QED BY <2>2, <3>2, <3>3, <3>4, <3>5, ChangeStep DEF ForeignEdit
  <2>3. CASE Next /\ state' # state
    <3>1. UNCHANGED world
      BY <2>3 DEF Next
    <3>2. Shown' <=> Shown
      BY <2>3, <3>1, ChangeStep DEF Hidden, BeginInstall, ForeignEdit, journal, files
    <3>3. state' = "rolled_back" => ~Shown'
      BY <1>2 DEF Hidden
    <3> QED BY <2>3, <3>2, <3>3, StateStep
  <2> QED BY <2>1, <2>2, <2>3
<1> QED BY Inductive, HiddenOutside, <1>1, <1>2, PTL DEF Spec, RuntimeIsOwnedChange, Change!Spec
=============================================================================
