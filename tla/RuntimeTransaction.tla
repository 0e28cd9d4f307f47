-------------------------- MODULE RuntimeTransaction --------------------------
(***************************************************************************)
(* One transaction of scripts/install-runtime-components: staging,         *)
(* install, accept, rollback and restore-runtime of an ordered list of     *)
(* files.  Every rename and every journal write is a step of its own, the  *)
(* process may exit between any two of them, staging and the systemd       *)
(* reload may fail, and another program may change a destination.          *)
(*                                                                         *)
(* Roles are numbered in INSTALL_ORDER: role 1 is the launcher gate.       *)
(* File contents are "old" (what was there), "new" (the reviewed           *)
(* artifact), "partial" (an unfinished stage), "foreign" or "absent";      *)
(* two contents are equal iff hash, mode and owner are.                    *)
(***************************************************************************)
EXTENDS Naturals, FiniteSets

CONSTANTS
    N,           \* number of roles
    Unit,        \* the systemd-unit role
    Wine,        \* WINE_ROLES; empty for a user-only (version 3) transaction
    DirOf,       \* the parent directory of each role's destination
    InitialDirs, \* the parent directories that exist before the transaction
    InitialFiles,\* the destinations' possible contents before it
    MaxFaults,   \* bound on exits, failed writes and failed reloads together
    MaxRacing    \* the same bound, changes by other programs included, where
                 \* other programs write the destinations

Roles == 1..N
Gate  == 1

ASSUME ConstantsAssumption ==
    /\ N \in Nat /\ Unit \in 2..N
    /\ Wine \subseteq 2..N /\ Unit \notin Wine
    /\ InitialDirs \subseteq {DirOf[r] : r \in Roles}
    /\ InitialFiles \subseteq [Roles -> {"absent", "old", "new"}]
    /\ MaxFaults \in Nat /\ MaxRacing \in Nat

VARIABLES
    world,     \* do other programs write the destinations meanwhile?
    before,    \* record["before"] of each role
    dest, stage, backup,  \* contents under the three names of each role
    kept,      \* contents preserved under recovery names
    dirs,      \* existing parent directories
    state, operation, reload, phase,  \* the journal
    pc, cur, roles, loop, ok, same,   \* the running command
    faults

files   == <<dest, stage, backup, kept, dirs>>
journal == <<state, operation, reload, phase>>
vars == <<world, before, files, journal, pc, cur, roles, loop, ok, same, faults>>

Contents == {"absent", "old", "new", "partial", "foreign"}
TransactionStates ==
    {"prepared", "installing", "installed", "accepted", "rolling_back",
     "rolled_back", "recovery_required", "runtime_restored"}
ArtifactPhases ==
    {"stage_pending", "staged", "backup_pending", "backed_up", "backup_skipped",
     "install_pending", "installed", "restored", "recovery_required"}
StageSteps   == {"st_journal", "st_open", "st_write", "st_fill", "st_mark"}
InstallSteps == {"preflight", "in_unit", "in_check", "in_backup", "in_backed",
                 "in_pending", "in_rename", "in_mark", "in_verify", "reload"}
RestoreSteps == {"next", "restore", "un_stage", "un_left", "re_current",
                 "re_keep", "re_stage", "re_backup", "re_left", "mark"}

FileTypes ==
    /\ before \in [Roles -> Contents]
    /\ dest \in [Roles -> Contents]
    /\ stage \in [Roles -> Contents]
    /\ backup \in [Roles -> Contents]
    /\ kept \in [Roles -> SUBSET (Contents \ {"absent"})]
    /\ dirs \subseteq {DirOf[r] : r \in Roles}

JournalTypes ==
    /\ state \in {"none", "reserved"} \cup TransactionStates
    /\ operation \in {"none", "rollback", "restore-runtime"}
    /\ reload \in BOOLEAN
    /\ phase \in [Roles -> ArtifactPhases]

LocalTypes ==
    /\ cur \in 0..N
    /\ roles \subseteq Roles
    /\ loop \in {"unstage", "undo"}
    /\ ok \in BOOLEAN /\ same \in BOOLEAN

TypeOK ==
    /\ world \in {"alone", "racing"}
    /\ FileTypes /\ JournalTypes /\ LocalTypes
    /\ pc \in {"idle"} \cup StageSteps \cup InstallSteps \cup RestoreSteps
    /\ faults \in Nat

Init ==
    /\ world \in {"alone", "racing"}
    /\ dest \in InitialFiles
    /\ before = dest
    /\ stage  = [r \in Roles |-> "absent"]
    /\ backup = [r \in Roles |-> "absent"]
    /\ kept   = [r \in Roles |-> {}]
    /\ dirs = InitialDirs \cup {DirOf[r] : r \in {q \in Roles : dest[q] # "absent"}}
    /\ state = "none" /\ operation = "none" /\ reload = FALSE
    /\ phase = [r \in Roles |-> "stage_pending"]
    /\ pc = "idle" /\ cur = 0 /\ roles = {} /\ loop = "undo"
    /\ ok = TRUE /\ same = FALSE
    /\ faults = 0

-----------------------------------------------------------------------------
At(step) == pc = step
Goto(step) == pc' = step
Local == <<cur, roles, loop, ok, same>>

\* The command ends: normally, by raising, or because the process exits.
End ==
    /\ Goto("idle") /\ cur' = 0 /\ roles' = {} /\ loop' = "undo"
    /\ ok' = TRUE /\ same' = FALSE

Present(f, r) == f[r] # "absent"
Set(f, r, c) == [f EXCEPT ![r] = c]

\* preserve_name: rename to a fresh recovery name, never onto another file.
Preserve(f, r) == [kept EXCEPT ![r] = @ \cup ({f[r]} \ {"absent"})]

\* write_journal after a change of one record's phase.
Mark(r, p) ==
    /\ phase' = [phase EXCEPT ![r] = p]
    /\ UNCHANGED <<state, operation, reload>>

\* A fault of the environment: a process exit, a failed write or reload.
Fault ==
    /\ faults < IF world = "alone" THEN MaxFaults ELSE MaxRacing
    /\ faults' = faults + 1

\* The except branches of stage_transaction and install_components, and the
\* head of mutate_existing: recovery is recorded, then records are restored
\* from the last role to the first.
StartRestoring(op, rs, how) ==
    /\ operation' = op /\ state' = "rolling_back"
    /\ UNCHANGED <<reload, phase>>
    /\ Goto("next") /\ cur' = N /\ roles' = rs /\ loop' = how
    /\ ok' = TRUE /\ same' = FALSE

Fail == StartRestoring("rollback", Roles, "undo") /\ UNCHANGED <<before, files>>

-----------------------------------------------------------------------------
(* stage_transaction *)

\* The plan records every destination; the transaction directory is reserved.
BeginInstall ==
    /\ At("idle") /\ state = "none"
    /\ before' = dest
    /\ state' = "reserved"
    /\ Goto("st_journal")
    /\ UNCHANGED <<files, operation, reload, phase, Local, faults>>

StageJournal ==
    /\ At("st_journal")
    /\ state' = "prepared"
    /\ Goto("st_open") /\ cur' = 1
    /\ UNCHANGED <<before, files, operation, reload, phase, roles, loop, ok,
                   same, faults>>

\* open_parent(create=True), then write_new creates and fills the stage.
StageOpen ==
    /\ At("st_open")
    /\ dirs' = dirs \cup {DirOf[cur]}
    /\ Goto("st_write")
    /\ UNCHANGED <<before, dest, stage, backup, kept, journal, Local, faults>>

StageWrite ==
    /\ At("st_write")
    /\ stage' = Set(stage, cur, "partial")
    /\ Goto("st_fill")
    /\ UNCHANGED <<before, dest, backup, kept, dirs, journal, Local, faults>>

StageFill ==
    /\ At("st_fill")
    /\ stage' = Set(stage, cur, "new")
    /\ Goto("st_mark")
    /\ UNCHANGED <<before, dest, backup, kept, dirs, journal, Local, faults>>

StageMark ==
    /\ At("st_mark")
    /\ Mark(cur, "staged")
    /\ \/ cur < N /\ cur' = cur + 1 /\ Goto("st_open")
       \/ cur = N /\ Goto("preflight") /\ UNCHANGED cur
    /\ UNCHANGED <<before, files, roles, loop, ok, same, faults>>

\* mkdir, write or verification fails (a full disk): the except branch.
StageFails ==
    /\ pc \in {"st_open", "st_write", "st_fill"}
    /\ Fault
    /\ StartRestoring("rollback", Roles, "unstage")
    /\ UNCHANGED <<before, files>>

-----------------------------------------------------------------------------
(* install_components and install_record *)

\* Mutant: an installation order that does not start with the launcher gate.
PreflightUnitFirst ==
    /\ At("preflight")
    /\ \/ /\ dest = before
          /\ state' = "installing"
          /\ Goto("in_unit") /\ cur' = Unit
          /\ UNCHANGED <<before, files, operation, reload, phase, roles, loop,
                         ok, same>>
       \/ dest # before /\ Fail
    /\ UNCHANGED faults

\* revalidate_destinations_before_mutation, then the first "installing" write.
Preflight ==
    /\ At("preflight")
    /\ \/ /\ dest = before
          /\ state' = "installing"
          /\ Goto("in_unit") /\ cur' = 1
          /\ UNCHANGED <<before, files, operation, reload, phase, roles, loop,
                         ok, same>>
       \/ dest # before /\ Fail
    /\ UNCHANGED faults

\* The service or the game became active after staging.
PreflightRefused == At("preflight") /\ Fault /\ Fail

\* Only the systemd unit records that the user manager must be reloaded.
InstallUnit ==
    /\ At("in_unit")
    /\ reload' = (reload \/ cur = Unit)
    /\ Goto("in_check")
    /\ UNCHANGED <<before, files, state, operation, phase, Local, faults>>

InstallCheck ==
    /\ At("in_check")
    /\ \/ /\ dest[cur] = before[cur]
          /\ \/ /\ Present(before, cur)
                /\ Mark(cur, "backup_pending") /\ Goto("in_backup")
             \/ /\ ~Present(before, cur)
                /\ Mark(cur, "backup_skipped") /\ Goto("in_pending")
          /\ UNCHANGED <<before, files, Local>>
       \/ dest[cur] # before[cur] /\ Fail
    /\ UNCHANGED faults

InstallBackup ==
    /\ At("in_backup")
    /\ \/ /\ Present(dest, cur)
          /\ backup' = Set(backup, cur, dest[cur])
          /\ dest' = Set(dest, cur, "absent")
          /\ Goto("in_backed")
          /\ UNCHANGED <<before, stage, kept, dirs, journal, Local>>
       \/ ~Present(dest, cur) /\ Fail
    /\ UNCHANGED faults

InstallBackedUp ==
    /\ At("in_backed")
    /\ Mark(cur, "backed_up") /\ Goto("in_pending")
    /\ UNCHANGED <<before, files, Local, faults>>

InstallPending ==
    /\ At("in_pending")
    /\ Mark(cur, "install_pending") /\ Goto("in_rename")
    /\ UNCHANGED <<before, files, Local, faults>>

\* Mutant: a plain rename replaces what it finds.
InstallRenameReplaces ==
    /\ At("in_rename")
    /\ dest' = Set(dest, cur, stage[cur])
    /\ stage' = Set(stage, cur, "absent")
    /\ Goto("in_mark")
    /\ UNCHANGED <<before, backup, kept, dirs, journal, Local, faults>>

InstallRename ==
    /\ At("in_rename")
    /\ \/ /\ ~Present(dest, cur)
          /\ dest' = Set(dest, cur, stage[cur])
          /\ stage' = Set(stage, cur, "absent")
          /\ Goto("in_mark")
          /\ UNCHANGED <<before, backup, kept, dirs, journal, Local>>
       \/ Present(dest, cur) /\ Fail
    /\ UNCHANGED faults

InstallMark ==
    /\ At("in_mark")
    /\ Mark(cur, "installed") /\ Goto("in_verify")
    /\ UNCHANGED <<before, files, Local, faults>>

InstallVerify ==
    /\ At("in_verify")
    /\ \/ /\ dest[cur] = "new"
          /\ \/ cur < N /\ cur' = cur + 1 /\ Goto("in_unit")
             \/ cur = N /\ Goto("reload") /\ UNCHANGED cur
          /\ UNCHANGED <<before, files, journal, roles, loop, ok, same>>
       \/ dest[cur] # "new" /\ Fail
    /\ UNCHANGED faults

InstallDone ==
    /\ At("reload")
    /\ reload' = FALSE /\ state' = "installed"
    /\ End
    /\ UNCHANGED <<before, files, operation, phase, faults>>

InstallReloadFails == At("reload") /\ Fault /\ Fail

-----------------------------------------------------------------------------
(* mutate_existing: rollback, accept, restore-runtime *)

\* Mutant: an interrupted installation is not among the states to roll back.
RollbackNotInstalling ==
    /\ At("idle")
    /\ \/ state \in {"prepared", "installed"}
       \/ state = "runtime_restored" /\ operation = "restore-runtime"
       \/ state \in {"rolling_back", "recovery_required"} /\ operation = "rollback"
    /\ StartRestoring("rollback", Roles, "undo")
    /\ UNCHANGED <<before, files, faults>>

Rollback ==
    /\ At("idle")
    /\ \/ state \in {"prepared", "installed", "installing"}
       \/ state = "runtime_restored" /\ operation = "restore-runtime"
       \/ state \in {"rolling_back", "recovery_required"} /\ operation = "rollback"
    /\ StartRestoring("rollback", Roles, "undo")
    /\ UNCHANGED <<before, files, faults>>

\* Mutant: it takes over an interrupted rollback of everything.
RestoreRuntimeAny ==
    /\ At("idle") /\ Wine # {}
    /\ \/ state = "accepted" /\ operation = "none"
       \/ state \in {"rolling_back", "recovery_required"}
    /\ StartRestoring("restore-runtime", Wine, "undo")
    /\ UNCHANGED <<before, files, faults>>

RestoreRuntime ==
    /\ At("idle") /\ Wine # {}
    /\ \/ state = "accepted" /\ operation = "none"
       \/ /\ state \in {"rolling_back", "recovery_required"}
          /\ operation = "restore-runtime"
    /\ StartRestoring("restore-runtime", Wine, "undo")
    /\ UNCHANGED <<before, files, faults>>

\* verify_transaction_installed, then the decision is final for rollback.
Accept ==
    /\ At("idle") /\ state = "installed" /\ operation = "none"
    /\ \A r \in Roles : phase[r] = "installed" /\ dest[r] = "new"
    /\ state' = "accepted"
    /\ UNCHANGED <<before, files, operation, reload, phase, pc, Local, faults>>

-----------------------------------------------------------------------------
(* rollback_records, and the loop of stage_transaction's except branch *)

\* The final write of the restoring command.
Finished(complete) ==
    /\ state' = IF ~complete THEN "recovery_required"
                ELSE IF operation = "rollback" THEN "rolled_back"
                ELSE "runtime_restored"
    /\ End

Finish ==
    /\ At("next") /\ cur = 0
    /\ Finished(ok)
    /\ UNCHANGED <<before, files, operation, reload, phase, faults>>

NextRole ==
    /\ At("next") /\ cur > 0
    /\ loop = "unstage" \/ cur # Gate \/ Gate \notin roles
    /\ \/ /\ cur \in roles
          /\ reload' = (reload \/ (loop = "undo" /\ cur = Unit))
          /\ Goto("restore") /\ UNCHANGED cur
       \/ /\ cur \notin roles
          /\ cur' = cur - 1 /\ UNCHANGED <<pc, reload>>
    /\ UNCHANGED <<before, files, state, operation, phase, roles, loop, ok,
                   same, faults>>

\* Mutant: the gate comes back without a reload of the user manager.
NextIsGateNoReload ==
    /\ At("next") /\ cur = Gate /\ Gate \in roles /\ loop = "undo"
    /\ \/ ok /\ Goto("restore") /\ UNCHANGED <<state, Local>>
       \/ ~ok /\ Finished(FALSE)
    /\ UNCHANGED <<before, files, operation, reload, phase, faults>>

\* The launcher gate comes back last, and only when everything else is restored
\* and the manager has been reloaded (the unit was visited, so it is needed).
NextIsGate ==
    /\ At("next") /\ cur = Gate /\ Gate \in roles /\ loop = "undo"
    /\ \/ /\ ok /\ reload' = FALSE
          /\ Goto("restore") /\ UNCHANGED <<state, Local>>
       \/ ~ok /\ Finished(FALSE) /\ UNCHANGED reload
    /\ UNCHANGED <<before, files, operation, phase, faults>>

GateReloadFails ==
    /\ At("next") /\ cur = Gate /\ Gate \in roles /\ loop = "undo" /\ ok
    /\ Fault
    /\ Finished(FALSE)
    /\ UNCHANGED <<before, files, operation, reload, phase>>

-----------------------------------------------------------------------------
(* restore_record *)

\* Mutant: a file that was absent before counts as untouched even when the
\* stage has already been renamed to it.
DestinationUntouchedAbsent(r) ==
    \/ phase[r] \in {"stage_pending", "staged", "backup_skipped"}
    \/ phase[r] = "backup_pending" /\ ~Present(backup, r)
    \/ phase[r] = "install_pending" /\ ~Present(before, r)

\* May the destination still be what it was, untouched by install_record?
DestinationUntouched(r) ==
    \/ phase[r] \in {"stage_pending", "staged", "backup_skipped"}
    \/ phase[r] = "backup_pending" /\ ~Present(backup, r)
    \/ phase[r] = "install_pending" /\ ~Present(before, r) /\ Present(stage, r)

\* open_parent raises where the parent directory does not exist: the command
\* ends and the journal keeps saying rolling_back.
RestoreNoParent ==
    /\ At("restore") /\ DirOf[cur] \notin dirs
    /\ End
    /\ UNCHANGED <<before, files, journal, faults>>

RestoreBegin ==
    /\ At("restore") /\ DirOf[cur] \in dirs
    /\ Goto(IF DestinationUntouched(cur) THEN "un_stage" ELSE "re_current")
    /\ UNCHANGED <<before, files, journal, Local, faults>>

KeepStage(step, next) ==
    /\ At(step)
    /\ kept' = Preserve(stage, cur) /\ stage' = Set(stage, cur, "absent")
    /\ Goto(next)
    /\ UNCHANGED <<before, dest, backup, dirs, journal, Local, faults>>

RestoreUntouchedStage == KeepStage("un_stage", "un_left")
RestoreTouchedStage   == KeepStage("re_stage", "re_backup")

\* Both branches end alike: whether the role is as before is decided, a leftover
\* backup is preserved, and then the record's phase says what was decided.
KeepBackup(step, complete) ==
    /\ At(step)
    /\ kept' = Preserve(backup, cur) /\ backup' = Set(backup, cur, "absent")
    /\ same' = complete
    /\ Goto("mark")
    /\ UNCHANGED <<before, dest, stage, dirs, journal, cur, roles, loop, ok, faults>>

RestoreUntouchedBackup == KeepBackup("un_left", ~Present(backup, cur))

\* The role is done: the journal records it and the loop goes to the one before.
RestoreMark ==
    /\ At("mark")
    /\ Mark(cur, IF same THEN "restored" ELSE "recovery_required")
    /\ ok' = (ok /\ same) /\ same' = FALSE
    /\ cur' = cur - 1 /\ Goto("next")
    /\ UNCHANGED <<before, files, roles, loop, faults>>

\* What the destination holds is compared with the original, once.
RestoreCurrent ==
    /\ At("re_current")
    /\ same' = (dest[cur] = before[cur])
    /\ Goto(IF same' \/ ~Present(dest, cur) THEN "re_stage" ELSE "re_keep")
    /\ UNCHANGED <<before, files, journal, cur, roles, loop, ok, faults>>

\* Anything that is not the original leaves the destination, never deleted:
\* whatever is there by now, or nothing where it went away.
RestoreKeep ==
    /\ At("re_keep")
    /\ kept' = Preserve(dest, cur) /\ dest' = Set(dest, cur, "absent")
    /\ Goto("re_stage")
    /\ UNCHANGED <<before, stage, backup, dirs, journal, Local, faults>>

MustPutBack(r) == Present(before, r) /\ ~same /\ backup[r] = before[r]

\* The original comes back from the backup, where the code has one to put back.
RestoreBackup ==
    /\ At("re_backup")
    /\ \/ /\ MustPutBack(cur) /\ ~Present(dest, cur)
          /\ dest' = Set(dest, cur, backup[cur])
          /\ backup' = Set(backup, cur, "absent")
       \/ ~MustPutBack(cur) /\ UNCHANGED <<dest, backup>>
    /\ Goto("re_left")
    /\ UNCHANGED <<before, stage, kept, dirs, journal, Local, faults>>

\* A destination that reappeared makes rename_noreplace raise.
RestoreBlocked ==
    /\ At("re_backup") /\ MustPutBack(cur) /\ Present(dest, cur)
    /\ End
    /\ UNCHANGED <<before, files, journal, faults>>

\* A restored destination is as before; a backup that could not be put back has
\* left it different, so "as before" decides both tests of the code.
RestoreTouchedBackup == KeepBackup("re_left", dest[cur] = before[cur])

-----------------------------------------------------------------------------
(* The environment *)

Crash ==
    /\ ~At("idle") /\ Fault
    /\ End
    /\ UNCHANGED <<before, files, journal>>

\* Another program replaces, creates or removes a destination.
ForeignEdit ==
    /\ world = "racing" /\ Fault
    /\ \E r \in Roles, c \in {"foreign", "absent"} :
          /\ dest[r] # c /\ DirOf[r] \in dirs
          /\ dest' = Set(dest, r, c)
    /\ UNCHANGED <<before, stage, backup, kept, dirs, journal, pc, Local>>

-----------------------------------------------------------------------------
Stage == \/ BeginInstall \/ StageJournal \/ StageOpen \/ StageWrite \/ StageFill
         \/ StageMark \/ StageFails
Install == \/ Preflight \/ PreflightRefused \/ InstallUnit \/ InstallCheck
           \/ InstallBackup \/ InstallBackedUp \/ InstallPending \/ InstallRename
           \/ InstallMark \/ InstallVerify \/ InstallDone \/ InstallReloadFails
Restore == \/ NextRole \/ NextIsGate \/ GateReloadFails \/ Finish
           \/ RestoreNoParent \/ RestoreBegin
           \/ RestoreUntouchedStage \/ RestoreUntouchedBackup
           \/ RestoreCurrent \/ RestoreKeep \/ RestoreTouchedStage \/ RestoreBackup
           \/ RestoreBlocked \/ RestoreTouchedBackup \/ RestoreMark
Recover == Rollback \/ RestoreRuntime

Next ==
    /\ \/ Stage \/ Install \/ Restore \/ Recover \/ Accept \/ Crash \/ ForeignEdit
    /\ UNCHANGED world

Spec == Init /\ [][Next]_vars

\* A running command keeps running; an operator who finds an interrupted
\* transaction runs its recovery command again.
Continue == (Stage \/ Install \/ Restore) /\ UNCHANGED world
RunAgain ==
    /\ state \notin {"installed", "runtime_restored", "accepted"}
    /\ Recover /\ UNCHANGED world

FairSpec == Spec /\ WF_vars(Continue) /\ WF_vars(RunAgain)

-----------------------------------------------------------------------------
(* Correctness.  A step of the installer changes pc or the journal; a step  *)
(* of another program changes neither.                                      *)

InstallerStep == pc' # pc \/ cur' # cur \/ state' # state

Held(r) == ({dest[r], stage[r], backup[r]} \ {"absent", "partial"}) \cup kept[r]

\* No rename of the installer ever destroys a file: what was under the
\* destination, stage or backup name of a role is still under one of them or
\* under a recovery name, even while other programs write the destinations.
NoContentLost ==
    [][InstallerStep => \A r \in Roles : Held(r) \subseteq Held(r)']_vars

\* The launcher gate is installed first and restored last: whenever another
\* managed file differs from the original, whatever step the process died at,
\* the gate that refuses to launch in that state is in place.
GateGuardsMutation ==
    (world = "alone" /\ \E r \in Roles \ {Gate} : dest[r] # before[r]) => dest[Gate] = "new"

\* The restored unit is loaded before the gate is withdrawn: no rollback gives
\* the old launcher back while the manager still runs the new unit.
GateReleasedAfterReload ==
    [][(/\ phase[Gate] = "installed" /\ dest[Gate] = "new"
        /\ dest'[Gate] # "new" /\ InstallerStep) => ~reload]_vars

AsBefore(rs) ==
    \A r \in rs : /\ dest[r] = before[r]
                   /\ stage[r] = "absent" /\ backup[r] = "absent"

\* A journal that says rolled_back or runtime_restored: the original files
\* are back and no stage or backup is left over.
RestoredMeansOriginal ==
    /\ state = "rolled_back" => AsBefore(Roles)
    /\ state = "runtime_restored" => AsBefore(Wine)

\* A journal that says installed or accepted: everything is in place and
\* loaded, and the originals can still be put back.
InstalledMeansComplete ==
    state \in {"installed", "accepted"} =>
        /\ ~reload
        /\ \A r \in Roles :
              /\ dest[r] = "new" /\ phase[r] = "installed"
              /\ backup[r] = before[r]

\* restore-runtime of an accepted transaction, interrupted and resumed at any
\* step, changes the Wine files and nothing else.
RestoreRuntimeTouchesOnlyWine ==
    operation = "restore-runtime" =>
        \A r \in Roles \ Wine : dest[r] = "new" /\ phase[r] = "installed"

\* Whatever was interrupted, failed or resumed on the way there, the state the
\* journal settles in is what the destinations hold.  (The variables keep
\* their types in every world.)
FinalStatesAreTrue ==
    /\ TypeOK
    /\ world = "alone" => /\ RestoredMeansOriginal
                          /\ InstalledMeansComplete
                          /\ RestoreRuntimeTouchesOnlyWine

ChangeSt == CASE state \in {"none", "reserved"} -> "none"
              [] state = "rolled_back" -> "undone"
              [] state \in {"installed", "accepted", "runtime_restored"} -> "live"
              [] OTHER -> "open"

Change == INSTANCE OwnedChange WITH st <- ChangeSt,
                                 shown <- world = "alone" /\ dest # before

\* The runtime transaction implements OwnedChange: no managed file differs
\* before the journal exists or after it says rolled_back.
RuntimeIsOwnedChange == Change!Spec

Unfinished ==
    state \in {"prepared", "installing", "rolling_back", "recovery_required"}

\* "Evidence-bound, recoverable installer": a transaction that has a journal
\* does not stay unfinished when its recovery command is run again.
Recovers == (world = "alone" /\ Unfinished) ~> ~Unfinished

\* From the moment every role has its parent directory, the recovery commands
\* settle whatever was interrupted.
RecoversWithParents ==
    (/\ world = "alone" /\ Unfinished
     /\ \A r \in Roles : DirOf[r] \in dirs) ~> ~Unfinished
=============================================================================
