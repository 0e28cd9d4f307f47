----------------------------- MODULE LicensedCopy -----------------------------
(***************************************************************************)
(* The private copy of the licensed threading DLL (forza_bootstrap/        *)
(* licensed.py): plan, install or resume, and rollback, with the journal   *)
(* written before and after the renames between five names in one          *)
(* directory.  The parent workflow decides once to withdraw; afterwards it *)
(* only runs the rollback.                                                 *)
(*                                                                         *)
(* Contents: "source" (the licensed bytes with mode 0644), "mode" (those   *)
(* bytes with another mode), "previous" (an earlier file), "partial" (an   *)
(* unfinished stage), "foreign", "absent".                                 *)
(***************************************************************************)
EXTENDS Naturals

CONSTANTS
    InitialDest, \* what the destination may hold when the copy is planned
    Edits,       \* what other programs may leave there
    Worlds,      \* when they act: never ("alone"), "between" two commands,
                 \* or also while one runs ("racing")
    MaxEdits,    \* bound on their edits
    MaxCrashes   \* bound on process exits

ASSUME ConstantsAssumption ==
    /\ InitialDest \subseteq {"absent", "previous", "source", "mode"}
    /\ Edits \subseteq {"absent", "foreign", "mode"}
    /\ Worlds \subseteq {"alone", "between", "racing"}
    /\ MaxEdits \in Nat /\ MaxCrashes \in Nat

VARIABLES
    files,    \* contents under each of the five names
    evidence, \* contents kept under fresh *.partial.recovery names
    before,   \* the planned before-state
    status,   \* the journal's status, "none" before it exists
    sourceOk, \* is the licensed input still what was planned?
    withdrawn,\* has the parent decided to roll back?
    world,    \* the environment of this behaviour
    pc, edits, crashes

bounds == <<edits, crashes>>
vars == <<files, evidence, before, status, sourceOk, withdrawn, world, pc,
          bounds>>

Names    == {"dest", "stage", "backup", "held", "recovery"}
Contents == {"absent", "source", "mode", "previous", "partial", "foreign"}
Statuses == {"planned", "installed", "rolled_back", "recovery_required"}
InstallSteps  == {"read", "stage", "fill", "backup", "move", "backed", "final",
                  "publish", "verify", "mark"}
RollbackSteps == {"rb_read", "rb_hold", "rb_move", "rb_held", "rb_restore",
                  "rb_verify", "rb_mark"}
QuarantineSteps == {"quarantine", "q_mark"}

TypeOK ==
    /\ files \in [Names -> Contents]
    /\ evidence \subseteq Contents
    /\ before \in {"absent", "previous", "source", "mode"}
    /\ status \in {"none"} \cup Statuses
    /\ sourceOk \in BOOLEAN /\ withdrawn \in BOOLEAN /\ world \in Worlds
    /\ pc \in {"idle"} \cup InstallSteps \cup RollbackSteps \cup QuarantineSteps
    /\ edits \in 0..MaxEdits /\ crashes \in 0..MaxCrashes

Init ==
    /\ \E d \in InitialDest :
          /\ before = d
          /\ files = [n \in Names |-> IF n = "dest" THEN d ELSE "absent"]
    /\ evidence = {} /\ status = "none"
    /\ sourceOk = TRUE /\ withdrawn = FALSE /\ world \in Worlds
    /\ pc = "idle" /\ edits = 0 /\ crashes = 0

-----------------------------------------------------------------------------
\* plan_threading_copy's disposition.
Keep    == before \in {"source", "mode"}
Replace == before = "previous"

MatchesSource(name) == files[name] \in {"source", "mode"}
Free(name) == files[name] = "absent"

Goto(step) == pc' = step
\* rename_noreplace; every caller has checked that dst is free.
Rename(src, dst) ==
    files' = [files EXCEPT ![src] = "absent", ![dst] = files[src]]
Write(s) == status' = s

Parent == <<before, sourceOk, withdrawn, world>>
Disk   == <<files, evidence, status>>

\* A raise: the command ends without a further change.
Refuse == Goto("idle") /\ UNCHANGED <<Disk, Parent, bounds>>

\* A step that only decides how to go on.
Decide(step) == Goto(step) /\ UNCHANGED <<Disk, Parent, bounds>>

\* The last journal write of a command.
Conclude(s) ==
    /\ Write(s) /\ Goto("idle")
    /\ UNCHANGED <<files, evidence, Parent, bounds>>

-----------------------------------------------------------------------------
(* install_threading_copy *)

\* _validate_fresh_action and _load_or_create_journal.
Install ==
    /\ pc = "idle" /\ ~withdrawn /\ sourceOk
    /\ status \in {"none", "planned", "installed"}
    /\ status' = IF status = "none" THEN "planned" ELSE status
    /\ Goto("read")
    /\ UNCHANGED <<files, evidence, Parent, bounds>>

\* What a destination with the complete source means, at both places the
\* code asks: published already, or published and then changed.
SourcePresent ==
    \/ files["dest"] = "source" /\ Conclude("installed")
    \/ files["dest"] = "mode" /\ Decide("quarantine")

InstallRead ==
    /\ pc = "read"
    /\ \/ Keep /\ MatchesSource("dest") /\ Conclude("installed")
       \/ Keep /\ ~MatchesSource("dest") /\ Refuse
       \/ /\ ~Keep /\ MatchesSource("dest")
          /\ \/ files["dest"] = "source" /\ Replace
                /\ files["backup"] # before /\ Refuse
             \/ ~(files["dest"] = "source" /\ Replace /\ files["backup"] # before)
                /\ SourcePresent
       \/ ~Keep /\ ~MatchesSource("dest") /\ Decide("stage")

\* _copy_stage: reuse an exact stage, refuse one with another mode, set any
\* other aside and start again.
CopyStage ==
    /\ pc = "stage"
    /\ \/ /\ Free("stage")
          /\ files' = [files EXCEPT !["stage"] = "partial"] /\ Goto("fill")
          /\ UNCHANGED <<evidence, status, Parent, bounds>>
       \/ files["stage"] = "source" /\ Decide("backup")
       \/ files["stage"] = "mode" /\ Refuse
       \/ /\ ~Free("stage") /\ ~MatchesSource("stage")
          /\ evidence' = evidence \cup {files["stage"]}
          /\ files' = [files EXCEPT !["stage"] = "absent"]
          /\ UNCHANGED <<pc, status, Parent, bounds>>

\* The copied bytes are the planned ones, or the copy is abandoned.
FillStage ==
    /\ pc = "fill"
    /\ \/ /\ sourceOk
          /\ files' = [files EXCEPT !["stage"] = "source"] /\ Goto("backup")
          /\ UNCHANGED <<evidence, status, Parent, bounds>>
       \/ ~sourceOk /\ Refuse

\* Mutant: a destination that is gone needs no backup.
BackUpOptional ==
    /\ pc = "backup"
    /\ \/ (~Replace \/ Free("dest")) /\ Decide("final")
       \/ Replace /\ Free("backup") /\ files["dest"] = before /\ Decide("move")
       \/ /\ Replace /\ ~Free("dest")
          /\ ~(Free("backup") /\ files["dest"] = before)
          /\ Refuse

\* The previous file is to move to the backup name, once.
BackUp ==
    /\ pc = "backup"
    /\ \/ ~Replace /\ Decide("final")
       \/ Replace /\ Free("backup") /\ files["dest"] = before /\ Decide("move")
       \/ /\ Replace /\ ~(Free("backup") /\ files["dest"] = before)
          /\ \/ /\ files["backup"] = before
                /\ Free("dest") \/ MatchesSource("dest")
                /\ Decide("final")
             \/ /\ files["backup"] # before
                   \/ ~(Free("dest") \/ MatchesSource("dest"))
                /\ Refuse

\* The rename takes whatever is under the name by then.
MoveToBackup ==
    /\ pc = "move"
    /\ \/ /\ ~Free("dest") /\ Free("backup")
          /\ Rename("dest", "backup") /\ Goto("backed")
          /\ UNCHANGED <<evidence, status, Parent, bounds>>
       \/ (Free("dest") \/ ~Free("backup")) /\ Refuse

\* The moved file is compared with the plan again.
BackedUp ==
    /\ pc = "backed"
    /\ \/ files["backup"] = before /\ Decide("final")
       \/ files["backup"] # before /\ Conclude("recovery_required")

InstallFinal ==
    /\ pc = "final"
    /\ \/ SourcePresent
       \/ ~Free("dest") /\ ~MatchesSource("dest") /\ Refuse
       \/ Free("dest") /\ Decide("publish")

\* Mutant: a plain rename replaces what it finds.
PublishStageReplaces ==
    /\ pc = "publish"
    /\ \/ /\ files["stage"] = "source"
          /\ Rename("stage", "dest") /\ Goto("verify")
          /\ UNCHANGED <<evidence, status, Parent, bounds>>
       \/ files["stage"] # "source" /\ Refuse

\* _publish_stage: rename, then verify what is under the name.
PublishStage ==
    /\ pc = "publish"
    /\ \/ /\ files["stage"] = "source" /\ Free("dest")
          /\ Rename("stage", "dest") /\ Goto("verify")
          /\ UNCHANGED <<evidence, status, Parent, bounds>>
       \/ (files["stage"] # "source" \/ ~Free("dest")) /\ Refuse

VerifyPublished ==
    /\ pc = "verify"
    /\ \/ files["dest"] = "source" /\ Decide("mark")
       \/ files["dest"] # "source" /\ Decide("quarantine")

InstallMark == pc = "mark" /\ Conclude("installed")

\* _quarantine_destination: out of the live name, onto the one recovery name.
Quarantine ==
    /\ pc = "quarantine"
    /\ \/ /\ ~Free("dest") /\ Free("recovery")
          /\ Rename("dest", "recovery") /\ Goto("q_mark")
          /\ UNCHANGED <<evidence, status, Parent, bounds>>
       \/ (Free("dest") \/ ~Free("recovery")) /\ Refuse

\* A file that took the place of the one it had opened is kept, but not recorded.
QuarantineMark ==
    /\ pc = "q_mark"
    /\ \/ Conclude("recovery_required")
       \/ world = "racing" /\ Refuse

-----------------------------------------------------------------------------
(* rollback_threading_copy *)

Rollback ==
    /\ pc = "idle" /\ withdrawn /\ status \notin {"none", "rolled_back"}
    /\ Decide("rb_read")

\* Mutant: a destination the interrupted rollback has already freed is refused.
RollbackReadNeedsFile ==
    /\ pc = "rb_read"
    /\ \/ Keep /\ MatchesSource("dest") /\ Decide("rb_mark")
       \/ ~Keep /\ ~Free("dest") /\ ~MatchesSource("dest") /\ Decide("quarantine")
       \/ ~Keep /\ MatchesSource("dest") /\ Decide("rb_hold")
       \/ (Free("dest") \/ (Keep /\ ~MatchesSource("dest"))) /\ Refuse

RollbackRead ==
    /\ pc = "rb_read"
    /\ \/ Keep /\ MatchesSource("dest") /\ Decide("rb_mark")
       \/ Keep /\ ~MatchesSource("dest") /\ Refuse
       \/ /\ ~Keep /\ ~Free("dest") /\ ~MatchesSource("dest")
          /\ \/ Replace /\ files["dest"] = before /\ Free("backup")
                /\ Decide("rb_mark")
             \/ ~(Replace /\ files["dest"] = before /\ Free("backup"))
                /\ Decide("quarantine")
       \/ ~Keep /\ MatchesSource("dest") /\ Decide("rb_hold")
       \/ ~Keep /\ Free("dest") /\ Decide("rb_restore")

\* _move_bound takes the installed copy away: its mode must be the recorded one,
\* then the rename takes what is under the name, and that is compared again.
RollbackHold ==
    /\ pc = "rb_hold"
    /\ \/ files["dest"] = "source" /\ Decide("rb_move")
       \/ files["dest"] # "source" /\ Refuse

RollbackMove ==
    /\ pc = "rb_move"
    /\ \/ /\ ~Free("dest") /\ Free("held")
          /\ Rename("dest", "held") /\ Goto("rb_held")
          /\ UNCHANGED <<evidence, status, Parent, bounds>>
       \/ (Free("dest") \/ ~Free("held")) /\ Refuse

\* Mutant: the previous file is not put back.
RollbackHeldForgets ==
    /\ pc = "rb_held"
    /\ \/ files["held"] = "source" /\ Decide("rb_mark")
       \/ files["held"] # "source" /\ Refuse

RollbackHeld ==
    /\ pc = "rb_held"
    /\ \/ files["held"] = "source" /\ Decide("rb_restore")
       \/ files["held"] # "source" /\ Refuse

\* Mutant: a missing backup is taken for one already put back.
RollbackRestoreLenient ==
    /\ pc = "rb_restore"
    /\ \/ (~Replace \/ files["backup"] # before) /\ Decide("rb_mark")
       \/ /\ Replace /\ files["backup"] = before /\ Free("dest")
          /\ Rename("backup", "dest") /\ Goto("rb_verify")
          /\ UNCHANGED <<evidence, status, Parent, bounds>>

\* _move_bound puts the previous file back; a destination taken meanwhile is
\* quarantined.
RollbackRestore ==
    /\ pc = "rb_restore"
    /\ \/ ~Replace /\ Decide("rb_mark")
       \/ Replace /\ files["backup"] # before /\ Refuse
       \/ /\ Replace /\ files["backup"] = before /\ Free("dest")
          /\ Rename("backup", "dest") /\ Goto("rb_verify")
          /\ UNCHANGED <<evidence, status, Parent, bounds>>
       \/ /\ Replace /\ files["backup"] = before /\ ~Free("dest")
          /\ Decide("quarantine")

RollbackVerify ==
    /\ pc = "rb_verify"
    /\ \/ files["dest"] = before /\ Decide("rb_mark")
       \/ files["dest"] # before /\ ~Free("dest") /\ Decide("quarantine")
       \/ files["dest"] # before /\ Free("dest") /\ Conclude("recovery_required")

RollbackMark == pc = "rb_mark" /\ Conclude("rolled_back")

-----------------------------------------------------------------------------
(* The environment *)

\* The parent enters ROLLING_BACK; there is no way back.
Withdraw ==
    /\ pc = "idle" /\ ~withdrawn /\ withdrawn' = TRUE
    /\ UNCHANGED <<Disk, before, sourceOk, world, pc, bounds>>

\* The user's own copy of the DLL is removed or replaced.
SourceLost ==
    /\ sourceOk /\ sourceOk' = FALSE
    /\ UNCHANGED <<Disk, before, withdrawn, world, pc, bounds>>

Crash ==
    /\ pc # "idle" /\ crashes < MaxCrashes
    /\ Goto("idle") /\ crashes' = crashes + 1
    /\ UNCHANGED <<Disk, Parent, edits>>

\* Another program writes or removes the destination, changes a mode, or
\* changes the stage an interrupted command left behind.
Edit ==
    /\ world # "alone" /\ edits < MaxEdits /\ edits' = edits + 1
    /\ \E name \in {"dest", "stage"}, c \in Edits :
          /\ pc = "idle" \/ (world = "racing" /\ name = "dest")
          /\ c # files[name]
          /\ c = "mode" => files[name] = "source"
          /\ files' = [files EXCEPT ![name] = c]
    /\ UNCHANGED <<evidence, status, Parent, pc, crashes>>

-----------------------------------------------------------------------------
InstallStep ==
    \/ InstallRead \/ CopyStage \/ FillStage \/ BackUp \/ MoveToBackup \/ BackedUp
    \/ InstallFinal \/ PublishStage \/ VerifyPublished \/ InstallMark
RollbackStep ==
    \/ RollbackRead \/ RollbackHold \/ RollbackMove \/ RollbackHeld
    \/ RollbackRestore \/ RollbackVerify
    \/ RollbackMark
Command == \/ Install \/ InstallStep \/ Rollback \/ RollbackStep
           \/ Quarantine \/ QuarantineMark

Next == Command \/ Withdraw \/ SourceLost \/ Crash \/ Edit

Spec == Init /\ [][Next]_vars

\* A running command runs on, and the operator reruns the rollback.
FairSpec ==
    /\ Spec
    /\ WF_vars(InstallStep \/ RollbackStep \/ Quarantine \/ QuarantineMark)
    /\ WF_vars(Rollback)

-----------------------------------------------------------------------------
(* Correctness.  Only an edit of another program leaves pc, status and the   *)
(* evidence as they are while a file changes.                                *)

Held == ({files[n] : n \in Names} \ {"absent"}) \cup evidence

\* No file is overwritten or deleted by the transaction: every content under
\* one of its names is still under one of them or among the evidence.  An already
\* exact copy of the user ("keep") is not even moved, nor what later replaces it.
NoFileLost ==
    [][edits' = edits =>
         /\ Held \ {"partial"} \subseteq Held'
         /\ Keep => files' = files]_vars

Becomes(s) == status # s /\ status' = s

\* What the journal claims is so when it is written: rolled_back only over the
\* destination as it was planned, installed only over the complete copy and,
\* where that replaced a file, over a backup that can be put back.
JournalTellsTheTruth ==
    [][/\ TypeOK'
       /\ world # "racing" /\ Becomes("rolled_back") =>
            \/ files["dest"] = before
            \/ Keep /\ MatchesSource("dest")
       /\ world # "racing" /\ Becomes("installed") =>
            /\ files["dest"] = "source" \/ (Keep /\ MatchesSource("dest"))
            /\ Replace => files["backup"] = before]_vars

\* The journal has no phase for a rollback in progress: the parent's own
\* ROLLING_BACK is the durable intent.
ChangeSt == CASE status = "none"        -> "none"
              [] status = "rolled_back" -> "undone"
              [] status = "installed" /\ ~withdrawn -> "live"
              [] OTHER -> "open"

\* Left alone, the copy is the change; elsewhere nothing is claimed.
Change == INSTANCE OwnedChange
             WITH st <- IF world = "alone" THEN ChangeSt ELSE "none",
                  shown <- world = "alone" /\ ~Keep /\ files["dest"] # before

\* The copy implements OwnedChange when the parent's decision is counted as
\* its intent.
CopyIsOwnedChange == Change!Spec

\* Once the parent withdraws, rerunning the rollback finishes it, after any
\* interruption and without the licensed input.
RollbackConverges ==
    (world = "alone" /\ withdrawn /\ status # "none") ~> (status = "rolled_back")
=============================================================================
