-------------------------- MODULE LicensedCopyProofs --------------------------
(***************************************************************************)
(* Proofs about LicensedCopy for any initial destinations, any worlds, any *)
(* edits by other programs and any number of them, and any number of exits.*)
(***************************************************************************)
EXTENDS LicensedCopy, TLAPS

\* The journal's status tells which command can be running.
Control ==
    /\ status \in {"none", "rolled_back"} => pc = "idle"
    /\ status = "rolled_back" => withdrawn
    /\ pc \in InstallSteps => ~withdrawn
    /\ pc = "read" => status \in {"planned", "installed"}
    /\ pc \in RollbackSteps => withdrawn

\* Past its first look at the destination no command works on a kept file, except
\* to record that it is rolled back.
NotKept ==
    pc \in (InstallSteps \ {"read"}) \cup QuarantineSteps \cup (RollbackSteps \ {"rb_read", "rb_mark"})
        => ~Keep

\* The stage that is being filled is its own; the previous file is under the
\* backup name before the copy is published.
Prepared ==
    /\ pc = "fill" => files["stage"] = "partial"
    /\ pc \in {"final", "publish", "verify", "mark"} /\ Replace => files["backup"] = before

\* Where nobody writes while a command runs, what it has seen is still so.
Undisturbed ==
    /\ pc = "mark" => files["dest"] = "source"
    /\ pc \in {"rb_held", "rb_restore"} => Free("dest")
    /\ pc = "rb_mark" => files["dest"] = before \/ (Keep /\ MatchesSource("dest"))

\* Where nobody else writes at all, the status is true between commands too.
Alone ==
    /\ status \in {"none", "rolled_back"} /\ ~Keep => files["dest"] = before
    /\ status = "installed" /\ ~Keep /\ ~withdrawn => files["dest"] = "source"
    /\ pc \in InstallSteps \ {"read"} => status = "planned"
    /\ pc \in QuarantineSteps => withdrawn \/ status = "planned"

IInv ==
    /\ TypeOK /\ Control /\ NotKept /\ Prepared
    /\ world # "racing" => Undisturbed
    /\ world = "alone" => Alone

-----------------------------------------------------------------------------
\* The copy is only planned.
LEMMA InitInv == Init => IInv
<1> SUFFICES ASSUME Init PROVE IInv
  OBVIOUS
<1>1. TypeOK
  <2>1. sourceOk \in BOOLEAN /\ withdrawn \in BOOLEAN
    BY Zenon DEF Init
  <2> QED BY <2>1, ConstantsAssumption DEF Init, TypeOK, Names, Contents
<1> QED BY <1>1 DEF Init, IInv, Control, NotKept, Prepared, Undisturbed, Alone, InstallSteps,
        RollbackSteps, QuarantineSteps, Names

\* Every step keeps the types.
LEMMA TypeStep == ASSUME TypeOK, Next PROVE TypeOK'
<1>1. files' \in [Names -> Contents] /\ evidence' \subseteq Contents
  <2>1. files \in [Names -> Contents] /\ evidence \subseteq Contents
    BY DEF TypeOK
  <2>2. \/ UNCHANGED <<files, evidence>>
        \/ CopyStage \/ FillStage \/ Edit
        \/ \E a, b \in Names : Rename(a, b) /\ UNCHANGED evidence
    <3> USE DEF Disk, Refuse, Decide, Conclude, Names
    <3>1. CASE Install \/ Rollback \/ QuarantineMark \/ Withdraw \/ SourceLost \/ Crash \/ Edit
      BY <3>1 DEF Install, Rollback, QuarantineMark, Withdraw, SourceLost, Crash
    <3>2. CASE InstallStep
      BY <3>2 DEF InstallStep, InstallRead, SourcePresent, BackUp, MoveToBackup, BackedUp,
         InstallFinal, PublishStage, VerifyPublished, InstallMark
    <3>3. CASE RollbackStep \/ Quarantine
      BY <3>3 DEF RollbackStep, RollbackRead, RollbackHold, RollbackMove, RollbackHeld,
           RollbackRestore, RollbackVerify,
         RollbackMark, Quarantine
    <3> QED BY <3>1, <3>2, <3>3 DEF Next, Command
  <2>3. ASSUME NEW a \in Names, NEW b \in Names, Rename(a, b) PROVE files' \in [Names -> Contents]
    BY <2>1, <2>3 DEF Rename, Contents
  <2>4. CASE CopyStage \/ FillStage
    <3>1. /\ \/ UNCHANGED files
             \/ \E c \in {"partial", "absent", "source"} : files' = [files EXCEPT !["stage"] = c]
          /\ UNCHANGED evidence \/ evidence' = evidence \cup {files["stage"]}
      BY <2>4 DEF CopyStage, FillStage, Disk, Refuse, Decide
    <3>2. files["stage"] \in Contents
      BY <2>1 DEF Names
    <3>3. evidence' \subseteq Contents
      BY <2>1, <3>1, <3>2
    <3>4. files' \in [Names -> Contents]
      BY <2>1, <3>1 DEF Contents
    <3> QED BY <3>3, <3>4
  <2>5. CASE Edit
    BY <2>1, <2>5, ConstantsAssumption DEF Edit, Names, Contents
  <2> QED BY <2>1, <2>2, <2>3, <2>4, <2>5
<1>2. status' \in {"none"} \cup Statuses
      /\ pc' \in {"idle"} \cup InstallSteps \cup RollbackSteps \cup QuarantineSteps
  <2> USE DEF TypeOK, Disk, Refuse, Decide, Conclude, Goto, Write, Statuses, InstallSteps,
          RollbackSteps, QuarantineSteps
  <2>2. CASE InstallStep
    BY <2>2 DEF InstallStep, InstallRead, SourcePresent, CopyStage, FillStage, BackUp,
         MoveToBackup, BackedUp,
       InstallFinal, PublishStage, VerifyPublished, InstallMark
  <2>3. CASE RollbackStep
    BY <2>3 DEF RollbackStep, RollbackRead, RollbackHold, RollbackMove, RollbackHeld,
         RollbackRestore, RollbackVerify, RollbackMark
  <2>4. CASE Install \/ Rollback \/ Quarantine \/ QuarantineMark
    BY <2>4 DEF Install, Rollback, Quarantine, QuarantineMark
  <2>5. CASE Withdraw \/ SourceLost \/ Crash \/ Edit
    BY <2>5 DEF Withdraw, SourceLost, Crash, Edit
  <2> QED BY <2>2, <2>3, <2>4, <2>5 DEF Next, Command
<1>3. UNCHANGED <<before, world>>
  BY DEF Parent, Refuse, Decide, Conclude, Next, Command, InstallStep, InstallRead, SourcePresent,
     CopyStage, FillStage, BackUp, MoveToBackup, BackedUp, InstallFinal, PublishStage,
     VerifyPublished, InstallMark,
     RollbackStep, RollbackRead, RollbackHold, RollbackMove, RollbackHeld, RollbackRestore,
     RollbackVerify, RollbackMark,
     Install, Rollback, Quarantine, QuarantineMark, Withdraw, SourceLost, Crash, Edit
<1>4. /\ UNCHANGED sourceOk \/ sourceOk' = FALSE
      /\ UNCHANGED withdrawn \/ withdrawn' = TRUE
  BY DEF Parent, Refuse, Decide, Conclude, Next, Command, InstallStep, InstallRead, SourcePresent,
     CopyStage, FillStage, BackUp, MoveToBackup, BackedUp, InstallFinal, PublishStage,
     VerifyPublished, InstallMark,
     RollbackStep, RollbackRead, RollbackHold, RollbackMove, RollbackHeld, RollbackRestore,
     RollbackVerify, RollbackMark,
     Install, Rollback, Quarantine, QuarantineMark, Withdraw, SourceLost, Crash, Edit
<1>5. sourceOk' \in BOOLEAN /\ withdrawn' \in BOOLEAN
  BY <1>4, Zenon DEF TypeOK
<1>6. /\ UNCHANGED edits \/ (edits < MaxEdits /\ edits' = edits + 1)
      /\ UNCHANGED crashes \/ (crashes < MaxCrashes /\ crashes' = crashes + 1)
  BY DEF bounds, Refuse, Decide, Conclude, Next, Command, InstallStep, InstallRead, SourcePresent,
     CopyStage, FillStage, BackUp, MoveToBackup, BackedUp, InstallFinal, PublishStage,
     VerifyPublished, InstallMark,
     RollbackStep, RollbackRead, RollbackHold, RollbackMove, RollbackHeld, RollbackRestore,
     RollbackVerify, RollbackMark,
     Install, Rollback, Quarantine, QuarantineMark, Withdraw, SourceLost, Crash, Edit
<1>7. edits' \in 0..MaxEdits /\ crashes' \in 0..MaxCrashes
  BY <1>6, ConstantsAssumption DEF TypeOK
<1> QED BY <1>1, <1>2, <1>3, <1>5, <1>7 DEF TypeOK

\* What the journal, the running command and the names say of each other stays so.
LEMMA InvStep == ASSUME IInv, [Next]_vars PROVE IInv'
<1>1. CASE UNCHANGED vars
  BY <1>1 DEF vars, bounds, IInv, TypeOK, Control, NotKept, Prepared, Undisturbed, Alone, Keep,
       Replace,
     Free, MatchesSource
<1>2. CASE Next
  <2>1. TypeOK'
    BY <1>2, TypeStep DEF IInv
  <2>2. files \in [Names -> Contents] /\ before \in {"absent", "previous", "source", "mode"}
    BY DEF IInv, TypeOK
  <2> DEFINE Rest == /\ Control /\ NotKept /\ Prepared
                     /\ world # "racing" => Undisturbed
                     /\ world = "alone" => Alone
  <2>3. Rest
    BY DEF IInv
  <2> SUFFICES Rest'
    BY <2>1 DEF IInv
  <2> USE <2>2, <2>3 DEF Control, NotKept, Prepared, Undisturbed, Alone, Keep, Replace, Free,
          MatchesSource, Names, InstallSteps, RollbackSteps, QuarantineSteps,
          Parent, Disk, Refuse, Decide, Conclude, Goto, Write, Rename
  <2>4. CASE Install \/ Rollback
    BY <2>4 DEF Install, Rollback
  <2>5. CASE InstallRead
    <3>1. CASE Refuse
      BY <3>1
    <3>2. CASE Conclude("installed")
      BY <2>5, <3>2 DEF InstallRead, SourcePresent
    <3>3. CASE Decide("stage")
      BY <2>5, <3>3 DEF InstallRead, SourcePresent
    <3>4. CASE Decide("quarantine")
      BY <2>5, <3>4 DEF InstallRead, SourcePresent
    <3> QED BY <2>5, <3>1, <3>2, <3>3, <3>4 DEF InstallRead, SourcePresent
  <2>6. CASE CopyStage \/ FillStage
    BY <2>6 DEF CopyStage, FillStage
  <2>7. CASE BackUp \/ MoveToBackup \/ BackedUp
    BY <2>7 DEF BackUp, MoveToBackup, BackedUp
  <2>8. CASE InstallFinal
    BY <2>8 DEF InstallFinal, SourcePresent
  <2>9. CASE PublishStage \/ VerifyPublished \/ InstallMark
    BY <2>9 DEF PublishStage, VerifyPublished, InstallMark
  <2>10. CASE Quarantine \/ QuarantineMark
    BY <2>10 DEF Quarantine, QuarantineMark
  <2>11. CASE RollbackRead
    BY <2>11 DEF RollbackRead
  <2>12. CASE RollbackHold \/ RollbackMove \/ RollbackHeld
    BY <2>12 DEF RollbackHold, RollbackMove, RollbackHeld
  <2>13. CASE RollbackRestore
    BY <2>13 DEF RollbackRestore
  <2>14. CASE RollbackVerify \/ RollbackMark
    BY <2>14 DEF RollbackVerify, RollbackMark
  <2>15. CASE Withdraw \/ SourceLost \/ Crash
    BY <2>15 DEF Withdraw, SourceLost, Crash
  <2>16. CASE Edit
    BY <2>16 DEF Edit
  <2> QED
    BY <1>2, <2>4, <2>5, <2>6, <2>7, <2>8, <2>9, <2>10, <2>11, <2>12, <2>13, <2>14, <2>15, <2>16
       DEF Next, Command, InstallStep, RollbackStep
<1> QED BY <1>1, <1>2

-----------------------------------------------------------------------------
(* The theorems *)

\* The invariant holds of every copy.
THEOREM Inductive == Spec => []IInv
BY InitInv, InvStep, PTL DEF Spec

\* Who writes "rolled_back" and "installed".
LEMMA StatusStep ==
  ASSUME IInv, Next, status' # status
  PROVE  \/ status = "none" /\ status' = "planned" /\ Install
         \/ InstallRead /\ status' = "installed"
         \/ InstallFinal /\ status' = "installed"
         \/ InstallMark /\ status' = "installed"
         \/ RollbackMark /\ status' = "rolled_back"
         \/ /\ pc \in QuarantineSteps \cup {"backed", "rb_verify"}
            /\ status' = "recovery_required"
            /\ UNCHANGED <<files, withdrawn>>
<1> USE DEF Disk, Parent, Refuse, Decide, Conclude, Write, QuarantineSteps
<1>1. CASE InstallStep
  BY <1>1 DEF InstallStep, InstallRead, SourcePresent, CopyStage, FillStage, BackUp, MoveToBackup,
       BackedUp,
     InstallFinal, PublishStage, VerifyPublished, InstallMark
<1>2. CASE RollbackStep
  BY <1>2 DEF RollbackStep, RollbackRead, RollbackHold, RollbackMove, RollbackHeld,
       RollbackRestore, RollbackVerify, RollbackMark
<1>3. CASE Install \/ Rollback \/ Quarantine \/ QuarantineMark
  BY <1>3 DEF Install, Rollback, Quarantine, QuarantineMark
<1>4. CASE Withdraw \/ SourceLost \/ Crash \/ Edit
  BY <1>4 DEF Withdraw, SourceLost, Crash, Edit
<1> QED BY <1>1, <1>2, <1>3, <1>4 DEF Next, Command

\* What the copy's journal claims is so when it is written, unless another
\* program writes the destination while the command runs.
THEOREM JournalIsTrue == Spec => JournalTellsTheTruth
<1>1. ASSUME IInv, Next, world # "racing", Becomes("rolled_back")
      PROVE  files["dest"] = before \/ (Keep /\ MatchesSource("dest"))
  BY <1>1, StatusStep DEF Becomes, RollbackMark, IInv, Undisturbed
<1>2. ASSUME IInv, Next, world # "racing", Becomes("installed")
      PROVE  /\ files["dest"] = "source" \/ (Keep /\ MatchesSource("dest"))
             /\ Replace => files["backup"] = before
  <2>1. CASE InstallRead
    BY <1>2, <2>1 DEF Becomes, InstallRead, SourcePresent, Refuse, Decide, Disk, Keep, Replace
  <2>2. CASE InstallFinal
    BY <1>2, <2>2 DEF Becomes, InstallFinal, SourcePresent, Refuse, Decide, Disk, IInv, Prepared
  <2>3. CASE InstallMark
    BY <1>2, <2>3 DEF InstallMark, IInv, Prepared, Undisturbed
  <2> QED BY <1>2, <2>1, <2>2, <2>3, StatusStep DEF Becomes
<1>3. ASSUME IInv, IInv', [Next]_vars
      PROVE  [/\ TypeOK'
              /\ world # "racing" /\ Becomes("rolled_back") =>
                   \/ files["dest"] = before
                   \/ Keep /\ MatchesSource("dest")
              /\ world # "racing" /\ Becomes("installed") =>
                   /\ files["dest"] = "source" \/ (Keep /\ MatchesSource("dest"))
                   /\ Replace => files["backup"] = before]_vars
  BY <1>1, <1>2, <1>3 DEF IInv
<1> QED BY <1>3, Inductive, PTL DEF Spec, JournalTellsTheTruth

\* A rename onto a free name loses nothing.
LEMMA RenameKeeps ==
  ASSUME TypeOK, NEW a \in Names, NEW b \in Names, a # b, Free(b), Rename(a, b), UNCHANGED evidence
  PROVE  Held \subseteq Held'
<1>1. files \in [Names -> Contents]
  BY DEF TypeOK
<1>2. files' = [files EXCEPT ![a] = "absent", ![b] = files[a]]
  BY DEF Rename
<1>3. ASSUME NEW n \in Names, files[n] # "absent" PROVE \E m \in Names : files'[m] = files[n]
  <2>1. CASE n = a
    BY <1>1, <1>2, <2>1
  <2>2. CASE n # a
    BY <1>1, <1>2, <1>3, <2>2 DEF Free
  <2> QED BY <2>1, <2>2
<1> QED BY <1>3 DEF Held

\* No file under one of the five names is overwritten or deleted by the copy, and
\* a kept file is not even moved.
THEOREM NothingLost == Spec => NoFileLost
<1>1. ASSUME IInv, Next, edits' = edits
      PROVE  Held \ {"partial"} \subseteq Held' /\ (Keep => files' = files)
  <2>1. TypeOK /\ NotKept /\ Prepared /\ files \in [Names -> Contents]
    BY <1>1 DEF IInv, TypeOK
  <2>2. CASE UNCHANGED <<files, evidence>>
    BY <2>2 DEF Held
  <2>3. ASSUME NEW a \in Names, NEW b \in Names, a # b, Free(b), Rename(a, b), UNCHANGED evidence,
       ~Keep
        PROVE  Held \ {"partial"} \subseteq Held' /\ (Keep => files' = files)
    BY <2>1, <2>3, RenameKeeps
  <2>4. CASE CopyStage \/ FillStage
    <3>1. ~Keep
      BY <2>1, <2>4 DEF CopyStage, FillStage, NotKept, InstallSteps
    <3>2. CASE CopyStage
      <4>1. ASSUME NEW n \in Names, n # "stage" PROVE files'[n] = files[n]
        BY <2>1, <3>2, <4>1 DEF CopyStage, Refuse, Decide, Disk
      <4>2. files["stage"] = "absent" \/ files'["stage"] = files["stage"] \/ files["stage"] \in evidence'
        BY <3>2 DEF CopyStage, Free, Refuse, Decide, Disk
      <4>3. evidence \subseteq evidence'
        BY <3>2 DEF CopyStage, Refuse, Decide, Disk
      <4> QED BY <3>1, <4>1, <4>2, <4>3 DEF Held
    <3>3. CASE FillStage
      <4>1. files["stage"] = "partial"
        BY <2>1, <3>3 DEF FillStage, Prepared
      <4>2. ASSUME NEW n \in Names, n # "stage" PROVE files'[n] = files[n]
        BY <2>1, <3>3, <4>2 DEF FillStage, Refuse, Disk
      <4>3. evidence' = evidence
        BY <3>3 DEF FillStage, Refuse, Disk
      <4> QED BY <3>1, <4>1, <4>2, <4>3 DEF Held
    <3> QED BY <2>4, <3>2, <3>3
  <2> USE <2>1, <2>2, <2>3 DEF NotKept, Names, Disk, Refuse, Decide, Conclude, InstallSteps,
          RollbackSteps, QuarantineSteps
  <2>5. CASE BackUp \/ MoveToBackup
    BY <2>5 DEF BackUp, MoveToBackup
  <2>6. CASE PublishStage
    BY <2>6 DEF PublishStage
  <2>7. CASE Quarantine
    BY <2>7 DEF Quarantine
  <2>8. CASE RollbackHold \/ RollbackMove \/ RollbackHeld
    BY <2>8 DEF RollbackHold, RollbackMove, RollbackHeld
  <2>9. CASE RollbackRestore
    BY <2>9 DEF RollbackRestore
  <2>10. CASE InstallRead \/ BackedUp \/ InstallFinal \/ VerifyPublished \/ InstallMark
              \/ QuarantineMark \/ RollbackRead \/ RollbackVerify \/ RollbackMark
    BY <2>10 DEF InstallRead, SourcePresent, BackedUp, InstallFinal, VerifyPublished, InstallMark,
       QuarantineMark, RollbackRead, RollbackVerify, RollbackMark
  <2>11. CASE Install \/ Rollback \/ Withdraw \/ SourceLost \/ Crash
    BY <2>11 DEF Install, Rollback, Withdraw, SourceLost, Crash
  <2>12. ~Edit
    BY <1>1 DEF Edit, TypeOK
  <2> QED BY <1>1, <2>4, <2>5, <2>6, <2>7, <2>8, <2>9, <2>10, <2>11, <2>12
          DEF Next, Command, InstallStep, RollbackStep
<1>2. ASSUME IInv, [Next]_vars
      PROVE  [edits' = edits =>
                /\ Held \ {"partial"} \subseteq Held'
                /\ Keep => files' = files]_vars
  BY <1>1, <1>2
<1> QED BY <1>2, Inductive, PTL DEF Spec, NoFileLost

\* Left alone, the copy changes the destination only between the journal's first
\* write and its last, and not while the copy stands installed.
LEMMA DestStep ==
  ASSUME IInv, Next, world = "alone", files'["dest"] # files["dest"]
  PROVE  /\ UNCHANGED <<status, withdrawn>> /\ status \notin {"none", "rolled_back"}
         /\ status = "installed" => withdrawn
<1>1. Control /\ Alone /\ files \in [Names -> Contents]
  BY DEF IInv, TypeOK
<1> USE <1>1 DEF Control, Alone, Names, Disk, Parent, Refuse, Decide, Conclude, InstallSteps,
        RollbackSteps, QuarantineSteps
<1>2. CASE CopyStage \/ FillStage
  BY <1>2 DEF CopyStage, FillStage
<1>3. CASE BackUp \/ MoveToBackup \/ PublishStage
  BY <1>3 DEF BackUp, MoveToBackup, PublishStage
<1>4. CASE Quarantine
  BY <1>4 DEF Quarantine
<1>5. CASE RollbackHold \/ RollbackMove \/ RollbackHeld \/ RollbackRestore
  BY <1>5 DEF RollbackHold, RollbackMove, RollbackHeld, RollbackRestore
<1>6. CASE InstallRead \/ BackedUp \/ InstallFinal \/ VerifyPublished \/ InstallMark
           \/ QuarantineMark \/ RollbackRead \/ RollbackVerify \/ RollbackMark
  BY <1>6 DEF InstallRead, SourcePresent, BackedUp, InstallFinal, VerifyPublished, InstallMark,
     QuarantineMark, RollbackRead, RollbackVerify, RollbackMark
<1>7. CASE Install \/ Rollback \/ Withdraw \/ SourceLost \/ Crash
  BY <1>7 DEF Install, Rollback, Withdraw, SourceLost, Crash
<1>8. ~Edit
  BY DEF Edit
<1> QED BY <1>2, <1>3, <1>4, <1>5, <1>6, <1>7, <1>8 DEF Next, Command, InstallStep, RollbackStep

\* The parent withdraws once, between two commands.
LEMMA WithdrawnStep ==
  ASSUME Next, withdrawn' # withdrawn PROVE UNCHANGED <<files, status>> /\ ~withdrawn /\ withdrawn'
BY DEF Disk, Parent, Refuse, Decide, Conclude, Next, Command, InstallStep, InstallRead,
     SourcePresent,
   CopyStage, FillStage, BackUp, MoveToBackup, BackedUp, InstallFinal, PublishStage,
   VerifyPublished, InstallMark,
   RollbackStep, RollbackRead, RollbackHold, RollbackMove, RollbackHeld, RollbackRestore,
   RollbackVerify, RollbackMark,
   Install, Rollback, Quarantine, QuarantineMark, Withdraw, SourceLost, Crash, Edit

\* The copy implements OwnedChange where no other program writes the destination.
THEOREM CopyImplements == Spec => CopyIsOwnedChange
<1> USE DEF ChangeSt
<1>1. Init => Change!Init
  BY DEF Init, Change!Init, Names
<1>2. ASSUME IInv, IInv', [Next]_vars PROVE [Change!Next]_(Change!vars)
  <2> USE <1>2 DEF Change!Next, Change!vars, Change!Begin, Change!Change,
          Change!Commit, Change!Withdraw, Change!Undo
  <2>1. CASE UNCHANGED vars
    BY <2>1 DEF vars, Keep
  <2>2. CASE Next
    <3>1. UNCHANGED <<world, before>>
      BY <2>2 DEF Parent, Refuse, Decide, Conclude, Next, Command, InstallStep, InstallRead,
         SourcePresent, CopyStage, FillStage, BackUp, MoveToBackup, BackedUp, InstallFinal,
         PublishStage,
         VerifyPublished, InstallMark, RollbackStep, RollbackRead, RollbackHold, RollbackMove,
         RollbackHeld, RollbackRestore,
         RollbackVerify, RollbackMark, Install, Rollback, Quarantine, QuarantineMark, Withdraw,
         SourceLost, Crash, Edit
    <3>2. CASE world # "alone"
      BY <3>1, <3>2
    <3>3. CASE world = "alone" /\ files'["dest"] # files["dest"]
      <4>1. /\ UNCHANGED <<status, withdrawn>> /\ status \notin {"none", "rolled_back"}
            /\ status = "installed" => withdrawn
        BY <2>2, <3>3, DestStep
      <4> QED BY <3>1, <3>3, <4>1 DEF Keep
    <3>4. CASE world = "alone" /\ files'["dest"] = files["dest"] /\ status' = status
      <4>1. UNCHANGED withdrawn \/ (~withdrawn /\ withdrawn')
        BY <2>2, WithdrawnStep
      <4> QED BY <3>1, <3>4, <4>1 DEF Keep
    <3>5. CASE world = "alone" /\ files'["dest"] = files["dest"] /\ status' # status
      <4>1. UNCHANGED withdrawn
        BY <2>2, <3>5, WithdrawnStep
      <4>2. Control /\ Control' /\ Alone /\ Alone' /\ TypeOK /\ TypeOK'
        BY <3>1, <3>5 DEF IInv
      <4>3. status' = "rolled_back" => Keep' \/ files'["dest"] = before'
        BY <4>2 DEF Alone
      <4> QED BY <2>2, <3>1, <3>5, <4>1, <4>2, <4>3, StatusStep DEF Keep, Control, TypeOK, Statuses,
              InstallRead, InstallFinal, InstallMark, RollbackMark, InstallSteps, RollbackSteps,
              QuarantineSteps
    <3> QED BY <2>2, <3>2, <3>3, <3>4, <3>5
  <2> QED BY <2>1, <2>2
<1> QED BY Inductive, <1>1, <1>2, PTL DEF Spec, CopyIsOwnedChange, Change!Spec
=============================================================================
