------------------------ MODULE ToolPublicationProofs ------------------------
(***************************************************************************)
(* What holds of the tool publication for any number of directories, of    *)
(* crashes, and whatever other programs do and whenever they do it.        *)
(***************************************************************************)
EXTENDS ToolPublication, TLAPS

\* A running command past its first check works on a durable record.
Recorded == pc \notin {"idle", "plan"} => journal # NoJournal

\* The stage is ours until something is recorded: only a withdrawal, which
\* needs a record, can bring another directory there.
StageIsOurs == journal = NoJournal => at["stage"] \in {Staged, Absent}

\* The directory the publisher has in hand is the one it staged.
HeldIsOurs == pc \in {"plan", "rename", "verify"} => held = Staged

\* rollback_composed reaches its last write with the tool back in the stage.
CommitsFromStage == pc = "rb_commit" => at["stage"] = journal.ino

OnlyOursDeleted == deleted \subseteq {Staged}

IInv ==
    /\ TypeOK
    /\ OwnsOnlyItsStage
    /\ Recorded
    /\ StageIsOurs
    /\ HeldIsOurs
    /\ CommitsFromStage
    /\ OnlyOursDeleted

-----------------------------------------------------------------------------
\* The invariant holds before anything is recorded.
LEMMA InitInv == Init => IInv
  BY ConstantsAssumption DEF Init, IInv, TypeOK, OwnsOnlyItsStage, Recorded,
     StageIsOurs, HeldIsOurs, CommitsFromStage, OnlyOursDeleted, Names, Phases,
     Trees, PublishSteps, RollbackSteps

\* A refused command leaves everything but its own progress as it was.
LEMMA RefuseInv == ASSUME IInv, Refuse PROVE IInv'
  BY ConstantsAssumption DEF Refuse, IInv, TypeOK, OwnsOnlyItsStage, Recorded,
     StageIsOurs, HeldIsOurs, CommitsFromStage, OnlyOursDeleted, Files, Goto

\* Every step of publish_composed preserves it.
LEMMA PublishInv == ASSUME IInv, Publish PROVE IInv'
<1> USE ConstantsAssumption DEF IInv, TypeOK, OwnsOnlyItsStage, Recorded,
        StageIsOurs, HeldIsOurs, CommitsFromStage, OnlyOursDeleted, Files, Goto,
        Phases, Names, PublishSteps, RollbackSteps
<1>1. CASE PublishFirst
  BY <1>1 DEF PublishFirst, Approved, Exists
<1>2. CASE PublishResume
  BY <1>2 DEF PublishResume
<1>3. CASE RecordIntent
  <2>1. CASE Refuse
    BY <2>1, RefuseInv
  <2>2. CASE ~Refuse
    BY <1>3, <2>2 DEF RecordIntent
  <2> QED BY <2>1, <2>2
<1>4. CASE PublishFound
  BY <1>4, RefuseInv DEF PublishFound
<1>5. CASE PublishAbsent
  <2>1. CASE Refuse
    BY <2>1, RefuseInv
  <2>2. CASE ~Refuse
    BY <1>5, <2>2 DEF PublishAbsent, RecordMatches
  <2> QED BY <2>1, <2>2
<1>6. CASE PublishRename
  <2>1. CASE Refuse
    BY <2>1, RefuseInv
  <2>2. CASE ~Refuse
    BY <1>6, <2>2 DEF PublishRename, Moved, Exists
  <2> QED BY <2>1, <2>2
<1>7. CASE PublishVerify
  BY <1>7 DEF PublishVerify
<1>8. CASE PublishFsyncFails
  BY <1>8 DEF PublishFsyncFails
<1>9. CASE PublishRecheck
  BY <1>9, RefuseInv DEF PublishRecheck
<1>10. CASE PublishCommit
  BY <1>10 DEF PublishCommit, WithPhase
<1> QED
  BY <1>1, <1>2, <1>3, <1>4, <1>5, <1>6, <1>7, <1>8, <1>9, <1>10 DEF Publish

\* Every step of rollback_composed preserves it.
LEMMA RollbackInv == ASSUME IInv, Rollback PROVE IInv'
<1> USE ConstantsAssumption DEF IInv, TypeOK, OwnsOnlyItsStage, Recorded,
        StageIsOurs, HeldIsOurs, CommitsFromStage, OnlyOursDeleted, Files, Goto,
        Phases, Names, PublishSteps, RollbackSteps
<1>1. CASE RollbackPublished
  BY <1>1 DEF RollbackPublished
<1>2. CASE RollbackStaged
  BY <1>2 DEF RollbackStaged, RecordMatches
<1>3. CASE RollbackIntent
  BY <1>3 DEF RollbackIntent, WithPhase
<1>4. CASE RollbackRecheck
  BY <1>4, RefuseInv DEF RollbackRecheck
<1>5. CASE RollbackRename
  <2>1. CASE Refuse
    BY <2>1, RefuseInv
  <2>2. CASE ~Refuse
    BY <1>5, <2>2 DEF RollbackRename, Moved, Exists
  <2> QED BY <2>1, <2>2
<1>6. CASE RollbackVerify
  <2>1. CASE Refuse
    BY <2>1, RefuseInv
  <2>2. CASE ~Refuse
    BY <1>6, <2>2 DEF RollbackVerify, RecordMatches
  <2> QED BY <2>1, <2>2
<1>7. CASE RollbackCommit
  BY <1>7 DEF RollbackCommit, WithPhase
<1> QED BY <1>1, <1>2, <1>3, <1>4, <1>5, <1>6, <1>7 DEF Rollback

\* So do process exits and the steps of other programs.
LEMMA EnvironmentInv == ASSUME IInv, Crash \/ Foreign PROVE IInv'
<1> USE ConstantsAssumption DEF IInv, TypeOK, OwnsOnlyItsStage, Recorded,
        StageIsOurs, HeldIsOurs, CommitsFromStage, OnlyOursDeleted, Files, Goto,
        Phases, Names, PublishSteps, RollbackSteps
<1>1. CASE Crash
  BY <1>1 DEF Crash
<1>2. CASE ForeignInstall
  BY <1>2 DEF ForeignInstall, Elsewhere
<1>3. CASE ForeignRemove
  BY <1>3 DEF ForeignRemove
<1>4. CASE ForeignEdit
  BY <1>4 DEF ForeignEdit, Trees
<1>5. CASE ForeignDropStage
  BY <1>5 DEF ForeignDropStage
<1> QED BY <1>1, <1>2, <1>3, <1>4, <1>5 DEF Foreign

\* The inductive invariant of the publication.
THEOREM Invariance == Spec => []IInv
<1>1. IInv /\ [Next]_vars => IInv'
  <2> SUFFICES ASSUME IInv, [Next]_vars PROVE IInv'
    OBVIOUS
  <2>1. CASE Next
    BY <2>1, PublishInv, RollbackInv, EnvironmentInv DEF Next
  <2>2. CASE UNCHANGED vars
    BY <2>2 DEF vars, IInv, TypeOK, OwnsOnlyItsStage, Recorded, StageIsOurs,
       HeldIsOurs, CommitsFromStage, OnlyOursDeleted
  <2> QED BY <2>1, <2>2
<1> QED BY InitInv, <1>1, PTL DEF Spec

\* The state is well typed whatever interrupts the commands.
THEOREM TypeCorrect == Spec => []TypeOK
  BY Invariance, PTL DEF IInv

\* The journal is never bound to a directory of another program.
THEOREM Ownership == Spec => []OwnsOnlyItsStage
  BY Invariance, PTL DEF IInv

\* "rolled_back" is written only with the transaction's own directory back in
\* its private stage: CommitsFromStage is what the write relies on.
THEOREM WithdrawalIsPrivate == Spec => RolledBackIsPrivate
<1>1. ASSUME IInv, [Next]_vars
      PROVE  [Becomes("rolled_back") => at["stage"] = Staged]_vars
  <2> SUFFICES ASSUME Next, Becomes("rolled_back") PROVE at["stage"] = Staged
    BY <1>1 DEF vars, Becomes
  <2>1. journal \in [phase : Phases, ino : Inodes]
    BY <1>1 DEF IInv, TypeOK, Becomes
  <2>2. ~UNCHANGED journal
    BY DEF Becomes
  <2>3. \/ RecordIntent /\ ~Refuse
        \/ PublishCommit \/ RollbackIntent \/ RollbackCommit
    BY <2>2 DEF Next, Publish, Rollback, Foreign, PublishFirst, PublishResume,
       RecordIntent, PublishFound, PublishAbsent, PublishRename, PublishVerify,
       PublishFsyncFails, PublishRecheck, RollbackPublished, RollbackStaged,
       RollbackRecheck, RollbackRename, RollbackVerify, Crash, ForeignInstall,
       ForeignRemove, ForeignEdit, ForeignDropStage, Refuse
  <2>4. pc = "rb_commit"
    BY <2>1, <2>3 DEF Becomes, RecordIntent, PublishCommit, RollbackIntent,
       RollbackCommit, WithPhase
  <2> QED BY <1>1, <2>4 DEF IInv, CommitsFromStage, OwnsOnlyItsStage, Becomes
<1> QED BY Invariance, <1>1, PTL DEF Spec, RolledBackIsPrivate

\* No directory is overwritten or lost by a rename of the publisher, and none
\* but its own is ever deleted.
THEOREM PublisherLosesNothing == Spec => NothingLost
<1> USE ConstantsAssumption DEF Files, Goto, Placed, Exists
<1>1. ASSUME IInv, IInv', Next, pc' # pc
      PROVE  Placed \subseteq Placed' /\ deleted' \subseteq {Staged}
  <2>1. deleted' \subseteq {Staged}
    BY <1>1 DEF IInv, OnlyOursDeleted
  <2>2. CASE UNCHANGED Files
    BY <2>1, <2>2
  <2>3. CASE PublishRename /\ ~Refuse
    BY <2>1, <2>3, <1>1 DEF PublishRename, Moved, IInv, TypeOK, Names
  <2>4. CASE PublishVerify
    BY <2>1, <2>4, <1>1 DEF PublishVerify, IInv, TypeOK, Names
  <2>5. CASE PublishFsyncFails
    BY <2>1, <2>5, <1>1 DEF PublishFsyncFails, RecordMatches, IInv, TypeOK, Names
  <2>6. CASE RollbackRename /\ ~Refuse
    BY <2>1, <2>6, <1>1 DEF RollbackRename, Moved, IInv, TypeOK, Names
  <2>7. Foreign => pc' = pc
    BY DEF Foreign, ForeignInstall, ForeignRemove, ForeignEdit, ForeignDropStage
  <2>8. \/ UNCHANGED Files
        \/ PublishRename /\ ~Refuse
        \/ PublishVerify \/ PublishFsyncFails
        \/ RollbackRename /\ ~Refuse
    BY <1>1, <2>7 DEF Next, Publish, Rollback, Refuse, PublishFirst,
       PublishResume, RecordIntent, PublishFound, PublishAbsent, PublishRecheck,
       PublishCommit, RollbackPublished, RollbackStaged, RollbackIntent,
       RollbackRecheck, RollbackVerify, RollbackCommit, Crash
  <2> QED BY <2>2, <2>3, <2>4, <2>5, <2>6, <2>8
<1>2. ASSUME IInv, IInv', [Next]_vars
      PROVE  [pc' # pc => Placed \subseteq Placed' /\ deleted' \subseteq {Staged}]_vars
  BY <1>1, <1>2 DEF vars
<1> QED BY Invariance, <1>2, PTL DEF Spec, NothingLost

-----------------------------------------------------------------------------
(* Left alone, the publication implements OwnedChange.                       *)

\* The phase under which each step of a command runs.
PhaseOfStep ==
    /\ pc = "plan" => journal = NoJournal
    /\ pc \in {"publish", "commit"} => journal.phase \in {"planned", "published"}
    /\ pc \in {"rename", "verify", "recheck"} => journal.phase = "planned"
    /\ pc = "rb_intent" => journal.phase # "rolled_back"
    /\ pc \in {"rb_recheck", "rb_rename", "rb_verify"} =>
          journal.phase = "rolling_back"
    /\ pc = "rb_commit" => journal.phase \in {"planned", "rolling_back"}

\* Where the staged directory is, as long as nobody else moves or edits it.
OnePlace ==
    world = "alone" =>
        /\ tree[Staged] = "approved"
        /\ at["stage"] = Staged => at["dest"] # Staged
        /\ pc = "verify" => at["dest"] = Staged
        /\ journal = NoJournal => at["dest"] # Staged
        /\ (journal # NoJournal /\ journal.phase = "rolled_back") =>
              at["dest"] # Staged

Refined == IInv /\ PhaseOfStep /\ OnePlace

\* The added conjuncts hold at the start and survive every step.
LEMMA InitRefined == Init => Refined
  BY InitInv, ConstantsAssumption DEF Init, Refined, PhaseOfStep, OnePlace

\* A refusal changes neither journal nor directories.
LEMMA RefuseRefined == ASSUME Refined, Refuse PROVE PhaseOfStep' /\ OnePlace'
  BY DEF Refined, Refuse, PhaseOfStep, OnePlace, Files, Goto

\* Every step of publish_composed.
LEMMA PublishRefined == ASSUME Refined, Publish PROVE PhaseOfStep' /\ OnePlace'
<1> USE ConstantsAssumption DEF Refined, PhaseOfStep, OnePlace, Files, Goto, IInv,
        TypeOK, Recorded, OwnsOnlyItsStage, HeldIsOurs, Names, Phases
<1>1. CASE Refuse
  BY <1>1, RefuseRefined
<1>2. CASE PublishFirst
  BY <1>2 DEF PublishFirst
<1>3. CASE PublishResume
  BY <1>3 DEF PublishResume
<1>4. CASE RecordIntent /\ ~Refuse
  BY <1>4 DEF RecordIntent
<1>5. CASE PublishFound /\ ~Refuse
  BY <1>5 DEF PublishFound
<1>6. CASE PublishAbsent /\ ~Refuse
  BY <1>6 DEF PublishAbsent
<1>7. CASE PublishRename /\ ~Refuse
  BY <1>7 DEF PublishRename, Moved, RecordMatches
<1>8. CASE PublishVerify
  BY <1>8 DEF PublishVerify, RecordMatches, Approved, Exists
<1>9. CASE PublishFsyncFails
  BY <1>9 DEF PublishFsyncFails
<1>10. CASE PublishRecheck /\ ~Refuse
  BY <1>10 DEF PublishRecheck
<1>11. CASE PublishCommit
  BY <1>11 DEF PublishCommit, WithPhase
<1> QED
  BY <1>1, <1>2, <1>3, <1>4, <1>5, <1>6, <1>7, <1>8, <1>9, <1>10, <1>11 DEF Publish

\* Every step of rollback_composed.
LEMMA RollbackRefined == ASSUME Refined, Rollback PROVE PhaseOfStep' /\ OnePlace'
<1> USE ConstantsAssumption DEF Refined, PhaseOfStep, OnePlace, Files, Goto, IInv,
        TypeOK, Recorded, OwnsOnlyItsStage, Names, Phases
<1>1. CASE Refuse
  BY <1>1, RefuseRefined
<1>2. CASE RollbackPublished
  BY <1>2 DEF RollbackPublished
<1>3. CASE RollbackStaged
  BY <1>3 DEF RollbackStaged
<1>4. CASE RollbackIntent
  BY <1>4 DEF RollbackIntent, WithPhase
<1>5. CASE RollbackRecheck /\ ~Refuse
  BY <1>5 DEF RollbackRecheck
<1>6. CASE RollbackRename /\ ~Refuse
  BY <1>6 DEF RollbackRename, Moved
<1>7. CASE RollbackVerify /\ ~Refuse
  BY <1>7 DEF RollbackVerify
<1>8. CASE RollbackCommit
  BY <1>8 DEF RollbackCommit, WithPhase, CommitsFromStage
<1> QED BY <1>1, <1>2, <1>3, <1>4, <1>5, <1>6, <1>7, <1>8 DEF Rollback

\* Exits lose only the program point; other programs are not alone.
LEMMA EnvironmentRefined ==
  ASSUME Refined, Crash \/ Foreign PROVE PhaseOfStep' /\ OnePlace'
<1> USE DEF Refined, PhaseOfStep, OnePlace, Files, Goto, IInv, TypeOK, Recorded
<1>1. CASE Crash
  BY <1>1 DEF Crash
<1>2. CASE Foreign
  <2>1. world # "alone" /\ UNCHANGED <<world, pc, journal>>
    BY <1>2 DEF Foreign, ForeignInstall, ForeignRemove, ForeignEdit,
       ForeignDropStage, ForeignMayAct
  <2> QED BY <2>1
<1> QED BY <1>1, <1>2

\* The invariant the refinement rests on.
LEMMA RefinedInvariance == Spec => []Refined
<1>1. Refined /\ [Next]_vars => PhaseOfStep' /\ OnePlace'
  <2> SUFFICES ASSUME Refined, [Next]_vars PROVE PhaseOfStep' /\ OnePlace'
    OBVIOUS
  <2>1. CASE Next
    BY <2>1, PublishRefined, RollbackRefined, EnvironmentRefined DEF Next
  <2>2. CASE UNCHANGED vars
    BY <2>2 DEF vars, Refined, PhaseOfStep, OnePlace
  <2> QED BY <2>1, <2>2
<1>2. Init => PhaseOfStep /\ OnePlace
  BY InitRefined DEF Refined
<1> QED BY Invariance, <1>1, <1>2, PTL DEF Spec, Refined

\* Only the two renames, each under an open intent, show or hide the tool.
LEMMA ShownStep ==
  ASSUME Refined, Next, world = "alone",
         (at'["dest"] = Staged) # (at["dest"] = Staged)
  PROVE  /\ UNCHANGED journal /\ journal # NoJournal
         /\ journal.phase \in {"planned", "rolling_back"}
<1> USE DEF Refined, IInv, Recorded, PhaseOfStep
<1>1. ~UNCHANGED at
  OBVIOUS
<1>2. \/ PublishRename \/ RollbackRename
      \/ PublishVerify /\ ~RecordMatches(held, "dest")
  BY <1>1 DEF Next, Publish, Rollback, Foreign, Crash, PublishFirst, PublishResume,
     RecordIntent, PublishFound, PublishAbsent, PublishVerify, PublishFsyncFails,
     PublishRecheck, PublishCommit, RollbackPublished, RollbackStaged,
     RollbackIntent, RollbackRecheck, RollbackVerify, RollbackCommit, Refuse, Files,
     ForeignInstall, ForeignRemove, ForeignEdit, ForeignDropStage, ForeignMayAct
<1>3. CASE PublishVerify /\ ~RecordMatches(held, "dest")
  BY <1>3 DEF PublishVerify
<1> QED BY <1>2, <1>3 DEF PublishRename, RollbackRename, Refuse

\* The journal is written in the order of the abstract change.
LEMMA JournalStep ==
  ASSUME Refined, Next, journal' # journal
  PROVE  /\ UNCHANGED at
         /\ journal' # NoJournal
         /\ \/ journal = NoJournal /\ journal'.phase = "planned"
            \/ /\ journal # NoJournal
               /\ journal.phase \in {"planned", "published"}
               /\ journal'.phase = "published"
            \/ /\ journal # NoJournal
               /\ journal.phase # "rolled_back"
               /\ journal'.phase = "rolling_back"
            \/ /\ journal # NoJournal
               /\ journal.phase \in {"planned", "rolling_back"}
               /\ journal'.phase = "rolled_back"
               /\ at["stage"] = Staged
<1> USE ConstantsAssumption DEF Refined, IInv, Recorded, PhaseOfStep, TypeOK,
        OwnsOnlyItsStage, CommitsFromStage, HeldIsOurs, WithPhase, Files, Phases
<1>1. \/ RecordIntent /\ ~Refuse
      \/ PublishCommit \/ RollbackIntent \/ RollbackCommit
  BY DEF Next, Publish, Rollback, Foreign, Crash, PublishFirst, PublishResume,
     RecordIntent, PublishFound, PublishAbsent, PublishRename, PublishVerify,
     PublishFsyncFails, PublishRecheck, RollbackPublished, RollbackStaged,
     RollbackRecheck, RollbackRename, RollbackVerify, Refuse, ForeignInstall,
     ForeignRemove, ForeignEdit, ForeignDropStage
<1>2. CASE RecordIntent /\ ~Refuse
  BY <1>2 DEF RecordIntent
<1>3. CASE PublishCommit
  BY <1>3 DEF PublishCommit
<1>4. CASE RollbackIntent
  BY <1>4 DEF RollbackIntent
<1>5. CASE RollbackCommit
  BY <1>5 DEF RollbackCommit
<1> QED BY <1>1, <1>2, <1>3, <1>4, <1>5

\* The publication implements OwnedChange, for any number of exits: the tool is
\* public only under a durable intent, and rolled_back is final.
THEOREM PublicationImplements == Spec => PublicationIsOwnedChange
<1> USE DEF ChangeSt
<1>1. Init => Change!Init
  BY ConstantsAssumption DEF Init, Change!Init
<1>2. ASSUME Refined, Refined', [Next]_vars PROVE [Change!Next]_(Change!vars)
  <2> USE <1>2 DEF Change!Next, Change!vars, Change!Begin, Change!Change,
          Change!Commit, Change!Withdraw, Change!Undo
  <2>1. CASE UNCHANGED vars
    BY <2>1 DEF vars
  <2>2. world' = world
    BY DEF vars, Next, Publish, Rollback, Foreign, Crash, PublishFirst,
       PublishResume, RecordIntent, PublishFound, PublishAbsent, PublishRename,
       PublishVerify, PublishFsyncFails, PublishRecheck, PublishCommit,
       RollbackPublished, RollbackStaged, RollbackIntent, RollbackRecheck,
       RollbackRename, RollbackVerify, RollbackCommit, Refuse, ForeignInstall,
       ForeignRemove, ForeignEdit, ForeignDropStage
  <2>3. CASE world # "alone"
    BY <2>2, <2>3
  <2>4. CASE world = "alone" /\ Next /\ journal' # journal
    BY <2>2, <2>4, JournalStep DEF Refined, OnePlace
  <2>5. CASE world = "alone" /\ Next /\ journal' = journal
    BY <2>2, <2>5, ShownStep
  <2> QED BY <2>1, <2>3, <2>4, <2>5
<1> QED BY RefinedInvariance, <1>1, <1>2, PTL
        DEF Spec, PublicationIsOwnedChange, Change!Spec

-----------------------------------------------------------------------------
(* Commands that nobody races: what each step has checked still holds.       *)

\* The staged directory is public and nothing is in the stage.
Public == at["dest"] = Staged /\ at["stage"] = Absent /\ tree[Staged] = "approved"

\* The staged directory is in the stage and nothing is public.
Private == at["stage"] = Staged /\ at["dest"] = Absent /\ tree[Staged] = "approved"

Calm ==
    world # "racing" =>
        /\ pc \in {"verify", "recheck", "commit", "rb_intent", "rb_recheck", "rb_rename"} => Public
        /\ pc \in {"rb_verify", "rb_commit"} => Private

\* Every step of a command keeps it: a rename finds what the check before it saw.
LEMMA CommandCalm == ASSUME IInv, Calm, Publish \/ Rollback PROVE Calm'
<1> USE ConstantsAssumption DEF Calm, Public, Private, Files, Goto, IInv, TypeOK, Recorded,
        OwnsOnlyItsStage, HeldIsOurs, Names
<1>1. CASE Refuse
  BY <1>1 DEF Refuse
<1>2. CASE PublishFirst \/ PublishResume \/ (RecordIntent /\ ~Refuse)
  BY <1>2 DEF PublishFirst, PublishResume, RecordIntent
<1>3. CASE PublishFound /\ ~Refuse
  BY <1>3 DEF PublishFound, RecordMatches, Approved, Exists
<1>4. CASE PublishAbsent /\ ~Refuse
  BY <1>4 DEF PublishAbsent
<1>5. CASE PublishRename /\ ~Refuse
  BY <1>5 DEF PublishRename, Moved, RecordMatches, Approved, Exists
<1>6. CASE PublishVerify \/ PublishFsyncFails
  BY <1>6 DEF PublishVerify, PublishFsyncFails
<1>7. CASE PublishRecheck /\ ~Refuse
  BY <1>7 DEF PublishRecheck
<1>8. CASE PublishCommit \/ RollbackCommit
  BY <1>8 DEF PublishCommit, RollbackCommit
<1>9. CASE RollbackPublished \/ RollbackStaged
  BY <1>9 DEF RollbackPublished, RollbackStaged, RecordMatches, Approved, Exists
<1>10. CASE RollbackIntent \/ (RollbackRecheck /\ ~Refuse)
  BY <1>10 DEF RollbackIntent, RollbackRecheck
<1>11. CASE RollbackRename /\ ~Refuse
  BY <1>11 DEF RollbackRename, Moved
<1>12. CASE RollbackVerify /\ ~Refuse
  BY <1>12 DEF RollbackVerify
<1> QED BY <1>1, <1>2, <1>3, <1>4, <1>5, <1>6, <1>7, <1>8, <1>9, <1>10, <1>11, <1>12
        DEF Publish, Rollback

\* Unless somebody races the commands, the names are as their last check found them.
LEMMA CalmInvariance == Spec => []Calm
<1>1. ASSUME IInv, Calm, [Next]_vars PROVE Calm'
  <2>1. CASE Crash
    BY <1>1, <2>1 DEF Crash, Calm, Goto
  <2>2. CASE Foreign
    <3>1. world' = world /\ pc' = pc /\ (world # "racing" => pc = "idle")
      BY <2>2 DEF Foreign, ForeignInstall, ForeignRemove, ForeignEdit, ForeignDropStage,
         ForeignMayAct
    <3> QED BY <3>1 DEF Calm
  <2>3. CASE UNCHANGED vars
    BY <1>1, <2>3 DEF vars, Calm, Public, Private
  <2> QED BY <1>1, <2>1, <2>2, <2>3, CommandCalm DEF Next
<1>2. Init => Calm
  BY DEF Init, Calm
<1> QED BY Invariance, <1>1, <1>2, PTL DEF Spec

\* The steps of a command that move directories.
LEMMA MovingSteps ==
  ASSUME Next, pc' # pc, at' # at
  PROVE  \/ PublishRename /\ ~Refuse
         \/ PublishVerify \/ PublishFsyncFails
         \/ RollbackRename /\ ~Refuse
<1>1. ~Foreign
  BY DEF Foreign, ForeignInstall, ForeignRemove, ForeignEdit, ForeignDropStage
<1> QED BY <1>1 DEF Next, Publish, Rollback, Refuse, Files, PublishFirst, PublishResume,
           RecordIntent, PublishFound, PublishAbsent, PublishRecheck, PublishCommit,
           RollbackPublished, RollbackStaged, RollbackIntent, RollbackRecheck, RollbackVerify,
           RollbackCommit, Crash

\* A tool of another program is neither adopted nor moved, unless it appears between
\* a check and the rename after it.
THEOREM OthersToolStays == Spec => ForeignToolStays
<1>1. ASSUME IInv, Calm, Next, pc' # pc, world # "racing"
      PROVE  /\ at["dest"] \notin {Absent, Staged} => at'["dest"] = at["dest"]
             /\ at'["stage"] \in {at["stage"], Absent, Staged}
  <2> USE <1>1, ConstantsAssumption DEF IInv, TypeOK, Names, Calm, Public
  <2>1. CASE at' = at
    BY <2>1
  <2>2. CASE PublishRename /\ ~Refuse
    BY <2>2 DEF PublishRename, Moved, Exists
  <2>3. CASE PublishVerify
    BY <2>3 DEF PublishVerify, Files
  <2>4. CASE PublishFsyncFails
    BY <2>4 DEF PublishFsyncFails
  <2>5. CASE RollbackRename /\ ~Refuse
    BY <2>5 DEF RollbackRename, Moved
  <2> QED BY <2>1, <2>2, <2>3, <2>4, <2>5, MovingSteps
<1>2. ASSUME IInv, Calm, [Next]_vars
      PROVE  [pc' # pc /\ world # "racing" =>
                /\ at["dest"] \notin {Absent, Staged} => at'["dest"] = at["dest"]
                /\ at'["stage"] \in {at["stage"], Absent, Staged}]_vars
  BY <1>1, <1>2 DEF vars
<1> QED BY Invariance, CalmInvariance, <1>2, PTL DEF Spec, ForeignToolStays

\* Unless somebody races it, the journal says published or rolled_back only over the
\* directory it is bound to, in that place and with the approved contents.
THEOREM PhaseIsTrue == Spec => PhaseTellsTheTruth
<1>1. ASSUME Refined, Calm, Next, world # "racing"
      PROVE  /\ Becomes("published") =>
                   at["dest"] = journal.ino /\ ~Exists("stage") /\ Approved("dest")
             /\ Becomes("rolled_back") =>
                   at["stage"] = journal.ino /\ ~Exists("dest") /\ Approved("stage")
  <2> USE <1>1, ConstantsAssumption DEF Refined, IInv, TypeOK, OwnsOnlyItsStage, Calm, Public,
          Private, Exists, Approved, Becomes
  <2>1. CASE journal' = journal
    BY <2>1
  <2>2. CASE RecordIntent /\ ~Refuse
    BY <2>2 DEF RecordIntent, PhaseOfStep
  <2>3. CASE PublishCommit
    BY <2>3 DEF PublishCommit, WithPhase
  <2>4. CASE RollbackIntent
    BY <2>4 DEF RollbackIntent, WithPhase
  <2>5. CASE RollbackCommit
    BY <2>5 DEF RollbackCommit, WithPhase
  <2>6. \/ journal' = journal \/ (RecordIntent /\ ~Refuse)
        \/ PublishCommit \/ RollbackIntent \/ RollbackCommit
    BY DEF Next, Publish, Rollback, Foreign, Crash, PublishFirst, PublishResume,
       RecordIntent, PublishFound, PublishAbsent, PublishRename, PublishVerify,
       PublishFsyncFails, PublishRecheck, RollbackPublished, RollbackStaged,
       RollbackRecheck, RollbackRename, RollbackVerify, Refuse, ForeignInstall,
       ForeignRemove, ForeignEdit, ForeignDropStage
  <2> QED BY <2>1, <2>2, <2>3, <2>4, <2>5, <2>6
<1>2. ASSUME Refined, Calm, [Next]_vars
      PROVE  [world # "racing" =>
                /\ Becomes("published") =>
                      at["dest"] = journal.ino /\ ~Exists("stage") /\ Approved("dest")
                /\ Becomes("rolled_back") =>
                      at["stage"] = journal.ino /\ ~Exists("dest") /\ Approved("stage")]_vars
  BY <1>1, <1>2 DEF vars
<1> QED BY RefinedInvariance, CalmInvariance, <1>2, PTL DEF Spec, PhaseTellsTheTruth

\* Once the rollback intent is durable the journal only goes on to rolled_back, and no
\* command puts a directory under the public name, whoever races it.
THEOREM WithdrawalIsForGood == Spec => WithdrawnForGood
<1>1. ASSUME Refined, Next, journal # NoJournal,
             journal.phase \in {"rolling_back", "rolled_back"}
      PROVE  /\ journal'.phase \in {journal.phase, "rolled_back"}
             /\ pc' # pc => at'["dest"] \in {at["dest"], Absent}
  <2>1. journal'.phase \in {journal.phase, "rolled_back"}
    BY <1>1, JournalStep
  <2>2. ASSUME pc' # pc PROVE at'["dest"] \in {at["dest"], Absent}
    <3> USE <1>1, <2>2, ConstantsAssumption DEF Refined, IInv, TypeOK, Names, PhaseOfStep
    <3>1. CASE at' = at
      BY <3>1
    <3>2. ~(PublishRename /\ ~Refuse)
      BY DEF PublishRename
    <3>3. CASE PublishVerify
      BY <3>3 DEF PublishVerify, Files
    <3>4. CASE PublishFsyncFails
      BY <3>4 DEF PublishFsyncFails
    <3>5. CASE RollbackRename /\ ~Refuse
      BY <3>5 DEF RollbackRename, Moved
    <3> QED BY <3>1, <3>2, <3>3, <3>4, <3>5, MovingSteps
  <2> QED BY <2>1, <2>2
<1>2. ASSUME Refined, [Next]_vars
      PROVE  [journal # NoJournal /\ journal.phase \in {"rolling_back", "rolled_back"} =>
                /\ journal'.phase \in {journal.phase, "rolled_back"}
                /\ pc' # pc => at'["dest"] \in {at["dest"], Absent}]_vars
  BY <1>1, <1>2 DEF vars
<1> QED BY RefinedInvariance, <1>2, PTL DEF Spec, WithdrawnForGood
=============================================================================
