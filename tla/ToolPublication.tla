--------------------------- MODULE ToolPublication ---------------------------
(***************************************************************************)
(* Durable publication of the complete Proton tool, the child transaction  *)
(* of forza_bootstrap/composition.py together with the rename of           *)
(* proton.publish_fm.  A private stage directory is renamed to the public  *)
(* tool name and, on rollback, renamed back.  A journal, replaced          *)
(* atomically, binds the transaction to ONE directory inode.  The process  *)
(* may stop between any two steps; another program of the same user may    *)
(* remove, replace or edit the tool it finds under the public name.        *)
(***************************************************************************)
EXTENDS Naturals

CONSTANTS
    Inodes,        \* directory identities, (st_dev, st_ino) in the code
    Staged,        \* the directory prepare_composed_fm_tree left in the stage
    Absent,        \* no directory under a name
    NoJournal,     \* tool-publication.json does not exist
    Worlds,        \* the environments considered, see below
    MaxCrashes     \* bound on the number of process exits in mid-operation

Phases == {"planned", "published", "rolling_back", "rolled_back"}

ASSUME ConstantsAssumption ==
    /\ Staged \in Inodes
    /\ Absent \notin Inodes
    /\ NoJournal \notin [phase : Phases, ino : Inodes]
    /\ Worlds \subseteq {"alone", "failing", "between", "racing"}
    /\ MaxCrashes \in Nat

\* "alone": no other program touches the tool and fsync works; "failing": the
\* fsync after the publishing rename may fail; "between": moreover other
\* programs act while no command runs; "racing": they act at any time.
VARIABLES
    world,     \* the environment of this behaviour
    journal,   \* the durable record: phase and bound inode
    at,        \* which directory each of the two names holds
    tree,      \* contents: "approved" iff inspect_composed_fm accepts them
    aside,     \* directories moved to a *.publication-recovery name
    deleted,   \* directories removed by rollback_published_fm
    pc,        \* next step of the running command, "idle" when none runs
    held,      \* directory the running command has open or has inspected
    crashes

vars == <<world, journal, at, tree, aside, deleted, pc, held, crashes>>

Names  == {"stage", "dest"}
Trees  == {"approved", "altered"}
PublishSteps  == {"plan", "publish", "rename", "verify", "recheck", "commit"}
RollbackSteps == {"rb_intent", "rb_recheck", "rb_rename", "rb_verify", "rb_commit"}

TypeOK ==
    /\ world \in Worlds
    /\ journal \in {NoJournal} \cup [phase : Phases, ino : Inodes]
    /\ at \in [Names -> Inodes \cup {Absent}]
    /\ tree \in [Inodes -> Trees]
    /\ aside \in SUBSET Inodes
    /\ deleted \in SUBSET Inodes
    /\ pc \in {"idle"} \cup PublishSteps \cup RollbackSteps
    /\ held \in Inodes \cup {Absent}
    /\ crashes \in 0..MaxCrashes

Init ==
    /\ world \in Worlds
    /\ journal = NoJournal
    /\ at \in {[stage |-> Staged, dest |-> d] :
                  d \in {Absent} \cup (Inodes \ {Staged})}
    /\ tree \in {t \in [Inodes -> Trees] : t[Staged] = "approved"}
    /\ aside = {} /\ deleted = {}
    /\ pc = "idle" /\ held = Absent
    /\ crashes = 0

-----------------------------------------------------------------------------
Exists(name) == at[name] # Absent

\* What inspect_composed_fm accepts under a name.
Approved(name) == Exists(name) /\ tree[at[name]] = "approved"

\* Mutant: the contents are compared, the inode is not.
RecordMatchesContents(ino, name) == Approved(name)

\* _record: the recorded inode with the recorded contents is under this name.
RecordMatches(ino, name) == at[name] = ino /\ Approved(name)

WithPhase(phase) == [journal EXCEPT !.phase = phase]

Moved(src, dst) == [at EXCEPT ![src] = Absent, ![dst] = at[src]]

Goto(step) == pc' = step

Files == <<at, tree, aside, deleted>>

\* Any raise before a rename: the command ends, nothing durable has changed.
Refuse ==
    /\ Goto("idle") /\ held' = Absent
    /\ UNCHANGED <<journal, Files, crashes, world>>

-----------------------------------------------------------------------------
(* publish_composed *)

\* Mutant: an identical tool that is already there is adopted.
PublishFirstAdopts ==
    /\ pc = "idle" /\ journal = NoJournal /\ Approved("stage")
    /\ \/ /\ ~Exists("dest")
          /\ held' = at["stage"] /\ Goto("plan")
          /\ UNCHANGED <<journal, Files, crashes, world>>
       \/ /\ Approved("dest")
          /\ journal' = [phase |-> "published", ino |-> at["dest"]]
          /\ UNCHANGED <<Files, pc, held, crashes, world>>

\* No journal: an existing tool is refused, the stage is inspected.
PublishFirst ==
    /\ pc = "idle" /\ journal = NoJournal
    /\ ~Exists("dest") /\ Approved("stage")
    /\ held' = at["stage"] /\ Goto("plan")
    /\ UNCHANGED <<journal, Files, crashes, world>>

\* Mutant: a withdrawn publication is resumed as well.
PublishResumeAny ==
    /\ pc = "idle" /\ journal # NoJournal
    /\ Goto("publish")
    /\ UNCHANGED <<journal, Files, held, crashes, world>>

\* A journal that is not being rolled back: resume.
PublishResume ==
    /\ pc = "idle" /\ journal # NoJournal
    /\ journal.phase \in {"planned", "published"}
    /\ Goto("publish")
    /\ UNCHANGED <<journal, Files, held, crashes, world>>

\* The intent becomes durable, bound to the inspected stage.
RecordIntent ==
    /\ pc = "plan"
    /\ \/ /\ RecordMatches(held, "stage")
          /\ journal' = [phase |-> "planned", ino |-> held]
          /\ Goto("publish")
          /\ UNCHANGED <<Files, held, crashes, world>>
       \/ ~RecordMatches(held, "stage") /\ Refuse

\* Mutant: any existing destination is refused, the recorded tool included.
PublishFoundRefuses == pc = "publish" /\ Exists("dest") /\ Refuse

\* The destination already holds the recorded tool (resume after the rename).
PublishFound ==
    /\ pc = "publish" /\ Exists("dest")
    /\ \/ /\ ~Exists("stage") /\ RecordMatches(journal.ino, "dest")
          /\ Goto("commit")
          /\ UNCHANGED <<journal, Files, held, crashes, world>>
       \/ /\ Exists("stage") \/ ~RecordMatches(journal.ino, "dest")
          /\ Refuse

\* The destination is free: only a planned publication may rename its stage.
PublishAbsent ==
    /\ pc = "publish" /\ ~Exists("dest")
    /\ \/ /\ journal.phase = "planned" /\ RecordMatches(journal.ino, "stage")
          /\ held' = at["stage"] /\ Goto("rename")
          /\ UNCHANGED <<journal, Files, crashes, world>>
       \/ /\ journal.phase # "planned" \/ ~RecordMatches(journal.ino, "stage")
          /\ Refuse

\* Mutant: a plain rename replaces what it finds.
PublishRenameReplaces ==
    /\ pc = "rename"
    /\ \/ /\ RecordMatches(held, "stage")
          /\ at' = Moved("stage", "dest")
          /\ Goto("verify")
          /\ UNCHANGED <<journal, tree, aside, deleted, held, crashes, world>>
       \/ ~RecordMatches(held, "stage") /\ Refuse

\* publish_fm: an existing tool is adopted or conflicts (refused either way);
\* otherwise rename_noreplace moves the stage that is still the held one.
PublishRename ==
    /\ pc = "rename"
    /\ \/ /\ ~Exists("dest") /\ RecordMatches(held, "stage")
          /\ at' = Moved("stage", "dest")
          /\ Goto("verify")
          /\ UNCHANGED <<journal, tree, aside, deleted, held, crashes, world>>
       \/ /\ Exists("dest") \/ ~RecordMatches(held, "stage")
          /\ Refuse

\* publish_fm after the rename: what is under the name must be the held,
\* unchanged directory; anything else is moved to a recovery name.
PublishVerify ==
    /\ pc = "verify"
    /\ \/ /\ RecordMatches(held, "dest")
          /\ Goto("recheck")
          /\ UNCHANGED <<journal, Files, held, crashes, world>>
       \/ /\ ~RecordMatches(held, "dest")
          /\ aside' = aside \cup ({at["dest"]} \ {Absent})
          /\ at' = [at EXCEPT !["dest"] = Absent]
          /\ Goto("idle") /\ held' = Absent
          /\ UNCHANGED <<journal, tree, deleted, crashes, world>>

\* publish_fm's handler for an OSError after the rename: rollback_published_fm
\* deletes the tree it created when it is unchanged, and leaves any other.
PublishFsyncFails ==
    /\ world # "alone" /\ pc = "verify"
    /\ \/ /\ RecordMatches(held, "dest")
          /\ at' = [at EXCEPT !["dest"] = Absent]
          /\ deleted' = deleted \cup {held}
       \/ /\ ~RecordMatches(held, "dest")
          /\ UNCHANGED <<at, deleted>>
    /\ Goto("idle") /\ held' = Absent
    /\ UNCHANGED <<journal, tree, aside, crashes, world>>

\* publish_composed rebinds the destination to the durable inode.
PublishRecheck ==
    /\ pc = "recheck"
    /\ \/ /\ RecordMatches(journal.ino, "dest")
          /\ Goto("commit")
          /\ UNCHANGED <<journal, Files, held, crashes, world>>
       \/ ~RecordMatches(journal.ino, "dest") /\ Refuse

PublishCommit ==
    /\ pc = "commit"
    /\ journal' = WithPhase("published")
    /\ Goto("idle") /\ held' = Absent
    /\ UNCHANGED <<Files, crashes, world>>

-----------------------------------------------------------------------------
(* rollback_composed *)

\* Mutant: the tool is withdrawn without a durable intent.
RollbackPublishedNoIntent ==
    /\ pc = "idle" /\ journal # NoJournal /\ journal.phase # "rolled_back"
    /\ Exists("dest") /\ ~Exists("stage") /\ RecordMatches(journal.ino, "dest")
    /\ Goto("rb_recheck")
    /\ UNCHANGED <<journal, Files, held, crashes, world>>

\* The published tool is under its name and the stage name is free.
RollbackPublished ==
    /\ pc = "idle" /\ journal # NoJournal /\ journal.phase # "rolled_back"
    /\ Exists("dest") /\ ~Exists("stage") /\ RecordMatches(journal.ino, "dest")
    /\ Goto("rb_intent")
    /\ UNCHANGED <<journal, Files, held, crashes, world>>

\* Mutant: a free destination is taken for a finished withdrawal.
RollbackStagedUnchecked ==
    /\ pc = "idle" /\ journal # NoJournal
    /\ ~Exists("dest") /\ journal.phase \in {"planned", "rolling_back"}
    /\ Goto("rb_commit")
    /\ UNCHANGED <<journal, Files, held, crashes, world>>

\* Never published, or the withdrawing rename already happened.
RollbackStaged ==
    /\ pc = "idle" /\ journal # NoJournal
    /\ ~Exists("dest") /\ journal.phase \in {"planned", "rolling_back"}
    /\ RecordMatches(journal.ino, "stage")
    /\ Goto("rb_commit")
    /\ UNCHANGED <<journal, Files, held, crashes, world>>

RollbackIntent ==
    /\ pc = "rb_intent"
    /\ journal' = WithPhase("rolling_back")
    /\ Goto("rb_recheck")
    /\ UNCHANGED <<Files, held, crashes, world>>

RollbackRecheck ==
    /\ pc = "rb_recheck"
    /\ \/ /\ RecordMatches(journal.ino, "dest")
          /\ Goto("rb_rename")
          /\ UNCHANGED <<journal, Files, held, crashes, world>>
       \/ ~RecordMatches(journal.ino, "dest") /\ Refuse

\* rename_noreplace moves whatever the public name holds by now.
RollbackRename ==
    /\ pc = "rb_rename"
    /\ \/ /\ Exists("dest") /\ ~Exists("stage")
          /\ at' = Moved("dest", "stage")
          /\ Goto("rb_verify")
          /\ UNCHANGED <<journal, tree, aside, deleted, held, crashes, world>>
       \/ /\ ~Exists("dest") \/ Exists("stage")
          /\ Refuse

\* Mutant: what was moved into the stage is not compared with the record.
RollbackVerifySkipped ==
    /\ pc = "rb_verify"
    /\ Goto("rb_commit")
    /\ UNCHANGED <<journal, Files, held, crashes, world>>

RollbackVerify ==
    /\ pc = "rb_verify"
    /\ \/ /\ RecordMatches(journal.ino, "stage")
          /\ Goto("rb_commit")
          /\ UNCHANGED <<journal, Files, held, crashes, world>>
       \/ ~RecordMatches(journal.ino, "stage") /\ Refuse

RollbackCommit ==
    /\ pc = "rb_commit"
    /\ journal' = WithPhase("rolled_back")
    /\ Goto("idle") /\ held' = Absent
    /\ UNCHANGED <<Files, crashes, world>>

-----------------------------------------------------------------------------
(* The environment *)

\* The process exits in mid-command; only files survive.
Crash ==
    /\ pc # "idle" /\ crashes < MaxCrashes
    /\ Goto("idle") /\ held' = Absent
    /\ crashes' = crashes + 1
    /\ UNCHANGED <<journal, Files, world>>

ForeignMayAct ==
    \/ world = "racing"
    \/ world = "between" /\ pc = "idle"

\* Directories outside the two names that another program can move in.
Elsewhere == Inodes \ ({at["stage"], at["dest"]} \cup aside \cup deleted)

ForeignInstall ==
    /\ ForeignMayAct /\ ~Exists("dest")
    /\ \E i \in Elsewhere : at' = [at EXCEPT !["dest"] = i]
    /\ UNCHANGED <<journal, tree, aside, deleted, pc, held, crashes, world>>

ForeignRemove ==
    /\ ForeignMayAct /\ Exists("dest")
    /\ at' = [at EXCEPT !["dest"] = Absent]
    /\ UNCHANGED <<journal, tree, aside, deleted, pc, held, crashes, world>>

ForeignEdit ==
    /\ ForeignMayAct
    /\ \E name \in Names :
          /\ Approved(name)
          /\ tree' = [tree EXCEPT ![at[name]] = "altered"]
    /\ UNCHANGED <<journal, at, aside, deleted, pc, held, crashes, world>>

\* The stage is inside a mode-0700 directory of this transaction: other
\* programs are assumed not to rename it while a command runs.
ForeignDropStage ==
    /\ ForeignMayAct /\ pc = "idle" /\ Exists("stage")
    /\ at' = [at EXCEPT !["stage"] = Absent]
    /\ UNCHANGED <<journal, tree, aside, deleted, pc, held, crashes, world>>

-----------------------------------------------------------------------------
Publish ==
    \/ PublishFirst \/ PublishResume \/ RecordIntent
    \/ PublishFound \/ PublishAbsent \/ PublishRename
    \/ PublishVerify \/ PublishFsyncFails \/ PublishRecheck \/ PublishCommit

Rollback ==
    \/ RollbackPublished \/ RollbackStaged \/ RollbackIntent
    \/ RollbackRecheck \/ RollbackRename \/ RollbackVerify \/ RollbackCommit

Foreign == ForeignInstall \/ ForeignRemove \/ ForeignEdit \/ ForeignDropStage

Next == Publish \/ Rollback \/ Crash \/ Foreign

Spec == Init /\ [][Next]_vars

\* A started command keeps running, and after an interruption the operator
\* runs some command again, as ./setup asks; which one is left open.
FairSpec == Spec /\ WF_vars(Publish \/ Rollback)

-----------------------------------------------------------------------------
(* Correctness.  A step of the publisher always changes pc; a step of        *)
(* another program never does.                                               *)

\* "Publication never adopts an existing tool": the journal is only ever bound
\* to the directory this transaction staged (publish_composed, first branch).
OwnsOnlyItsStage == journal # NoJournal => journal.ino = Staged

Placed == ({at["stage"], at["dest"]} \ {Absent}) \cup aside \cup deleted

\* No step of the publisher loses a directory: a rename never lands on an
\* occupied name, and the only tree ever deleted is the transaction's own
\* (rename_noreplace, _quarantine_publication_mismatches,
\* rollback_published_fm), even while other programs race it.
NothingLost ==
    [][pc' # pc => Placed \subseteq Placed' /\ deleted' \subseteq {Staged}]_vars

\* A tool of another program stays where it is: publish_composed refuses it and
\* rollback_composed leaves it, however identical its contents are, unless it
\* is put there between a check and the rename that follows.
ForeignToolStays ==
    [][pc' # pc /\ world # "racing" =>
         /\ at["dest"] \notin {Absent, Staged} => at'["dest"] = at["dest"]
         /\ at'["stage"] \in {at["stage"], Absent, Staged}]_vars

\* After the rollback intent is durable no resumed or restarted command makes
\* the tool public again.
WithdrawnForGood ==
    [][journal # NoJournal /\ journal.phase \in {"rolling_back", "rolled_back"} =>
         /\ journal'.phase \in {journal.phase, "rolled_back"}
         /\ pc' # pc => at'["dest"] \in {at["dest"], Absent}]_vars

Becomes(phase) ==
    /\ journal # NoJournal /\ journal.phase # phase
    /\ journal'.phase = phase

\* The journal claims a publication or a withdrawal only when the directory it
\* names really is where the phase says and the other name is free.
PhaseTellsTheTruth ==
    [][world # "racing" =>
       /\ Becomes("published") =>
             at["dest"] = journal.ino /\ ~Exists("stage") /\ Approved("dest")
       /\ Becomes("rolled_back") =>
             at["stage"] = journal.ino /\ ~Exists("dest") /\ Approved("stage")]_vars

\* Even with other programs racing the command, "rolled_back" is written only
\* with the transaction's own directory back in its private stage.
RolledBackIsPrivate ==
    [][Becomes("rolled_back") => at["stage"] = Staged]_vars

Undisturbed == world \in {"alone", "failing"}

Settles(phases, outcomes) ==
    (Undisturbed /\ journal # NoJournal /\ journal.phase \in phases) ~>
        (journal # NoJournal /\ journal.phase \in outcomes)

\* A recorded intent is always settled once the command is rerun: the tool
\* ends published or back in its stage, and an interrupted withdrawal ends
\* withdrawn, where no other program touches it.
IntentResolves ==
    /\ Settles(Phases, {"published", "rolled_back"})
    /\ Settles({"rolling_back"}, {"rolled_back"})

ChangeSt == CASE journal = NoJournal -> "none"
              [] journal # NoJournal /\ journal.phase = "published" -> "live"
              [] journal # NoJournal /\ journal.phase = "rolled_back" -> "undone"
              [] OTHER -> "open"

\* Left alone, the publication is the change; elsewhere nothing is claimed.
Change == INSTANCE OwnedChange
             WITH st <- IF world = "alone" THEN ChangeSt ELSE "none",
                  shown <- world = "alone" /\ at["dest"] = Staged

\* The publication implements OwnedChange: its tool is public only under a
\* durable intent, and "rolled_back" is final.
PublicationIsOwnedChange == Change!Spec

=============================================================================
