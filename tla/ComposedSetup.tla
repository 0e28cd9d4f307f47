---------------------------- MODULE ComposedSetup ----------------------------
(***************************************************************************)
(* The parent transaction of ./setup composed (forza_bootstrap/            *)
(* composed_setup.py): Prepare publishes the tool, Finish installs the     *)
(* licensed copy and the runtime files, Rollback undoes the three in       *)
(* reverse order.  Each child is a journalled change with the steps of     *)
(* OwnedChange.  The runtime child is another process, which inherits the  *)
(* launcher lease and may outlive its parent; both may die at any step.    *)
(* What an interrupted child may leave that its own recovery refuses is    *)
(* kept in damage; RuntimeTransaction and ToolPublication show how it      *)
(* comes about.  Nobody else edits the files of the children here.         *)
(***************************************************************************)
EXTENDS Naturals

CONSTANTS
    Dispositions, \* of the licensed copy: it is made ("copy"), or an exact one
                  \* is already there and changes nothing ("keep")
    UserCommands, \* runtime commands the user may run by hand
    HostChanges,  \* what may happen to the host: subset of {"prefix",
                  \* "replaced", "duplicates", "foreign"}
    MaxFaults     \* bound on process exits, time-outs and failed steps

Children == {"tool", "licensed", "runtime"}

ASSUME ConstantsAssumption ==
    /\ Dispositions \subseteq {"copy", "keep"}
    /\ UserCommands \subseteq {"accept", "rollback"}
    /\ HostChanges \subseteq {"prefix", "replaced", "duplicates", "foreign"}
    /\ MaxFaults \in Nat

VARIABLES
    phase,    \* state.json of the active transaction, "NONE" without one
    finish,   \* is finish_plan_sha256 recorded?
    private,  \* the private copies Prepare makes, each possibly interrupted
    st, shown,\* the three children as in OwnedChange, and those that show
    damage,   \* subset of Damages: what is wrong with them
    accepted, \* has the user accepted the runtime child?
    prefix,   \* does the one Steam prefix hold the composed modules?
    plan,     \* the disposition of the licensed copy
    bound,    \* is the game directory the one the Prepare plan names?
    clean,    \* does it hold no two DLLs whose names differ only in case?
    foreign,  \* is there a runtime transaction of another owner, not rolled back?
    pc,       \* next step of the setup command, "idle" when none runs
    fresh,    \* did Finish find no runtime child?
    proc,     \* the runtime helper process and, once it ended, its result
    faults

vars == <<phase, finish, private, st, shown, damage, accepted, prefix, plan,
          bound, clean, foreign, pc, fresh, proc, faults>>

Phases == {"PREPARING", "AWAITING_STEAM_PREFIX", "INSTALLING_FINISH",
           "READY_TO_ATTEMPT", "ROLLING_BACK", "ROLLED_BACK"}
Copies == {"helper", "bundle", "stage"}
PrepareSteps  == Copies \cup {"publish", "prepared"}
FinishSteps   == {"check", "copy", "runtime", "f_wait", "verify"}
RollbackSteps == {"r_runtime", "r_wait", "r_licensed", "r_tool", "r_done"}
Running == {"install", "revert", "rollback"}

\* "bare": some parent directories of the runtime files do not exist; "husk": the
\* runtime child's directory has no journal; "lost": publish_fm has removed the tool
\* it had just renamed, and neither the tool nor its stage is left.
Damages == {"bare", "husk", "lost"}

TypeOK ==
    /\ phase \in {"NONE"} \cup Phases
    /\ finish \in BOOLEAN
    /\ private \in [Copies -> {"absent", "partial", "whole"}]
    /\ st \in [Children -> {"none", "open", "live", "undone"}]
    /\ shown \in SUBSET Children
    /\ damage \in SUBSET Damages /\ foreign \in BOOLEAN
    /\ accepted \in BOOLEAN /\ prefix \in BOOLEAN /\ fresh \in BOOLEAN
    /\ bound \in BOOLEAN /\ clean \in BOOLEAN /\ plan \in Dispositions
    /\ pc \in {"idle"} \cup PrepareSteps \cup FinishSteps \cup RollbackSteps
    /\ proc \in {"none", "done", "failed"} \cup Running
    /\ faults \in 0..MaxFaults

Init ==
    /\ phase = "NONE" /\ finish = FALSE
    /\ private = [f \in Copies |-> "absent"]
    /\ st = [c \in Children |-> "none"]
    /\ shown = {} /\ damage \in {{}, {"bare"}} /\ foreign = FALSE
    /\ accepted = FALSE /\ prefix = FALSE /\ bound = TRUE /\ clean = TRUE
    /\ plan \in Dispositions
    /\ pc = "idle" /\ fresh = FALSE /\ proc = "none"
    /\ faults = 0

-----------------------------------------------------------------------------
host == <<prefix, plan, bound, clean, foreign>>

\* The children whose change can be seen.
Changing == IF plan = "keep" THEN Children \ {"licensed"} ELSE Children
child == <<st, shown, accepted, damage>>
Goto(step) == pc' = step

\* A raise: the command ends where it is, nothing further is written.
Refuse == Goto("idle") /\ UNCHANGED <<phase, finish, private, child, proc, fresh>>

\* A check that only decides how to go on.
Decide(step) == Goto(step) /\ UNCHANGED <<phase, finish, private, child, proc, fresh>>

Fault == faults < MaxFaults /\ faults' = faults + 1
NoFault == UNCHANGED <<host, faults>>

\* Mutant: the lease is released when the parent dies.
LeaseFreeParentOnly == pc = "idle"

\* _lease: the helper process shares the parent's open lock, so the lease is
\* free only when neither runs.
LeaseFree == pc = "idle" /\ proc \notin Running

\* _transition: the only way the phase is ever written.
Enter(p) == phase' = p

Mark(c, s) == st' = [st EXCEPT ![c] = s] /\ UNCHANGED <<shown, accepted>>
Show(c) == c \notin shown /\ shown' = shown \cup {c} /\ UNCHANGED <<st, accepted>>
Hide(c) == c \in shown /\ shown' = shown \ {c} /\ UNCHANGED <<st, accepted>>

\* One step of a child towards live, and one step back towards undone.
Forward(c) ==
    \/ st[c] = "none" /\ Mark(c, "open")
    \/ st[c] = "open" /\ c \in Changing /\ Show(c)
    \/ st[c] = "open" /\ (c \in shown <=> c \in Changing) /\ Mark(c, "live")

Backward(c) ==
    \/ st[c] = "live" /\ Mark(c, "open")
    \/ st[c] = "open" /\ Hide(c)
    \/ st[c] = "open" /\ c \notin shown /\ Mark(c, "undone")

\* A step that moves one child and keeps the command where it is.
Moving(move) ==
    /\ move
    /\ UNCHANGED <<damage, phase, finish, private, pc, proc, fresh>> /\ NoFault

-----------------------------------------------------------------------------
(* prepare and _prepare_locked *)

\* A new transaction: the legacy guard, the confirmed plan, active.json.
Prepare ==
    /\ LeaseFree /\ phase = "NONE" /\ clean
    /\ shown = {}
    /\ Enter("PREPARING") /\ Goto("helper")
    /\ bound' = TRUE
    /\ UNCHANGED <<finish, private, child, fresh, proc, prefix, plan, clean, foreign, faults>>

PrepareResume ==
    /\ LeaseFree /\ phase = "PREPARING" /\ bound
    /\ Decide("helper") /\ NoFault

AfterCopy(f) == CASE f = "helper" -> "bundle"
                  [] f = "bundle" -> "stage"
                  [] f = "stage"  -> "publish"

\* A copy left over is verified, a missing one made; the stage is looked at
\* only while the publication has no journal.
PrepareCopy(f) ==
    /\ pc = f
    /\ \/ /\ private[f] = "whole" \/ (f = "stage" /\ st["tool"] # "none")
          /\ Decide(AfterCopy(f))
       \/ /\ private[f] = "absent" /\ ~(f = "stage" /\ st["tool"] # "none")
          /\ private' = [private EXCEPT ![f] = "whole"]
          /\ Goto(AfterCopy(f))
          /\ UNCHANGED <<phase, finish, child, fresh, proc>>
       \/ private[f] = "partial" /\ Refuse
    /\ NoFault

\* The process exits in the middle of a copy.
CopyInterrupted(f) ==
    /\ pc = f /\ private[f] = "absent" /\ Fault
    /\ private' = [private EXCEPT ![f] = "partial"]
    /\ Goto("idle")
    /\ UNCHANGED <<phase, finish, child, fresh, proc, host>>

\* publish_composed, then the checkpoint.  It refuses when tool and stage are gone.
PreparePublish ==
    /\ pc = "publish" /\ st["tool"] # "live"
    /\ \/ "lost" \notin damage /\ Moving(Forward("tool"))
       \/ "lost" \in damage /\ Refuse /\ NoFault

\* The fsync after the rename fails, and publish_fm removes the tool again.
PublishLost ==
    /\ pc = "publish" /\ st["tool"] = "open" /\ "tool" \notin shown /\ Fault
    /\ damage' = damage \cup {"lost"} /\ Goto("idle")
    /\ UNCHANGED <<phase, finish, private, st, shown, accepted, proc, fresh, host>>

PreparePublished ==
    /\ pc = "publish" /\ st["tool"] = "live"
    /\ Decide("prepared") /\ NoFault

PrepareDone ==
    /\ pc = "prepared"
    /\ Enter("AWAITING_STEAM_PREFIX") /\ Goto("idle")
    /\ UNCHANGED <<finish, private, child, fresh, proc>> /\ NoFault

-----------------------------------------------------------------------------
(* finish *)

\* _prefix: the prefix is the composed one and no game DLL is ambiguous.
PrefixAccepted == prefix /\ clean

\* finish_plan twice around the confirmation, then the plan is recorded.
FinishPlan ==
    /\ LeaseFree /\ phase = "AWAITING_STEAM_PREFIX" /\ bound
    /\ PrefixAccepted /\ "tool" \in shown
    /\ Enter("INSTALLING_FINISH") /\ finish' = TRUE
    /\ Goto("check")
    /\ UNCHANGED <<private, child, fresh, proc>> /\ NoFault

\* Mutant: Finish resumes a setup that is being rolled back.
FinishResumeAny ==
    /\ LeaseFree /\ phase \in {"INSTALLING_FINISH", "ROLLING_BACK"} /\ bound
    /\ Decide("check") /\ NoFault

FinishResume ==
    /\ LeaseFree /\ phase = "INSTALLING_FINISH" /\ bound
    /\ Decide("check") /\ NoFault

\* Is the runtime child in the one state Finish and status() accept?
ChildInstalled == st["runtime"] = "live" /\ ~accepted

\* transaction_journals and _child: no directory without a journal, no transaction
\* of another owner.
ChildReadable == "husk" \notin damage /\ ~foreign

\* _finish_record and _child: only an installed child, or none, may go on.
MayFinish == PrefixAccepted /\ ChildReadable /\ (st["runtime"] = "none" \/ ChildInstalled)

FinishCheck ==
    /\ pc = "check"
    /\ \/ /\ MayFinish
          /\ Goto("copy") /\ fresh' = (st["runtime"] = "none")
          /\ UNCHANGED <<phase, finish, private, child, proc>>
       \/ ~MayFinish /\ Refuse
    /\ NoFault

\* install_threading_copy.
FinishCopy == pc = "copy" /\ st["licensed"] # "live" /\ Moving(Forward("licensed"))

FinishCopied ==
    /\ pc = "copy" /\ st["licensed"] = "live"
    /\ Decide("runtime") /\ NoFault

\* The runtime helper is started only where no child was found before.
FinishRuntime ==
    /\ pc = "runtime"
    /\ \/ fresh /\ Goto("f_wait") /\ proc' = "install"
       \/ ~fresh /\ Goto("verify") /\ UNCHANGED proc
    /\ UNCHANGED <<phase, finish, private, child, fresh>> /\ NoFault

\* Mutant: the helper's exit code and the child it left are not looked at.
FinishWaitAny ==
    /\ pc = "f_wait" /\ proc \in {"done", "failed"}
    /\ proc' = "none" /\ Goto("verify")
    /\ UNCHANGED <<phase, finish, private, child, fresh>> /\ NoFault

FinishWait ==
    /\ pc = "f_wait" /\ proc \in {"done", "failed"}
    /\ proc' = "none"
    /\ Goto(IF proc = "done" /\ ChildInstalled THEN "verify" ELSE "idle")
    /\ UNCHANGED <<phase, finish, private, child, fresh>> /\ NoFault

\* The record and the tool again, then the doctor, which may refuse.
FinishVerify ==
    /\ pc = "verify"
    /\ \/ /\ PrefixAccepted /\ "tool" \in shown
          /\ Enter("READY_TO_ATTEMPT") /\ Goto("idle")
          /\ UNCHANGED <<finish, private, child, fresh, proc>>
       \/ ~(PrefixAccepted /\ "tool" \in shown) /\ Refuse
    /\ NoFault

-----------------------------------------------------------------------------
(* rollback *)

\* Mutant: the recorded helper is demanded before there is a runtime child.
RollbackNeedsHelper ==
    /\ LeaseFree /\ phase \notin {"NONE", "ROLLED_BACK"}
    /\ private["helper"] = "whole"
    /\ finish => PrefixAccepted /\ ChildReadable
    /\ Enter("ROLLING_BACK") /\ Goto("r_runtime")
    /\ UNCHANGED <<finish, private, child, fresh, proc>> /\ NoFault

\* Every authority record is validated before the intent is written: the plan with
\* its prefix, the runtime child, the publication.  A game replaced at the same
\* path is tolerated.
Rollback ==
    /\ LeaseFree /\ phase \notin {"NONE", "ROLLED_BACK"}
    /\ finish => PrefixAccepted /\ ChildReadable
    /\ "lost" \notin damage
    /\ st["tool"] = "none" => "tool" \notin shown
    /\ Enter("ROLLING_BACK") /\ Goto("r_runtime")
    /\ UNCHANGED <<finish, private, child, fresh, proc>> /\ NoFault

RollbackRuntime ==
    /\ pc = "r_runtime"
    /\ \/ /\ finish /\ st["runtime"] \notin {"none", "undone"}
          /\ Goto("r_wait") /\ proc' = "rollback"
       \/ /\ ~(finish /\ st["runtime"] \notin {"none", "undone"})
          /\ Goto("r_licensed") /\ UNCHANGED proc
    /\ UNCHANGED <<phase, finish, private, child, fresh>> /\ NoFault

\* Mutant: a failed runtime rollback does not stop the others.
RollbackWaitAny ==
    /\ pc = "r_wait" /\ proc \in {"done", "failed"}
    /\ proc' = "none" /\ Goto("r_licensed")
    /\ UNCHANGED <<phase, finish, private, child, fresh>> /\ NoFault

RollbackWait ==
    /\ pc = "r_wait" /\ proc \in {"done", "failed"}
    /\ proc' = "none"
    /\ Goto(IF proc = "done" /\ st["runtime"] = "undone" THEN "r_licensed" ELSE "idle")
    /\ UNCHANGED <<phase, finish, private, child, fresh>> /\ NoFault

\* rollback_threading_copy, then rollback_composed; each is skipped when it
\* never recorded an intent, and returns at once when it is already undone.
UndoChild(c, step, next) ==
    /\ pc = step
    /\ \/ st[c] \in {"none", "undone"} /\ Decide(next) /\ NoFault
       \/ Moving(Backward(c))

\* Mutant: the tool is withdrawn before the files that need it.
RollbackLicensedLast == UndoChild("tool", "r_licensed", "r_tool")

RollbackLicensed == UndoChild("licensed", "r_licensed", "r_tool")
RollbackTool     == UndoChild("tool", "r_tool", "r_done")

RollbackDone ==
    /\ pc = "r_done"
    /\ Enter("ROLLED_BACK") /\ Goto("idle")
    /\ UNCHANGED <<finish, private, child, fresh, proc>> /\ NoFault

-----------------------------------------------------------------------------
(* The runtime helper process (RuntimeTransaction, without Wine files) *)

parent == <<phase, finish, private, pc, fresh>>

\* The result is read only by a parent that is still there.
Ended(result) ==
    proc' = IF pc \in {"f_wait", "r_wait"} THEN result ELSE "none"

\* The directory of the transaction, its journal, the parent directories of its
\* files, then the files.
RuntimeInstall ==
    /\ proc = "install"
    /\ \/ /\ st["runtime"] = "none" /\ "husk" \notin damage
          /\ damage' = damage \cup {"husk"} /\ UNCHANGED <<st, shown, accepted, proc>>
       \/ /\ st["runtime"] = "open" /\ "bare" \in damage
          /\ damage' = damage \ {"bare"} /\ UNCHANGED <<st, shown, accepted, proc>>
       \/ /\ \/ st["runtime"] = "none" /\ "husk" \in damage
             \/ st["runtime"] = "open" /\ "bare" \notin damage
          /\ Forward("runtime") /\ damage' = damage \ {"husk"} /\ UNCHANGED proc
       \/ st["runtime"] = "live" /\ Ended("done") /\ UNCHANGED child
    /\ UNCHANGED parent /\ NoFault

\* It raises before its journal exists, or turns to its own rollback.
RuntimeInstallFails ==
    /\ proc = "install" /\ Fault
    /\ \/ st["runtime"] = "none" /\ Ended("failed")
       \/ st["runtime"] = "open" /\ proc' = "revert"
    /\ UNCHANGED <<parent, child, host>>

\* restore_record: every role's parent directory is opened, and a missing one ends
\* the rollback.
RuntimeBackward ==
    /\ "bare" \notin damage /\ Backward("runtime")
    /\ UNCHANGED <<damage, proc>>

RuntimeRevert ==
    /\ proc = "revert"
    /\ \/ RuntimeBackward
       \/ /\ st["runtime"] = "undone" \/ "bare" \in damage
          /\ Ended("failed") /\ UNCHANGED child
    /\ UNCHANGED parent /\ NoFault

\* mutate_existing: an accepted transaction is not among those it selects.
RuntimeRollback ==
    /\ proc = "rollback"
    /\ \/ ~accepted /\ RuntimeBackward
       \/ st["runtime"] = "undone" /\ Ended("done") /\ UNCHANGED child
       \/ (accepted \/ "bare" \in damage) /\ Ended("failed") /\ UNCHANGED child
    /\ UNCHANGED parent /\ NoFault

\* The helper is killed, or stops with records it could not restore.
RuntimeDies ==
    /\ proc \in Running /\ Fault
    /\ Ended("failed")
    /\ UNCHANGED <<parent, child, host>>

-----------------------------------------------------------------------------
(* The environment *)

\* The setup command exits or raises; a helper process runs on without it.
ParentDies ==
    /\ pc # "idle" /\ Fault
    /\ Goto("idle")
    /\ proc' = IF proc \in Running THEN proc ELSE "none"
    /\ UNCHANGED <<phase, finish, private, fresh, child, host>>

\* subprocess.run's 180 seconds are over: the helper is killed first.
TimeOut ==
    /\ pc \in {"f_wait", "r_wait"} /\ proc \in Running /\ Fault
    /\ Goto("idle") /\ proc' = "none"
    /\ UNCHANGED <<phase, finish, private, fresh, child, host>>

\* Steam creates the prefix when the game is started with the published tool.
SteamCreatesPrefix ==
    /\ LeaseFree /\ "tool" \in shown /\ ~prefix
    /\ prefix' = TRUE
    /\ UNCHANGED <<parent, child, proc, plan, bound, clean, foreign, faults>>

\* The prefix is deleted or rebuilt, the game moved or updated, or somebody installs
\* runtime components apart from this setup, which may make the parent directories,
\* and rolls them back.
HostChange ==
    /\ LeaseFree
    /\ \/ /\ "prefix" \in HostChanges /\ prefix
          /\ prefix' = FALSE /\ UNCHANGED <<bound, clean, foreign, damage>>
       \/ /\ "replaced" \in HostChanges /\ bound
          /\ bound' = FALSE /\ UNCHANGED <<prefix, clean, foreign, damage>>
       \/ /\ "duplicates" \in HostChanges /\ clean
          /\ clean' = FALSE /\ UNCHANGED <<prefix, bound, foreign, damage>>
       \/ /\ "foreign" \in HostChanges /\ ~foreign
          /\ st["runtime"] \in {"none", "undone"} /\ "husk" \notin damage
          /\ foreign' = TRUE /\ damage' \in {damage, damage \ {"bare"}}
          /\ UNCHANGED <<prefix, bound, clean>>
       \/ foreign /\ foreign' = FALSE /\ UNCHANGED <<prefix, bound, clean, damage>>
    /\ UNCHANGED <<parent, st, shown, accepted, proc, plan, faults>>

\* install-runtime-components accept and rollback, run by hand.
UserAccept ==
    /\ "accept" \in UserCommands /\ LeaseFree /\ ChildInstalled
    /\ accepted' = TRUE
    /\ UNCHANGED <<parent, st, shown, damage, proc, host, faults>>

UserRollback ==
    /\ "rollback" \in UserCommands /\ LeaseFree
    /\ st["runtime"] = "open" \/ ChildInstalled
    /\ proc' = "rollback"
    /\ UNCHANGED <<parent, child, host, faults>>

-----------------------------------------------------------------------------
PrepareStep == \/ \E f \in Copies : PrepareCopy(f)
               \/ PreparePublish \/ PreparePublished \/ PrepareDone
FinishStep == \/ FinishCheck \/ FinishCopy \/ FinishCopied \/ FinishRuntime
              \/ FinishWait \/ FinishVerify
RollbackStep == \/ RollbackRuntime \/ RollbackWait \/ RollbackLicensed
                \/ RollbackTool \/ RollbackDone
RuntimeStep == RuntimeInstall \/ RuntimeRevert \/ RuntimeRollback

Step == PrepareStep \/ FinishStep \/ RollbackStep \/ RuntimeStep
Faulty == \/ \E f \in Copies : CopyInterrupted(f)
          \/ PublishLost \/ RuntimeInstallFails \/ RuntimeDies \/ ParentDies \/ TimeOut
Command == Prepare \/ PrepareResume \/ FinishPlan \/ FinishResume \/ Rollback
Environment == SteamCreatesPrefix \/ HostChange \/ UserAccept \/ UserRollback

Next == Step \/ Command \/ Faulty \/ Environment

Spec == Init /\ [][Next]_vars

\* Processes that run go on; an operator whose setup is unfinished asks for
\* the rollback in the end, whatever else is tried before.
FairSpec ==
    /\ Spec
    /\ WF_vars(Step)
    /\ SF_vars(Rollback /\ phase # "READY_TO_ATTEMPT")

-----------------------------------------------------------------------------
(* Correctness *)

\* READY_TO_ATTEMPT is written only over three complete children.
ReadyMeansComplete ==
    [][phase # "READY_TO_ATTEMPT" /\ phase' = "READY_TO_ATTEMPT" =>
         /\ \A c \in Children : st[c] = "live"
         /\ shown = Changing /\ ~accepted /\ finish]_vars

\* The tool appears before the files that need it and goes after them, at
\* every step of every interrupted command.
ToolOutlivesItsUsers == shown # {} => "tool" \in shown

\* The inherited lease keeps every command away from an orphaned helper: a
\* helper that runs is the one the running command waits for, or alone.
OneWriter == proc \in Running => pc \in {"idle", "f_wait", "r_wait"}

Withdrawn == phase \in {"ROLLING_BACK", "ROLLED_BACK"}

\* Once the intent to roll back is durable, no command, resumed or orphaned,
\* starts or completes a child.
WithdrawalIsFinal ==
    [][Withdrawn =>
         /\ Withdrawn'
         /\ \A c \in Children :
               /\ c \in shown' => c \in shown
               /\ st'[c] = "live" => st[c] = "live"
               /\ st[c] = "none" => st'[c] = "none"]_vars

WholeSt == CASE phase = "NONE"             -> "none"
             [] phase = "READY_TO_ATTEMPT" -> "live"
             [] phase = "ROLLED_BACK"      -> "undone"
             [] OTHER                      -> "open"

Whole == INSTANCE OwnedChange
            WITH st <- WholeSt, shown <- shown # {}

\* The whole setup is itself such a change: nothing of it is visible before
\* its state is recorded or after it says ROLLED_BACK.
SetupIsOwnedChange == Whole!Spec

Unfinished == phase \in Phases \ {"READY_TO_ATTEMPT", "ROLLED_BACK"}

\* Why a setup cannot be left: once Finish is recorded, a prefix that is not
\* accepted, a runtime transaction of another owner or one that died before its
\* journal; a runtime child that died before its parent directories existed, or that
\* the user accepted by hand; a publication whose tool was lost.
Stranded ==
    \/ finish /\ ~(PrefixAccepted /\ ChildReadable)
    \/ accepted \/ "lost" \in damage
    \/ st["runtime"] = "open" /\ "bare" \in damage

\* Every unfinished setup can be left, completed or rolled back, whatever was
\* interrupted, unless one of the reasons above is there and stays for ever.
SettlesUnlessStranded == [](Unfinished => <>(~Unfinished \/ []Stranded))
=============================================================================
