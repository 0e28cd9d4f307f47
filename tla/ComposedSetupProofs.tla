------------------------- MODULE ComposedSetupProofs -------------------------
(***************************************************************************)
(* What holds of the composed setup for any number of exits, time-outs and *)
(* failures, for both dispositions of the licensed copy, on any host and   *)
(* whatever the user does with the runtime installer by hand.              *)
(***************************************************************************)
EXTENDS ComposedSetup, TLAPS

Settled(c) == st[c] \in {"none", "undone"}

\* A command at work has written the phase it works under.
PhaseOfStep ==
    /\ pc \in PrepareSteps  => phase = "PREPARING"
    /\ pc \in FinishSteps   => phase = "INSTALLING_FINISH"
    /\ pc \in RollbackSteps => phase = "ROLLING_BACK"

\* Which process can be there at which step of the command.
ProcessOfStep ==
    /\ pc = "f_wait" => proc \in {"install", "revert", "done", "failed"}
    /\ pc = "r_wait" => proc \in {"rollback", "done", "failed"}
    /\ pc = "idle"   => proc \in Running \cup {"none"}
    /\ pc \notin {"idle", "f_wait", "r_wait"} => proc = "none"

\* An installing helper, waited for or orphaned, belongs to an open Finish.
InstallingUnderFinish == proc = "install" => phase = "INSTALLING_FINISH"

\* A child shows what its journal admits to.
ShownIsOwned ==
    \A c \in Children :
        /\ Settled(c) => c \notin shown
        /\ st[c] = "live" => (c \in shown <=> c \in Changing)
        /\ c \in shown => c \in Changing

\* The files that need the tool exist only over a published tool.
ToolUnderneath ==
    /\ st["tool"] # "live" => Settled("licensed") /\ Settled("runtime")
    /\ phase \in {"AWAITING_STEAM_PREFIX", "INSTALLING_FINISH", "READY_TO_ATTEMPT"}
         => st["tool"] = "live"
    /\ pc = "prepared" => st["tool"] = "live"
    /\ phase = "NONE" => st["tool"] = "none"

\* The plan is recorded before there is a runtime child to undo.
FinishRecorded ==
    /\ phase \in {"INSTALLING_FINISH", "READY_TO_ATTEMPT"} => finish
    /\ ~Settled("runtime") => finish

\* What Finish knows of the two children it has installed.
FinishProgress ==
    /\ pc \in {"runtime", "f_wait", "verify"} => st["licensed"] = "live"
    /\ pc \in {"copy", "runtime"} /\ ~fresh => ChildInstalled
    /\ pc = "verify" => ChildInstalled

\* The rollback undoes the children in order.
RollbackProgress ==
    /\ pc \in {"r_licensed", "r_tool", "r_done"} => Settled("runtime")
    /\ pc \in {"r_tool", "r_done"} => Settled("licensed")
    /\ pc = "r_done" => Settled("tool")
    /\ phase = "ROLLED_BACK" => \A c \in Children : Settled(c)

IInv ==
    /\ TypeOK
    /\ PhaseOfStep
    /\ ProcessOfStep
    /\ InstallingUnderFinish
    /\ ShownIsOwned
    /\ ToolUnderneath
    /\ FinishRecorded
    /\ FinishProgress
    /\ RollbackProgress

-----------------------------------------------------------------------------
\* The invariant holds before the first command.
LEMMA InitInv == Init => IInv
<1> SUFFICES ASSUME Init PROVE IInv
  OBVIOUS
<1> USE DEF Init, Settled, Children, Copies, PrepareSteps, FinishSteps,
        RollbackSteps, Running, Damages, ChildInstalled
<1>1. TypeOK
  <2>1. faults \in 0..MaxFaults /\ plan \in Dispositions
    BY ConstantsAssumption
  <2>2. /\ private \in [Copies -> {"absent", "partial", "whole"}]
        /\ st \in [Children -> {"none", "open", "live", "undone"}]
        /\ shown \in SUBSET Children /\ damage \in SUBSET Damages
    OBVIOUS
  <2>3. /\ finish \in BOOLEAN /\ accepted \in BOOLEAN /\ prefix \in BOOLEAN
        /\ fresh \in BOOLEAN /\ bound \in BOOLEAN /\ clean \in BOOLEAN
        /\ foreign \in BOOLEAN
    OBVIOUS
  <2> QED BY <2>1, <2>2, <2>3 DEF TypeOK
<1>2. PhaseOfStep /\ ProcessOfStep /\ InstallingUnderFinish
  BY DEF PhaseOfStep, ProcessOfStep, InstallingUnderFinish
<1>3. ShownIsOwned /\ ToolUnderneath
  BY DEF ShownIsOwned, ToolUnderneath
<1>4. FinishRecorded /\ FinishProgress /\ RollbackProgress
  BY DEF FinishRecorded, FinishProgress, RollbackProgress
<1> QED BY <1>1, <1>2, <1>3, <1>4 DEF IInv

\* Starting a command: the lease is free, so nobody is at work.
LEMMA CommandInv == ASSUME IInv, Command PROVE IInv'
<1> USE DEF IInv, TypeOK, PhaseOfStep, ProcessOfStep, InstallingUnderFinish,
        ShownIsOwned, ToolUnderneath, FinishRecorded, FinishProgress,
        RollbackProgress, Settled, Children, Copies, PrepareSteps, FinishSteps,
        RollbackSteps, Running, Damages, ChildInstalled, Changing, Goto, Enter, Decide,
        NoFault, host, child, LeaseFree, Phases
<1>1. CASE Prepare
  BY <1>1 DEF Prepare
<1>2. CASE PrepareResume
  BY <1>2 DEF PrepareResume
<1>3. CASE FinishPlan
  BY <1>3 DEF FinishPlan
<1>4. CASE FinishResume
  BY <1>4 DEF FinishResume
<1>5. CASE Rollback
  BY <1>5 DEF Rollback
<1> QED BY <1>1, <1>2, <1>3, <1>4, <1>5 DEF Command

\* Every step of Prepare.
LEMMA PrepareInv == ASSUME IInv, PrepareStep PROVE IInv'
<1> USE DEF IInv, TypeOK, PhaseOfStep, ProcessOfStep, InstallingUnderFinish,
        ShownIsOwned, ToolUnderneath, FinishRecorded, FinishProgress,
        RollbackProgress, Settled, Children, Copies, PrepareSteps, FinishSteps,
        RollbackSteps, Running, Damages, ChildInstalled, Changing, Goto, Enter, Decide,
        Refuse, NoFault, host, child, Phases
<1>1. ASSUME NEW f \in Copies, PrepareCopy(f) PROVE IInv'
  BY <1>1 DEF PrepareCopy, AfterCopy
<1>2. CASE PreparePublish
  <2> USE <1>2 DEF PreparePublish, Moving
  <2>1. CASE st["tool"] = "none" /\ Mark("tool", "open")
    BY <2>1, ZenonT(60) DEF Mark
  <2>2. CASE st["tool"] = "open" /\ "tool" \in Changing /\ Show("tool")
    BY <2>2, ZenonT(60) DEF Show
  <2>3. CASE /\ st["tool"] = "open" /\ ("tool" \in shown <=> "tool" \in Changing)
             /\ Mark("tool", "live")
    BY <2>3, ZenonT(60) DEF Mark
  <2>4. CASE "lost" \in damage /\ Refuse /\ NoFault
    BY <2>4
  <2> QED BY <2>1, <2>2, <2>3, <2>4 DEF Forward
<1>3. CASE PreparePublished
  BY <1>3 DEF PreparePublished
<1>4. CASE PrepareDone
  BY <1>4 DEF PrepareDone
<1> QED BY <1>1, <1>2, <1>3, <1>4 DEF PrepareStep

\* Every step of Finish.
LEMMA FinishInv == ASSUME IInv, FinishStep PROVE IInv'
<1> USE DEF IInv, TypeOK, PhaseOfStep, ProcessOfStep, InstallingUnderFinish,
        ShownIsOwned, ToolUnderneath, FinishRecorded, FinishProgress,
        RollbackProgress, Settled, Children, Copies, PrepareSteps, FinishSteps,
        RollbackSteps, Running, Damages, ChildInstalled, Changing, Goto, Enter, Decide,
        Refuse, NoFault, host, child, Phases
<1>1. CASE FinishCheck
  <2> USE <1>1 DEF FinishCheck
  <2>1. CASE MayFinish
    BY <2>1 DEF MayFinish
  <2>2. CASE ~MayFinish
    BY <2>2
  <2> QED BY <2>1, <2>2
<1>2. CASE FinishCopy
  <2> USE <1>2 DEF FinishCopy, Moving
  <2>1. CASE st["licensed"] = "none" /\ Mark("licensed", "open")
    BY <2>1 DEF Mark
  <2>2. CASE st["licensed"] = "open" /\ "licensed" \in Changing /\ Show("licensed")
    BY <2>2 DEF Show
  <2>3. CASE /\ st["licensed"] = "open" /\ ("licensed" \in shown <=> "licensed" \in Changing)
             /\ Mark("licensed", "live")
    BY <2>3 DEF Mark
  <2> QED BY <2>1, <2>2, <2>3 DEF Forward
<1>3. CASE FinishCopied
  BY <1>3 DEF FinishCopied
<1>4. CASE FinishRuntime
  BY <1>4 DEF FinishRuntime
<1>5. CASE FinishWait
  BY <1>5 DEF FinishWait
<1>6. CASE FinishVerify
  BY <1>6 DEF FinishVerify
<1> QED BY <1>1, <1>2, <1>3, <1>4, <1>5, <1>6 DEF FinishStep

\* Every step of Rollback.
LEMMA RollbackInv == ASSUME IInv, RollbackStep PROVE IInv'
<1> USE DEF IInv, TypeOK, PhaseOfStep, ProcessOfStep, InstallingUnderFinish,
        ShownIsOwned, ToolUnderneath, FinishRecorded, FinishProgress,
        RollbackProgress, Settled, Children, Copies, PrepareSteps, FinishSteps,
        RollbackSteps, Running, Damages, ChildInstalled, Changing, Goto, Enter, Decide,
        Refuse, NoFault, host, child, Phases
<1>1. CASE RollbackRuntime
  BY <1>1 DEF RollbackRuntime
<1>2. CASE RollbackWait
  BY <1>2 DEF RollbackWait
<1>3. CASE RollbackLicensed
  <2> USE <1>3 DEF RollbackLicensed, UndoChild, Moving
  <2>1. CASE st["licensed"] = "live" /\ Mark("licensed", "open")
    BY <2>1, ZenonT(60) DEF Mark
  <2>2. CASE st["licensed"] = "open" /\ Hide("licensed")
    BY <2>2, ZenonT(60) DEF Hide
  <2>3. CASE st["licensed"] = "open" /\ "licensed" \notin shown /\ Mark("licensed", "undone")
    BY <2>3, ZenonT(60) DEF Mark
  <2>4. CASE Settled("licensed") /\ Decide("r_tool") /\ NoFault
    BY <2>4
  <2> QED BY <2>1, <2>2, <2>3, <2>4 DEF Backward
<1>4. CASE RollbackTool
  <2> USE <1>4 DEF RollbackTool, UndoChild, Moving
  <2>1. CASE st["tool"] = "live" /\ Mark("tool", "open")
    BY <2>1, ZenonT(60) DEF Mark
  <2>2. CASE st["tool"] = "open" /\ Hide("tool")
    BY <2>2, ZenonT(60) DEF Hide
  <2>3. CASE st["tool"] = "open" /\ "tool" \notin shown /\ Mark("tool", "undone")
    BY <2>3, ZenonT(60) DEF Mark
  <2>4. CASE Settled("tool") /\ Decide("r_done") /\ NoFault
    BY <2>4
  <2> QED BY <2>1, <2>2, <2>3, <2>4 DEF Backward
<1>5. CASE RollbackDone
  BY <1>5 DEF RollbackDone
<1> QED BY <1>1, <1>2, <1>3, <1>4, <1>5 DEF RollbackStep

\* Every step of the runtime helper, with or without a parent.
LEMMA RuntimeInv == ASSUME IInv, RuntimeStep PROVE IInv'
<1> USE DEF IInv, TypeOK, PhaseOfStep, ProcessOfStep, InstallingUnderFinish,
        ShownIsOwned, ToolUnderneath, FinishRecorded, FinishProgress,
        RollbackProgress, Settled, Children, Copies, PrepareSteps, FinishSteps,
        RollbackSteps, Running, Damages, ChildInstalled, Changing, NoFault, host, child,
        parent, Ended, Phases
<1>1. CASE RuntimeInstall
  <2> USE <1>1 DEF RuntimeInstall
  <2>0. damage' \in SUBSET Damages
    OBVIOUS
  <2>1. CASE st["runtime"] = "none" /\ Mark("runtime", "open") /\ UNCHANGED proc
    BY <2>0, <2>1 DEF Mark
  <2>2. CASE /\ st["runtime"] = "open" /\ "runtime" \in Changing
             /\ Show("runtime") /\ UNCHANGED proc
    BY <2>0, <2>2 DEF Show
  <2>3. CASE /\ st["runtime"] = "open"
             /\ "runtime" \in shown <=> "runtime" \in Changing
             /\ Mark("runtime", "live") /\ UNCHANGED proc
    BY <2>0, <2>3 DEF Mark
  <2>4. CASE UNCHANGED <<st, shown, accepted>>
    BY <2>0, <2>4 DEF Forward, Mark, Show
  <2> QED BY <2>1, <2>2, <2>3, <2>4 DEF Forward
<1>2. ASSUME RuntimeBackward, proc \in {"revert", "rollback"}, UNCHANGED parent, NoFault
      PROVE  IInv'
  <2> USE <1>2 DEF RuntimeBackward
  <2>1. CASE st["runtime"] = "live" /\ Mark("runtime", "open")
    BY <2>1 DEF Mark
  <2>2. CASE st["runtime"] = "open" /\ Hide("runtime")
    BY <2>2 DEF Hide
  <2>3. CASE st["runtime"] = "open" /\ "runtime" \notin shown /\ Mark("runtime", "undone")
    BY <2>3 DEF Mark
  <2> QED BY <2>1, <2>2, <2>3 DEF Backward
<1>3. CASE RuntimeRevert
  <2>1. CASE UNCHANGED child
    BY <1>3, <2>1 DEF RuntimeRevert, RuntimeBackward, Backward, Mark, Hide
  <2> QED BY <1>2, <1>3, <2>1 DEF RuntimeRevert
<1>4. CASE RuntimeRollback
  <2>1. CASE UNCHANGED child
    BY <1>4, <2>1 DEF RuntimeRollback, RuntimeBackward, Backward, Mark, Hide
  <2> QED BY <1>2, <1>4, <2>1 DEF RuntimeRollback
<1> QED BY <1>1, <1>3, <1>4 DEF RuntimeStep

\* Exits, time-outs and failures of either process.
LEMMA FaultyInv == ASSUME IInv, Faulty PROVE IInv'
<1> USE ConstantsAssumption
    DEF IInv, TypeOK, PhaseOfStep, ProcessOfStep, InstallingUnderFinish,
        ShownIsOwned, ToolUnderneath, FinishRecorded, FinishProgress,
        RollbackProgress, Settled, Children, Copies, PrepareSteps, FinishSteps,
        RollbackSteps, Running, Damages, ChildInstalled, Changing, Fault, host, child,
        parent, Ended, Goto, Phases
<1>1. ASSUME NEW f \in Copies, CopyInterrupted(f) PROVE IInv'
  BY <1>1 DEF CopyInterrupted
<1>2. CASE RuntimeInstallFails
  BY <1>2 DEF RuntimeInstallFails
<1>3. CASE RuntimeDies
  BY <1>3 DEF RuntimeDies
<1>4. CASE ParentDies
  BY <1>4 DEF ParentDies
<1>5. CASE TimeOut
  BY <1>5 DEF TimeOut
<1>6. CASE PublishLost
  BY <1>6 DEF PublishLost
<1> QED BY <1>1, <1>2, <1>3, <1>4, <1>5, <1>6 DEF Faulty

\* Steam, the host and the user act only while the lease is free.
LEMMA EnvironmentInv == ASSUME IInv, Environment PROVE IInv'
<1> USE DEF IInv, TypeOK, PhaseOfStep, ProcessOfStep, InstallingUnderFinish,
        ShownIsOwned, ToolUnderneath, FinishRecorded, FinishProgress,
        RollbackProgress, Settled, Children, Copies, PrepareSteps, FinishSteps,
        RollbackSteps, Running, Damages, ChildInstalled, Changing, host, child, parent,
        LeaseFree, Phases
<1>1. CASE SteamCreatesPrefix
  BY <1>1 DEF SteamCreatesPrefix
<1>2. CASE HostChange
  <2>1. UNCHANGED <<phase, finish, private, pc, fresh, st, shown, accepted, proc,
                    plan, faults>>
    BY <1>2 DEF HostChange
  <2>2. /\ prefix' \in BOOLEAN /\ bound' \in BOOLEAN /\ clean' \in BOOLEAN
        /\ foreign' \in BOOLEAN /\ damage' \in SUBSET Damages
    BY <1>2 DEF HostChange
  <2> QED BY <2>1, <2>2
<1>3. CASE UserAccept
  BY <1>3 DEF UserAccept
<1>4. CASE UserRollback
  BY <1>4 DEF UserRollback
<1> QED BY <1>1, <1>2, <1>3, <1>4 DEF Environment

\* The inductive invariant of the setup.
THEOREM Invariance == Spec => []IInv
<1>1. IInv /\ [Next]_vars => IInv'
  <2> SUFFICES ASSUME IInv, [Next]_vars PROVE IInv'
    OBVIOUS
  <2>1. CASE Next
    BY <2>1, PrepareInv, FinishInv, RollbackInv, RuntimeInv, CommandInv,
       FaultyInv, EnvironmentInv DEF Next, Step
  <2>2. CASE UNCHANGED vars
    BY <2>2 DEF vars, IInv, TypeOK, PhaseOfStep, ProcessOfStep,
       InstallingUnderFinish, ShownIsOwned, ToolUnderneath, FinishRecorded,
       FinishProgress, RollbackProgress, Settled, ChildInstalled, Changing
  <2> QED BY <2>1, <2>2
<1> QED BY InitInv, <1>1, PTL DEF Spec

\* The state is well typed whatever process dies and whenever.
THEOREM TypeCorrect == Spec => []TypeOK
  BY Invariance, PTL DEF IInv

\* The tool is visible whenever anything of the setup is: it comes first and
\* goes last (ToolUnderneath), through every interrupted command.
THEOREM ToolFirstAndLast == Spec => []ToolOutlivesItsUsers
<1>1. IInv => ToolOutlivesItsUsers
  BY DEF IInv, TypeOK, ShownIsOwned, ToolUnderneath, ToolOutlivesItsUsers,
     Settled, Changing, Children
<1> QED BY Invariance, <1>1, PTL

\* A helper process and a command never work at the same time, unless the
\* command waits for that helper.
THEOREM SingleWriter == Spec => []OneWriter
<1>1. IInv => OneWriter
  BY DEF IInv, ProcessOfStep, OneWriter, Running
<1> QED BY Invariance, <1>1, PTL

\* READY_TO_ATTEMPT is written only by FinishVerify, which is reached only with
\* both children installed over the published tool.
THEOREM ReadyIsComplete == Spec => ReadyMeansComplete
<1>1. ASSUME IInv, [Next]_vars,
             phase # "READY_TO_ATTEMPT", phase' = "READY_TO_ATTEMPT"
      PROVE  /\ \A c \in Children : st[c] = "live"
             /\ shown = Changing /\ ~accepted /\ finish
  <2>1. Next
    BY <1>1 DEF vars
  <2>2. FinishVerify
    BY <1>1, <2>1 DEF Next, Step, PrepareStep, FinishStep, RollbackStep,
       RuntimeStep, Command, Faulty, Environment, Refuse, Decide, Moving, Enter,
       Prepare, PrepareResume, FinishPlan, FinishResume, Rollback, PrepareCopy,
       PreparePublish, PreparePublished, PrepareDone, FinishCheck, FinishCopy,
       FinishCopied, FinishRuntime, FinishWait, RollbackRuntime, RollbackWait,
       RollbackLicensed, RollbackTool, RollbackDone, UndoChild, RuntimeInstall,
       RuntimeRevert, RuntimeRollback, CopyInterrupted, PublishLost, RuntimeInstallFails,
       RuntimeDies, ParentDies, TimeOut, SteamCreatesPrefix, HostChange,
       UserAccept, UserRollback, parent
  <2>3. pc = "verify"
    BY <2>2 DEF FinishVerify
  <2>4. phase = "INSTALLING_FINISH"
    BY <1>1, <2>3 DEF IInv, PhaseOfStep, FinishSteps
  <2>5. /\ st["licensed"] = "live" /\ st["runtime"] = "live" /\ ~accepted
        /\ st["tool"] = "live" /\ finish
    BY <1>1, <2>3, <2>4 DEF IInv, FinishProgress, ToolUnderneath, FinishRecorded,
       ChildInstalled
  <2> QED BY <1>1, <2>5 DEF IInv, TypeOK, ShownIsOwned, Children, Changing
<1>2. ASSUME IInv, [Next]_vars
      PROVE  [phase # "READY_TO_ATTEMPT" /\ phase' = "READY_TO_ATTEMPT" =>
                /\ \A c \in Children : st[c] = "live"
                /\ shown = Changing /\ ~accepted /\ finish]_vars
  BY <1>1, <1>2
<1> QED BY Invariance, <1>2, PTL DEF Spec, ReadyMeansComplete

-----------------------------------------------------------------------------
\* The ways a step can touch the children: none, one of them towards live, or
\* one of them back; and under which phase each happens.
LEMMA ChildSteps ==
  ASSUME IInv, Next
  PROVE  \/ UNCHANGED <<st, shown>>
         \/ /\ UNCHANGED phase
            /\ \/ phase = "PREPARING" /\ Forward("tool")
               \/ phase = "INSTALLING_FINISH" /\ Forward("licensed")
               \/ phase = "INSTALLING_FINISH" /\ Forward("runtime")
               \/ Backward("runtime")
               \/ phase = "ROLLING_BACK" /\ Backward("licensed")
               \/ phase = "ROLLING_BACK" /\ pc = "r_tool" /\ Backward("tool")
<1> USE DEF IInv, PhaseOfStep, InstallingUnderFinish, PrepareSteps, FinishSteps,
        RollbackSteps, Refuse, Decide, Moving, child, parent, NoFault
<1>1. CASE Command
  BY <1>1 DEF Command, Prepare, PrepareResume, FinishPlan, FinishResume, Rollback
<1>2. CASE PrepareStep
  BY <1>2 DEF PrepareStep, PrepareCopy, PreparePublish, PreparePublished,
     PrepareDone
<1>3. CASE FinishStep
  BY <1>3 DEF FinishStep, FinishCheck, FinishCopy, FinishCopied, FinishRuntime,
     FinishWait, FinishVerify
<1>4. CASE RollbackStep
  BY <1>4 DEF RollbackStep, RollbackRuntime, RollbackWait, RollbackLicensed,
     RollbackTool, RollbackDone, UndoChild
<1>5. CASE RuntimeStep
  BY <1>5 DEF RuntimeStep, RuntimeInstall, RuntimeRevert, RuntimeRollback,
     RuntimeBackward
<1>6. CASE Faulty
  BY <1>6 DEF Faulty, CopyInterrupted, PublishLost, RuntimeInstallFails, RuntimeDies,
     ParentDies, TimeOut
<1>7. CASE Environment
  BY <1>7 DEF Environment, SteamCreatesPrefix, HostChange, UserAccept,
     UserRollback
<1> QED BY <1>1, <1>2, <1>3, <1>4, <1>5, <1>6, <1>7 DEF Next, Step

\* The ways a step can write the phase.
LEMMA PhaseSteps ==
  ASSUME IInv, Next, phase' # phase
  PROVE  /\ UNCHANGED <<st, shown>>
         /\ \/ phase = "NONE" /\ phase' = "PREPARING"
            \/ phase = "PREPARING" /\ phase' = "AWAITING_STEAM_PREFIX"
            \/ phase = "AWAITING_STEAM_PREFIX" /\ phase' = "INSTALLING_FINISH"
            \/ phase = "INSTALLING_FINISH" /\ phase' = "READY_TO_ATTEMPT"
            \/ phase \notin {"NONE", "ROLLED_BACK"} /\ phase' = "ROLLING_BACK"
            \/ /\ phase = "ROLLING_BACK" /\ phase' = "ROLLED_BACK"
               /\ pc = "r_done"
<1> USE DEF IInv, PhaseOfStep, PrepareSteps, FinishSteps, RollbackSteps, Refuse,
        Decide, Moving, child, parent, NoFault, Enter
<1>1. CASE Command
  BY <1>1 DEF Command, Prepare, PrepareResume, FinishPlan, FinishResume, Rollback
<1>2. CASE PrepareStep
  BY <1>2 DEF PrepareStep, PrepareCopy, PreparePublish, PreparePublished,
     PrepareDone
<1>3. CASE FinishStep
  BY <1>3 DEF FinishStep, FinishCheck, FinishCopy, FinishCopied, FinishRuntime,
     FinishWait, FinishVerify
<1>4. CASE RollbackStep
  BY <1>4 DEF RollbackStep, RollbackRuntime, RollbackWait, RollbackLicensed,
     RollbackTool, RollbackDone, UndoChild
<1>5. CASE RuntimeStep
  BY <1>5 DEF RuntimeStep, RuntimeInstall, RuntimeRevert, RuntimeRollback,
     RuntimeBackward
<1>6. CASE Faulty
  BY <1>6 DEF Faulty, CopyInterrupted, PublishLost, RuntimeInstallFails, RuntimeDies,
     ParentDies, TimeOut
<1>7. CASE Environment
  BY <1>7 DEF Environment, SteamCreatesPrefix, HostChange, UserAccept,
     UserRollback
<1> QED BY <1>1, <1>2, <1>3, <1>4, <1>5, <1>6, <1>7 DEF Next, Step

\* Once the intent to roll back is durable, children only move back.
THEOREM WithdrawalStands == Spec => WithdrawalIsFinal
<1>1. ASSUME IInv, [Next]_vars, Withdrawn
      PROVE  /\ Withdrawn'
             /\ \A c \in Children :
                   /\ c \in shown' => c \in shown
                   /\ st'[c] = "live" => st[c] = "live"
                   /\ st[c] = "none" => st'[c] = "none"
  <2> USE <1>1 DEF Withdrawn
  <2>1. CASE UNCHANGED vars
    BY <2>1 DEF vars
  <2>2. CASE Next /\ phase' # phase
    BY <2>2, PhaseSteps
  <2>3. CASE Next /\ phase' = phase /\ UNCHANGED <<st, shown>>
    BY <2>3
  <2>4. ASSUME NEW c \in Children, Backward(c), phase' = phase
        PROVE  /\ Withdrawn'
               /\ \A d \in Children :
                     /\ d \in shown' => d \in shown
                     /\ st'[d] = "live" => st[d] = "live"
                     /\ st[d] = "none" => st'[d] = "none"
    BY <2>4 DEF Backward, Mark, Hide, IInv, TypeOK
  <2>5. CASE Next /\ phase' = phase /\ ~UNCHANGED <<st, shown>>
    <3>1. \E c \in Children : Backward(c)
      BY <2>5, ChildSteps DEF Children
    <3> QED BY <3>1, <2>4, <2>5
  <2> QED BY <2>1, <2>2, <2>3, <2>5
<1>2. ASSUME IInv, [Next]_vars
      PROVE  [Withdrawn =>
                /\ Withdrawn'
                /\ \A c \in Children :
                      /\ c \in shown' => c \in shown
                      /\ st'[c] = "live" => st[c] = "live"
                      /\ st[c] = "none" => st'[c] = "none"]_vars
  BY <1>1, <1>2
<1> QED BY Invariance, <1>2, PTL DEF Spec, WithdrawalIsFinal

\* Whether anything shows depends on the tool alone, which is shown and hidden
\* only under PREPARING and ROLLING_BACK.
LEMMA ShownStep ==
  ASSUME IInv, Next, (shown' # {}) # (shown # {})
  PROVE  UNCHANGED phase /\ phase \in {"PREPARING", "ROLLING_BACK"}
<1> USE DEF IInv, TypeOK, ShownIsOwned, ToolUnderneath, Settled, Changing,
        Children
<1>1. shown' # shown
  OBVIOUS
<1>2. CASE Forward("licensed") \/ Forward("runtime")
  BY <1>1, <1>2 DEF Forward, Mark, Show
<1>3. CASE Backward("runtime")
  BY <1>1, <1>3 DEF Backward, Mark, Hide
<1> QED BY <1>1, <1>2, <1>3, ChildSteps

\* The composed setup implements OwnedChange: nothing of it shows before its
\* state is recorded or after it says ROLLED_BACK, and that state is final.
THEOREM SetupImplementsOwnedChange == Spec => SetupIsOwnedChange
<1>1. Init => Whole!Init
  BY DEF Init, Whole!Init, WholeSt
<1>2. ASSUME IInv, [Next]_vars PROVE [Whole!Next]_(Whole!vars)
  <2> USE <1>2 DEF Whole!Next, Whole!vars, Whole!Begin, Whole!Change,
          Whole!Commit, Whole!Withdraw, Whole!Undo, WholeSt
  <2>1. CASE UNCHANGED vars
    BY <2>1 DEF vars
  <2>2. CASE Next /\ phase' # phase
    <3>1. pc = "r_done" => shown = {}
      BY DEF IInv, TypeOK, RollbackProgress, ShownIsOwned, Children
    <3> QED BY <2>2, <3>1, PhaseSteps
  <2>3. CASE Next /\ phase' = phase
    BY <2>3, ShownStep
  <2> QED BY <2>1, <2>2, <2>3
<1> QED BY Invariance, <1>1, <1>2, PTL DEF Spec, SetupIsOwnedChange, Whole!Spec
=============================================================================
