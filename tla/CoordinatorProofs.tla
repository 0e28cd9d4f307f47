--------------------------- MODULE CoordinatorProofs ---------------------------
(***************************************************************************)
(* Proofs about Coordinator, for any number of processes, every plan and   *)
(* any number of faults: what a process knows at each of its steps from    *)
(* the copy of the journal it loaded and from holding the lease.           *)
(***************************************************************************)
EXTENDS Coordinator, TLAPS

Working == FinishSteps \ {"confirmed", "planned"}
Commands == {"prepare", "finish", "resume", "rollback"}
PcOf(command) ==
    CASE command = "none"     -> {"idle"}
      [] command = "prepare"  -> PrepareSteps
      [] command = "finish"   -> FinishSteps
      [] command = "resume"   -> ResumeSteps \cup {"publish", "record", "handoff", "mark"}
                                             \cup Working
      [] command = "rollback" -> RollbackSteps

\* The phase of the copy a process holds at a step.
PhasesAt(step) ==
    CASE step = "preparing" -> {"NEW"}
      [] step \in PrepareSteps \ {"preparing"} -> {"PREPARING"}
      [] step \in {"confirmed", "planned"} -> {"AWAITING_STEAM_PREFIX"}
      [] step = "installing" -> {"PLANNED_FINISH"}
      [] step \in Working \ {"installing"} -> {"INSTALLING_FINISH"}
      [] step = "loaded" -> {"NEW", "PREPARING", "PLANNED_FINISH", "INSTALLING_FINISH"}
      [] step = "baseline" -> {"NEW", "PREPARING"}
      [] step = "preflight" -> Live
      [] step \in RollbackSteps \ {"preflight", "mark"} -> {"ROLLING_BACK"}
      [] OTHER -> Phases

Withdrawn == {"ROLLING_BACK", "RECOVERY_REQUIRED", "ROLLED_BACK"}
Early     == {"NONE", "NEW", "PREPARING"}
HandedOff == {"AWAITING_STEAM_PREFIX", "PLANNED_FINISH", "INSTALLING_FINISH", "READY_TO_ATTEMPT"}

\* A record as the transitions build it: Prepare names no tool and no plan, Finish
\* has one, and only the installation of Finish checks patches.
WellFormed(m) ==
    /\ m.phase = "NONE" => m = NoState
    /\ m.phase \in Early => m.tool = "none" /\ ~m.finish /\ ~m.child /\ ~m.backup
    /\ m.phase \in Early \cup {"AWAITING_STEAM_PREFIX"} => m.done \subseteq {"acquired", "published"}
    /\ m.phase \in {"PLANNED_FINISH", "INSTALLING_FINISH", "READY_TO_ATTEMPT"} => m.finish
    /\ m.child \/ m.backup => m.finish

\* The durable record is a later one than the copy.
Behind(m) ==
    /\ m.phase # "NONE" => j.phase # "NONE"
    /\ m.phase \in Withdrawn => j.phase \in Withdrawn
    /\ m.done \subseteq j.done
    /\ (m.finish => j.finish) /\ (m.child => j.child) /\ (m.backup => j.backup)

\* Between these steps nobody else writes the journal, but for a resume that marks it.
Fresh(m) == j = m \/ j = [m EXCEPT !.phase = "RECOVERY_REQUIRED"]

Unlocked == {"idle", "confirmed", "loaded", "returned", "latest"}
Holds(p) == pc[p] \notin Unlocked /\ ~(cmd[p] = "resume" /\ pc[p] = "mark")

\* What a process knows of the journal and the lease.
Owner(p) == cmd[p] \in {"prepare", "rollback"} \/ (cmd[p] = "finish" /\ pc[p] \in Working)

Copy(p) ==
    /\ pc[p] \in PcOf(cmd[p]) /\ mem[p].phase \in PhasesAt(pc[p])
    /\ WellFormed(mem[p]) /\ Behind(mem[p])
    /\ Holds(p) => lease = p
    /\ Owner(p) => Fresh(mem[p])

Copies == \A p \in Procs : Copy(p)

\* What is on disk.
Disk ==
    /\ WellFormed(j)
    /\ licensed # "none" \/ runtime # "none" \/ manifest \/ patch # PatchBefore => j.finish
    /\ j.finish \/ j.phase \in HandedOff => record # "none"
    /\ j.phase \in HandedOff => tool # "absent" /\ record = j.tool
    /\ origin = "adopted" => tool = "adopted" /\ record # "created"
    /\ origin = "absent" => tool # "adopted" /\ record # "adopted"
    /\ plan.patch = "keep" => patch = "patched"
    /\ tree => runtime \notin {"installed", "accepted"}
    /\ record # "none" /\ tool = "absent" =>
          /\ licensed \in {"none", "rolled_back"}
          /\ runtime \in {"none", "reserved", "rolled_back"} /\ patch = PatchBefore
    /\ helper => /\ runtime \in {"open", "bare", "rolling_back"}
                 /\ \A p \in Procs : Holds(p) => pc[p] \in {"wait", "undo_wait"}

After(step) == CASE step = "undo_patches"  -> {"undo_runtime", "undo_wait", "undo_licensed",
                                              "undo_tool", "undone"}
                 [] step = "undo_runtime"  -> {"undo_licensed", "undo_tool", "undone"}
                 [] step = "undo_licensed" -> {"undo_tool", "undone"}
                 [] step = "undo_tool"     -> {"undone"}

\* What a process that holds the lease has established and nobody can undo.
Knows(p) ==
    /\ pc[p] = "record" => tool # "absent" /\ record = "none"
    /\ pc[p] \in {"published", "handoff"} => tool # "absent" /\ record # "none"
    /\ pc[p] \in Working \cup {"planned"} => prefix /\ tool # "absent"
    /\ pc[p] \in {"runtime", "wait", "child", "status", "patch", "patched", "verify", "ready"} =>
          licensed = "installed" \/ plan.licensed = "keep"
    /\ pc[p] \in {"status", "patch", "patched", "verify", "ready"} /\ plan.runtime = "install" =>
          mem[p].child
    /\ pc[p] \in {"patch", "patched", "verify", "ready"} /\ plan.runtime = "install" =>
          runtime = "installed"
    /\ cmd[p] = "finish" /\ pc[p] \in Working \ {"verify", "ready"} =>
          mem[p].done \cap {"applied", "verified"} = {}
    /\ pc[p] \in {"patched", "verify", "ready"} => patch = "patched"
    /\ pc[p] \in {"verify", "ready"} /\ plan.patch = "apply" => mem[p].backup
    /\ pc[p] \in After("undo_patches") => patch = PatchBefore
    /\ pc[p] \in After("undo_runtime") => runtime \in {"none", "reserved", "rolled_back", "accepted"}
    /\ pc[p] \in After("undo_licensed") => licensed \in {"none", "rolled_back"}
    /\ pc[p] = "undone" => /\ record = "adopted" => tree
                           /\ record = "created" => tool = "absent"

Established == \A p \in Procs : Knows(p)

IInv == TypeOK /\ Copies /\ Disk /\ Established

ControlTypes ==
    /\ j \in States /\ mem \in [Procs -> States]
    /\ cmd \in [Procs -> {"none"} \cup Commands]
    /\ pc \in [Procs -> {"idle"} \cup PrepareSteps \cup FinishSteps
                              \cup ResumeSteps \cup RollbackSteps]
    /\ lease \in Procs \cup {NoOne} /\ faults \in 0..MaxFaults

DiskTypes ==
    /\ files \subseteq {"plan", "before"} /\ record \in {"none", "created", "adopted"}
    /\ origin \in Origins /\ plan \in Plans
    /\ helper \in BOOLEAN /\ prefix \in BOOLEAN /\ tree \in BOOLEAN /\ manifest \in BOOLEAN
    /\ tool \in {"absent", "own", "adopted"}
    /\ licensed \in {"none", "reserved", "open", "installed", "rolled_back",
                     "recovery_required"}
    /\ runtime \in Unfinished \cup {"none", "reserved", "accepted", "rolled_back"}
    /\ patch \in {"original", "mixed", "patched"}

\* The types of the control state and of the disk, apart.
LEMMA TypeParts == TypeOK <=> ControlTypes /\ DiskTypes
  BY DEF TypeOK, ControlTypes, DiskTypes, Commands

\* The tables of steps and phases, spelled out.
LEMMA Tables ==
    /\ PcOf("none") = {"idle"}
    /\ PcOf("prepare") = PrepareSteps /\ PcOf("finish") = FinishSteps
    /\ PcOf("resume") = ResumeSteps \cup {"publish", "record", "handoff", "mark"} \cup Working
    /\ PcOf("rollback") = RollbackSteps
    /\ PhasesAt("preparing") = {"NEW"}
    /\ \A step \in PrepareSteps \ {"preparing"} : PhasesAt(step) = {"PREPARING"}
    /\ \A step \in {"confirmed", "planned"} : PhasesAt(step) = {"AWAITING_STEAM_PREFIX"}
    /\ PhasesAt("installing") = {"PLANNED_FINISH"}
    /\ \A step \in Working \ {"installing"} : PhasesAt(step) = {"INSTALLING_FINISH"}
    /\ PhasesAt("loaded") = {"NEW", "PREPARING", "PLANNED_FINISH", "INSTALLING_FINISH"}
    /\ PhasesAt("baseline") = {"NEW", "PREPARING"} /\ PhasesAt("preflight") = Live
    /\ \A step \in RollbackSteps \ {"preflight", "mark"} : PhasesAt(step) = {"ROLLING_BACK"}
    /\ \A step \in {"idle", "returned", "latest", "mark"} : PhasesAt(step) = Phases
  BY DEF PcOf, PhasesAt, PrepareSteps, FinishSteps, Working, ResumeSteps, RollbackSteps, UndoSteps

\* Each step of a command, by name.
LEMMA StepSets ==
    /\ PrepareSteps = {"preparing", "plan", "before", "acquire", "publish", "record",
                       "published", "handoff"}
    /\ Working = {"installing", "licensed", "runtime", "wait", "child", "status", "patch",
                  "patched", "verify", "ready"}
    /\ FinishSteps = Working \cup {"confirmed", "planned"}
    /\ RollbackSteps = {"preflight", "mark", "undo_patches", "undo_runtime", "undo_wait",
                        "undo_licensed", "undo_tool", "undone"}
  BY DEF PrepareSteps, FinishSteps, Working, RollbackSteps, UndoSteps

-----------------------------------------------------------------------------
(* The record *)

\* A later record names all that an earlier one does.
Grows(m, n) ==
    /\ m.phase = "NONE" \/ Allowed(m.phase, n.phase)
    /\ m.done \subseteq n.done
    /\ m.tool # "none" => n.tool = m.tool
    /\ (m.finish => n.finish) /\ (m.child => n.child) /\ (m.backup => n.backup)

\* Nothing leads back to NONE, out of the withdrawal, or past the handoff but
\* through it.
LEMMA AllowedFact ==
    ASSUME NEW from, NEW to, Allowed(from, to)
    PROVE  /\ from # "NONE" /\ to # "NONE" /\ from # "ROLLED_BACK"
           /\ from \in Withdrawn => to \in Withdrawn
           /\ to \in HandedOff => from \in HandedOff \/ to = "AWAITING_STEAM_PREFIX"
           /\ to = "ROLLED_BACK" => from = "ROLLING_BACK"
  <1>1. DOMAIN Forward = {"NEW", "PREPARING", "AWAITING_STEAM_PREFIX", "PLANNED_FINISH",
                          "INSTALLING_FINISH"}
    BY DEF Forward
  <1> QED BY <1>1 DEF Allowed, Live, Withdrawn, HandedOff, Forward

-----------------------------------------------------------------------------
(* The other processes *)

\* A step of p leaves the control state of the others, and does not take the lease
\* from them.
Others(p) ==
    \A q \in Procs \ {p} : /\ pc'[q] = pc[q] /\ cmd'[q] = cmd[q] /\ mem'[q] = mem[q]
                           /\ lease = q => lease' = q

Sole(p) == \A q \in Procs \ {p} : ~Holds(q)

disk == <<record, origin, plan, prefix, helper, tool, tree, licensed, runtime, patch, manifest>>

Marked == j' = [j EXCEPT !.phase = "RECOVERY_REQUIRED"]

\* Whoever holds the lease is the only one who does.
LEMMA HolderIsSole ==
    ASSUME IInv, NEW p \in Procs, Holds(p) \/ lease = NoOne
    PROVE  Sole(p)
  BY CoordinatorAssumption DEF IInv, Copies, Copy, Sole

\* What another process knows of the journal survives a step that extends it under
\* the lease, and a resume that marks it without.
LEMMA OthersCopy ==
    ASSUME IInv, NEW p \in Procs, Others(p),
           j' = j \/ (Grows(j, j') /\ j'.phase # "NONE"),
           Sole(p) \/ j' = j \/ Marked
    PROVE  \A q \in Procs \ {p} : Copy(q)'
  <1> TAKE q \in Procs \ {p}
  <1>1. /\ pc'[q] = pc[q] /\ cmd'[q] = cmd[q] /\ mem'[q] = mem[q]
        /\ lease = q => lease' = q
    BY DEF Others
  <1>2. Copy(q)
    BY DEF IInv, Copies
  <1>3. Behind(mem[q])'
    <2>1. CASE j' = j
      BY <1>1, <1>2, <2>1 DEF Copy, Behind
    <2>2. CASE Grows(j, j') /\ j'.phase # "NONE"
      BY <1>1, <1>2, <2>2, AllowedFact DEF Copy, Behind, Grows, Withdrawn
    <2> QED BY <2>1, <2>2
  <1>4. (Holds(q) => lease = q)'
    BY <1>1, <1>2 DEF Copy, Holds
  <1>5. (Owner(q) => Fresh(mem[q]))'
    <2> SUFFICES ASSUME Owner(q) PROVE Fresh(mem[q])'
      BY <1>1 DEF Owner
    <2>1. Holds(q) /\ Fresh(mem[q]) /\ mem[q] \in States
      BY <1>2 DEF Owner, Copy, Holds, PcOf, PrepareSteps, RollbackSteps, UndoSteps, Working,
                  FinishSteps, Unlocked, IInv, TypeOK
    <2>2. j' = j \/ Marked
      BY <2>1 DEF Sole
    <2> QED BY <1>1, <2>1, <2>2 DEF Fresh, Marked, States
  <1> QED BY <1>1, <1>2, <1>3, <1>4, <1>5 DEF Copy, WellFormed

\* What another process has established survives: either it has not got the lease,
\* or the disk stays as it is.
LEMMA OthersKnow ==
    ASSUME IInv, NEW p \in Procs, Others(p), Sole(p) \/ UNCHANGED disk
    PROVE  \A q \in Procs \ {p} : Knows(q)'
  <1> TAKE q \in Procs \ {p}
  <1>1. pc'[q] = pc[q] /\ cmd'[q] = cmd[q] /\ mem'[q] = mem[q] /\ Knows(q)
    BY DEF Others, IInv, Established
  <1>2. CASE UNCHANGED disk
    <2>1. /\ record' = record /\ plan' = plan /\ prefix' = prefix /\ tool' = tool
          /\ tree' = tree /\ licensed' = licensed /\ runtime' = runtime /\ patch' = patch
      BY <1>2 DEF disk
    <2> QED BY <1>1, <2>1 DEF Knows, PatchBefore
  <1>3. CASE ~Holds(q)
    <2>1. pc[q] \in Unlocked \cup {"mark"}
      BY <1>3 DEF Holds
    <2> QED BY <1>1, <2>1 DEF Knows, Unlocked, Working, FinishSteps, After
  <1> QED BY <1>2, <1>3 DEF Sole

-----------------------------------------------------------------------------
(* The process that takes the step *)

\* A command ends, or gives up what it did under the lease.
GivesUp(p) == Stop(p) \/ Raise(p)

\* The copy of no journal at all.
LEMMA NoStateFact == NoState \in States /\ WellFormed(NoState) /\ Behind(NoState)'
  <1>1. NoState \in States
    BY Zenon DEF NoState, States, Phases
  <1>2. WellFormed(NoState) /\ Behind(NoState)'
    BY DEF NoState, WellFormed, Early, Behind, Withdrawn
  <1> QED BY <1>1, <1>2

\* Stopping leaves the others alone, and the process with nothing.
LEMMA StopFact ==
    ASSUME ControlTypes, NEW p \in Procs, Stop(p)
    PROVE  /\ Others(p) /\ pc'[p] = "idle" /\ cmd'[p] = "none" /\ mem'[p] = NoState
           /\ pc' \in [Procs -> {"idle"} \cup PrepareSteps \cup FinishSteps
                              \cup ResumeSteps \cup RollbackSteps]
           /\ cmd' \in [Procs -> {"none"} \cup Commands] /\ mem' \in [Procs -> States]
           /\ lease' \in Procs \cup {NoOne}
  BY NoStateFact DEF ControlTypes, Stop, Goto, Release, Others

\* An error ends Prepare and Finish; it takes resume and rollback to their mark.
LEMMA RaiseFact ==
    ASSUME ControlTypes, NEW p \in Procs, Raise(p), cmd[p] \in Commands
    PROVE  \/ Stop(p)
           \/ /\ Others(p) /\ cmd' = cmd /\ mem' = mem
              /\ pc' \in [Procs -> {"idle"} \cup PrepareSteps \cup FinishSteps
                              \cup ResumeSteps \cup RollbackSteps]
              /\ lease' \in Procs \cup {NoOne}
              /\ \/ cmd[p] = "resume" /\ pc'[p] = "latest"
                 \/ cmd[p] = "rollback" /\ pc'[p] = "mark" /\ lease' = lease
  <1>1. CASE cmd[p] \in {"prepare", "finish"}
    BY <1>1 DEF Raise
  <1>2. CASE cmd[p] = "resume"
    BY <1>2 DEF Raise, Goto, Release, Others, ControlTypes, ResumeSteps
  <1>3. CASE cmd[p] = "rollback"
    BY <1>3 DEF Raise, Goto, Others, ControlTypes, RollbackSteps
  <1> QED BY <1>1, <1>2, <1>3 DEF Commands

\* A process that gives up keeps what is known of the journal, and establishes
\* nothing that could be lost.
LEMMA GivesUpKeeps ==
    ASSUME IInv, NEW p \in Procs, GivesUp(p), pc[p] # "idle", j' = j, faults' \in 0..MaxFaults,
           Stop(p) \/ pc[p] # "undo_wait" \/ ~helper
    PROVE  /\ ControlTypes' /\ Copies' /\ Others(p) /\ Knows(p)'
           /\ \A q \in Procs : Holds(q)' => Holds(q) /\ (helper /\ pc[q] \in {"wait", "undo_wait"} => q # p)
  <1>1. ControlTypes /\ Copy(p)
    BY TypeParts DEF IInv, Copies
  <1>2. cmd[p] \in Commands
    BY <1>1 DEF Copy, PcOf, ControlTypes
  <1>3. CASE Stop(p)
    <2>1. /\ Others(p) /\ pc'[p] = "idle" /\ cmd'[p] = "none" /\ mem'[p] = NoState
          /\ ControlTypes'
      BY <1>1, <1>3, StopFact DEF ControlTypes
    <2>2. Copy(p)'
      <3>1. NoState.phase = "NONE"
        BY DEF NoState
      <3>2. PcOf("none") = {"idle"} /\ "NONE" \in PhasesAt("idle")
        BY DEF PcOf, PhasesAt, PrepareSteps, Working, FinishSteps, RollbackSteps, UndoSteps, Phases
      <3>3. ~Holds(p)' /\ ~Owner(p)'
        BY <2>1 DEF Holds, Unlocked, Owner
      <3>4. WellFormed(mem[p])' /\ Behind(mem[p])'
        BY <2>1, NoStateFact DEF WellFormed, Behind
      <3> QED BY <2>1, <3>1, <3>2, <3>3, <3>4 DEF Copy
    <2>3. Copies'
      BY <2>1, <2>2, OthersCopy DEF Copies
    <2>4. Knows(p)'
      BY <2>1 DEF Knows, Working, FinishSteps, After
    <2>5. \A q \in Procs : Holds(q)' => Holds(q) /\ (helper /\ pc[q] \in {"wait", "undo_wait"} => q # p)
      BY <2>1 DEF Others, Holds, Unlocked
    <2> QED BY <2>1, <2>3, <2>4, <2>5
  <1>4. CASE /\ Others(p) /\ cmd' = cmd /\ mem' = mem
             /\ pc' \in [Procs -> {"idle"} \cup PrepareSteps \cup FinishSteps
                              \cup ResumeSteps \cup RollbackSteps]
             /\ lease' \in Procs \cup {NoOne}
             /\ \/ cmd[p] = "resume" /\ pc'[p] = "latest"
                \/ cmd[p] = "rollback" /\ pc'[p] = "mark" /\ lease' = lease
    <2>1. ControlTypes'
      BY <1>1, <1>4 DEF ControlTypes
    <2>2. Holds(p)' => Holds(p)
      BY <1>1, <1>4 DEF Holds, Unlocked, Copy, PcOf, RollbackSteps, UndoSteps
    <2>3. Copy(p)'
      <3>1. mem[p].phase \in Phases
        BY <1>1 DEF ControlTypes, States
      <3>2. pc'[p] \in PcOf(cmd'[p]) /\ PhasesAt(pc'[p]) = Phases
        BY <1>4 DEF PcOf, PhasesAt, ResumeSteps, PrepareSteps, Working, FinishSteps,
                    RollbackSteps, UndoSteps
      <3>3. (Holds(p) => lease = p)'
        BY <1>1, <1>4, <2>2 DEF Copy, Holds, Unlocked
      <3>4. (Owner(p) => Fresh(mem[p]))'
        BY <1>1, <1>4 DEF Copy, Owner, Fresh
      <3>5. WellFormed(mem[p])' /\ Behind(mem[p])'
        BY <1>1, <1>4 DEF Copy, WellFormed, Behind
      <3> QED BY <1>4, <3>1, <3>2, <3>3, <3>4, <3>5 DEF Copy
    <2>4. Copies'
      BY <1>4, <2>3, OthersCopy DEF Copies
    <2>5. Knows(p)'
      BY <1>4 DEF Knows, Working, FinishSteps, After
    <2>6. \A q \in Procs : Holds(q)' => Holds(q) /\ (helper /\ pc[q] \in {"wait", "undo_wait"} => q # p)
      <3>1. pc[p] # "undo_wait" \/ ~helper
        BY <1>1, <1>4 DEF Stop, Goto, ControlTypes
      <3>2. Holds(p)' => pc[p] # "wait"
        BY <1>1, <1>4 DEF Holds, Unlocked, Copy, PcOf, RollbackSteps, UndoSteps
      <3> QED BY <1>4, <2>2, <3>1, <3>2 DEF Others, Holds
    <2> QED BY <1>4, <2>1, <2>4, <2>5, <2>6
  <1> QED BY <1>1, <1>2, <1>3, <1>4, RaiseFact DEF GivesUp

\* A process goes on under the lease, with its copy as it was or with the record
\* that it has just written.
LEMMA KeepKeeps ==
    ASSUME IInv, NEW p \in Procs, NEW next \in States, NEW to, Keep(p, next, to), Holds(p),
           to \in PcOf(cmd[p]) \ (Unlocked \cup {"mark"}), next.phase \in PhasesAt(to),
           \/ j' = j /\ next = mem[p] /\ (cmd[p] # "finish" \/ pc[p] \in Working)
           \/ j' = next /\ Grows(j, next) /\ WellFormed(next) /\ next.phase # "NONE",
           faults' \in 0..MaxFaults
    PROVE  /\ ControlTypes' /\ Copies' /\ Others(p)
           /\ pc'[p] = to /\ cmd' = cmd /\ mem'[p] = next
           /\ \A q \in Procs : Holds(q)' => Holds(q)
  <1>1. ControlTypes /\ Copy(p) /\ Sole(p) /\ lease = p
    BY TypeParts, HolderIsSole DEF IInv, Copies, Copy
  <1>2. Others(p) /\ pc'[p] = to /\ cmd' = cmd /\ lease' = lease /\ mem'[p] = next
    BY <1>1 DEF Keep, Goto, Others, ControlTypes
  <1>3. to \in {"idle"} \cup PrepareSteps \cup FinishSteps \cup ResumeSteps \cup RollbackSteps
    BY <1>1 DEF PcOf, ControlTypes, Commands, PrepareSteps, FinishSteps, Working, RollbackSteps
  <1>4. ControlTypes'
    BY <1>1, <1>3 DEF ControlTypes, Keep, Goto
  <1>5. Copy(p)'
    <2>1. (WellFormed(mem[p]) /\ Behind(mem[p]) /\ (Owner(p) => Fresh(mem[p])))'
      <3>1. CASE j' = j /\ next = mem[p] /\ (cmd[p] # "finish" \/ pc[p] \in Working)
        BY <1>1, <1>2, <3>1 DEF Copy, WellFormed, Behind, Owner, Fresh
      <3>2. CASE j' = next /\ Grows(j, next) /\ WellFormed(next) /\ next.phase # "NONE"
        BY <1>2, <3>2 DEF WellFormed, Behind, Owner, Fresh
      <3> QED BY <3>1, <3>2
    <2>2. (Holds(p) => lease = p)'
      BY <1>1, <1>2
    <2> QED BY <1>2, <2>1, <2>2 DEF Copy
  <1>6. Copies'
    BY <1>1, <1>2, <1>5, OthersCopy DEF Copies
  <1>7. \A q \in Procs : Holds(q)' => Holds(q)
    BY <1>2 DEF Others, Holds
  <1> QED BY <1>2, <1>4, <1>6, <1>7

-----------------------------------------------------------------------------
(* The disk *)

\* While the disk stays as it is and no process that an installer excludes takes
\* the lease, the record may be extended by what the disk already shows.
LEMMA DiskKept ==
    ASSUME IInv, UNCHANGED disk,
           \/ j' = j
           \/ /\ Grows(j, j') /\ WellFormed(j')
              /\ j'.phase \in HandedOff => tool # "absent" /\ record # "none" /\ j'.tool = record
              /\ j'.finish => record # "none",
           ~helper \/ \A q \in Procs : Holds(q)' => pc'[q] \in {"wait", "undo_wait"}
    PROVE  Disk'
  <1>1. /\ record' = record /\ origin' = origin /\ plan' = plan /\ helper' = helper
        /\ tool' = tool /\ tree' = tree /\ licensed' = licensed /\ runtime' = runtime
        /\ patch' = patch /\ manifest' = manifest
    BY DEF disk
  <1>2. Disk
    BY DEF IInv
  <1>3. WellFormed(j)' /\ (j.finish => j'.finish)
    BY <1>2 DEF Disk, WellFormed, Grows
  <1>4. (j.finish \/ j.phase \in HandedOff => record # "none")'
    BY <1>1, <1>2 DEF Disk
  <1>5. (j.phase \in HandedOff => tool # "absent" /\ record = j.tool)'
    BY <1>1, <1>2 DEF Disk
  <1>6. (helper => /\ runtime \in {"open", "bare", "rolling_back"}
                   /\ \A q \in Procs : Holds(q) => pc[q] \in {"wait", "undo_wait"})'
    BY <1>1, <1>2 DEF Disk
  <1>7. (licensed # "none" \/ runtime # "none" \/ manifest \/ patch # PatchBefore => j.finish)'
    BY <1>1, <1>2, <1>3 DEF Disk, PatchBefore
  <1> QED BY <1>1, <1>2, <1>3, <1>4, <1>5, <1>6, <1>7 DEF Disk, PatchBefore

\* The types of what is not written.
LEMMA DiskTypesKept ==
    ASSUME IInv, UNCHANGED disk, files' \subseteq {"plan", "before"}
    PROVE  DiskTypes'
  BY TypeParts DEF IInv, DiskTypes, disk

\* An error or an exit that leaves the disk.
LEMMA GivesUpInv ==
    ASSUME IInv, NEW p \in Procs, GivesUp(p), pc[p] # "idle", j' = j, faults' \in 0..MaxFaults,
           Stop(p) \/ pc[p] # "undo_wait" \/ ~helper,
           UNCHANGED disk, files' \subseteq {"plan", "before"}
    PROVE  IInv'
  <1>1. /\ ControlTypes' /\ Copies' /\ Others(p) /\ Knows(p)'
        /\ \A q \in Procs : Holds(q)' => Holds(q) /\ (helper /\ pc[q] \in {"wait", "undo_wait"} => q # p)
    BY GivesUpKeeps
  <1>2. DiskTypes'
    BY DiskTypesKept
  <1>3. Established'
    BY <1>1, OthersKnow DEF Established
  <1>4. ~helper \/ \A q \in Procs : Holds(q)' => pc'[q] \in {"wait", "undo_wait"}
    BY <1>1 DEF IInv, Disk, Others
  <1>5. Disk'
    BY <1>4, DiskKept
  <1> QED BY <1>1, <1>2, <1>3, <1>5, TypeParts, PTL DEF IInv

\* A step under the lease that leaves the disk.
LEMMA GoesOnInv ==
    ASSUME IInv, NEW p \in Procs, NEW next \in States, NEW to, Keep(p, next, to), Holds(p),
           to \in PcOf(cmd[p]) \ (Unlocked \cup {"mark"}), next.phase \in PhasesAt(to),
           \/ j' = j /\ next = mem[p] /\ (cmd[p] # "finish" \/ pc[p] \in Working)
           \/ /\ j' = next /\ Grows(j, next) /\ WellFormed(next) /\ next.phase # "NONE"
              /\ next.phase \in HandedOff => tool # "absent" /\ record # "none" /\ next.tool = record
              /\ next.finish => record # "none",
           faults' \in 0..MaxFaults, pc[p] \notin {"wait", "undo_wait"} \/ ~helper,
           UNCHANGED disk, files' \subseteq {"plan", "before"}, Knows(p)'
    PROVE  IInv'
  <1>1. ControlTypes' /\ Copies' /\ Others(p) /\ \A q \in Procs : Holds(q)' => Holds(q)
    BY KeepKeeps
  <1>2. DiskTypes'
    BY DiskTypesKept
  <1>3. Established'
    BY <1>1, OthersKnow DEF Established
  <1>4. ~helper
    BY DEF IInv, Disk
  <1>5. Disk'
    BY <1>4, DiskKept
  <1> QED BY <1>1, <1>2, <1>3, <1>5, TypeParts, PTL DEF IInv

-----------------------------------------------------------------------------
(* Compare and swap *)

\* transition writes the next record over the copy the process holds, or fails.
LEMMA TransitionFact ==
    ASSUME TypeOK, NEW p \in Procs, NEW next, NEW to, Transition(p, next, to)
    PROVE  /\ faults' \in 0..MaxFaults
           /\ \/ /\ j = mem[p] /\ Allowed(mem[p].phase, next.phase) /\ j' = next
                 /\ Keep(p, next, to)
              \/ j' = j /\ GivesUp(p)
  BY CoordinatorAssumption DEF TypeOK, Transition, Swap, Matches, GivesUp, Fault

\* A transition under the lease that leaves the disk.
LEMMA TransitionInv ==
    ASSUME IInv, NEW p \in Procs, NEW next \in States, NEW to, Transition(p, next, to), Holds(p),
           to \in PcOf(cmd[p]) \ (Unlocked \cup {"mark"}), next.phase \in PhasesAt(to),
           j = mem[p] => /\ Grows(mem[p], next) /\ WellFormed(next)
                         /\ next.phase \in HandedOff =>
                                tool # "absent" /\ record # "none" /\ next.tool = record
                         /\ next.finish => record # "none",
           pc[p] \notin {"wait", "undo_wait"}, UNCHANGED disk, files' = files,
           j = mem[p] /\ Keep(p, next, to) => Knows(p)'
    PROVE  IInv'
  <1>1. TypeOK /\ files' \subseteq {"plan", "before"} /\ pc[p] # "idle"
    BY DEF IInv, TypeOK, Holds, Unlocked
  <1>2. CASE j' = j /\ GivesUp(p)
    BY <1>1, <1>2, TransitionFact, GivesUpInv
  <1>3. CASE j = mem[p] /\ Allowed(mem[p].phase, next.phase) /\ j' = next /\ Keep(p, next, to)
    <2>1. next.phase # "NONE"
      BY <1>3, AllowedFact
    <2>2. /\ Grows(j, next) /\ WellFormed(next)
          /\ next.phase \in HandedOff => tool # "absent" /\ record # "none" /\ next.tool = record
          /\ next.finish => record # "none"
          /\ Knows(p)'
      BY <1>3
    <2>3. faults' \in 0..MaxFaults
      BY <1>1, TransitionFact
    <2> QED BY <1>1, <1>3, <2>1, <2>2, <2>3, GoesOnInv
  <1> QED BY <1>1, <1>2, <1>3, TransitionFact

\* A checkpoint under the lease, recorded now or before: the record keeps its phase,
\* its tool and its plan.
LEMMA CheckpointInv ==
    ASSUME IInv, NEW p \in Procs, NEW next \in States, NEW b \in Boundaries, NEW to,
           Checkpoint(p, b, next, to), Holds(p),
           to \in PcOf(cmd[p]) \ (Unlocked \cup {"mark"}), mem[p].phase \in PhasesAt(to),
           next.phase = mem[p].phase, next.phase \in {"PREPARING", "INSTALLING_FINISH"},
           next.phase = "PREPARING" => b \in {"acquired", "published"} /\ next = mem[p],
           next.tool = mem[p].tool, next.done = mem[p].done, next.finish = mem[p].finish,
           mem[p].child => next.child, mem[p].backup => next.backup,
           pc[p] \notin {"wait", "undo_wait"}, UNCHANGED disk, files' = files,
           Keep(p, next, to) => Knows(p)',
           Keep(p, [next EXCEPT !.done = @ \cup {b}], to) => Knows(p)'
    PROVE  IInv'
  <1>1. TypeOK /\ files' \subseteq {"plan", "before"} /\ mem[p] \in States /\ WellFormed(mem[p])
    BY DEF IInv, TypeOK, Copies, Copy
  <1>2. CASE /\ cmd[p] = "resume" /\ next = mem[p]
             /\ Keep(p, next, to) /\ UNCHANGED <<j, faults>>
    <2>1. faults' \in 0..MaxFaults /\ cmd[p] # "finish"
      BY <1>1, <1>2 DEF TypeOK
    <2> QED BY <1>1, <1>2, <2>1, GoesOnInv
  <1>3. CASE Transition(p, [next EXCEPT !.done = @ \cup {b}], to)
    <2> DEFINE n == [next EXCEPT !.done = @ \cup {b}]
    <2>1. /\ n \in States /\ n.phase = mem[p].phase /\ n.tool = mem[p].tool
          /\ n.done = mem[p].done \cup {b} /\ n.finish = mem[p].finish
          /\ n.child = next.child /\ n.backup = next.backup
      BY <1>1 DEF States
    <2>2. Allowed(mem[p].phase, n.phase) /\ mem[p].phase # "NONE"
      BY <2>1 DEF Allowed, Live
    <2>3. Grows(mem[p], n)
      BY <2>1, <2>2 DEF Grows
    <2>4. WellFormed(n)
      BY <1>1, <2>1 DEF WellFormed, Early
    <2>5. j = mem[p] => /\ n.phase \in HandedOff => tool # "absent" /\ record # "none" /\ n.tool = record
                        /\ n.finish => record # "none"
      BY <2>1 DEF IInv, Disk, HandedOff
    <2>6. Keep(p, n, to) => Knows(p)'
      OBVIOUS
    <2>7. Transition(p, n, to)
      BY <1>3
    <2>8. n.phase \in PhasesAt(to)
      BY <2>1
    <2> HIDE DEF n
    <2> QED BY <2>1, <2>3, <2>4, <2>5, <2>6, <2>7, <2>8, TransitionInv
  <1> QED BY <1>2, <1>3 DEF Checkpoint

-----------------------------------------------------------------------------
(* Commands begin *)

\* The invariant holds before any command has run.
LEMMA InitInv == Init => IInv
  <1> SUFFICES ASSUME Init PROVE IInv
    OBVIOUS
  <1>1. ControlTypes
    BY NoStateFact, CoordinatorAssumption DEF Init, ControlTypes
  <1>2. DiskTypes
    <2>1. helper \in BOOLEAN /\ prefix \in BOOLEAN /\ tree \in BOOLEAN /\ manifest \in BOOLEAN
      BY Zenon DEF Init
    <2>2. tool \in {"absent", "own", "adopted"} /\ patch \in {"original", "mixed", "patched"}
      BY CoordinatorAssumption DEF Init, PatchBefore
    <2> QED BY <2>1, <2>2 DEF Init, DiskTypes
  <1>3. Copies
    <2> SUFFICES ASSUME NEW p \in Procs PROVE Copy(p)
      BY DEF Copies
    <2>1. pc[p] = "idle" /\ cmd[p] = "none" /\ mem[p] = NoState /\ NoState.phase = "NONE"
      BY DEF Init, NoState
    <2>2. PcOf("none") = {"idle"} /\ "NONE" \in PhasesAt("idle")
      BY DEF PcOf, PhasesAt, PrepareSteps, Working, FinishSteps, RollbackSteps, UndoSteps, Phases
    <2>3. ~Holds(p) /\ ~Owner(p)
      BY <2>1 DEF Holds, Unlocked, Owner
    <2>4. WellFormed(mem[p]) /\ Behind(mem[p])
      BY <2>1 DEF NoState, WellFormed, Early, Behind, Withdrawn
    <2> QED BY <2>1, <2>2, <2>3, <2>4 DEF Copy
  <1>4. Disk
    <2>1. j = NoState /\ WellFormed(j) /\ j.phase \notin HandedOff /\ ~j.finish
      BY NoStateFact DEF Init, NoState, HandedOff
    <2> QED BY <2>1, CoordinatorAssumption DEF Init, Disk, PatchBefore
  <1>5. Established
    BY DEF Init, Established, Knows, Working, FinishSteps, After
  <1> QED BY <1>1, <1>2, <1>3, <1>4, <1>5, TypeParts DEF IInv

\* A command begins with the record that is durable when it begins; Prepare makes
\* that record.
LEMMA BeginInv ==
    ASSUME IInv, NEW p \in Procs, NEW command \in Commands, NEW to, NEW state \in States,
           Begin(p, command, to, state), to \in {"preparing", "confirmed", "loaded", "preflight"},
           to \in PcOf(command), state.phase \in PhasesAt(to), state.phase # "NONE",
           WellFormed(state), j' = state, j' = j \/ (j.phase = "NONE" /\ LeaseFree),
           (state.phase \notin HandedOff /\ ~state.finish) \/ j' = j,
           \/ to \in {"confirmed", "loaded"} /\ command \in {"finish", "resume"} /\ lease' = lease
           \/ LeaseFree /\ lease' = p,
           UNCHANGED disk, files' = files, faults' = faults
    PROVE  IInv'
  <1>1. ControlTypes /\ Copies /\ Disk /\ files' \subseteq {"plan", "before"}
    BY TypeParts DEF IInv, TypeOK
  <1>2. Others(p) /\ pc'[p] = to /\ cmd'[p] = command /\ mem'[p] = state
    BY <1>1, CoordinatorAssumption DEF Begin, Goto, Others, ControlTypes, LeaseFree
  <1>3. ControlTypes'
    <2>1. to \in {"idle"} \cup PrepareSteps \cup FinishSteps \cup ResumeSteps \cup RollbackSteps
      BY DEF PrepareSteps, FinishSteps, ResumeSteps, RollbackSteps
    <2> QED BY <1>1, <2>1 DEF ControlTypes, Begin, Goto
  <1>4. Grows(j, j') \/ j' = j
    <2>1. j.phase = "NONE" => j = NoState
      BY <1>1 DEF Disk, WellFormed
    <2> QED BY <2>1 DEF Grows, NoState
  <1>5. Copy(p)'
    <2>1. (Holds(p) => lease = p)'
      BY <1>2 DEF Holds, Unlocked
    <2>2. WellFormed(mem[p])' /\ Behind(mem[p])' /\ Fresh(mem[p])'
      BY <1>2 DEF WellFormed, Behind, Fresh
    <2> QED BY <1>2, <2>1, <2>2 DEF Copy
  <1>6. Copies'
    BY <1>2, <1>4, <1>5, OthersCopy, HolderIsSole DEF Copies, LeaseFree
  <1>7. Knows(p)' /\ Established'
    <2>1. Knows(p)'
      BY <1>2 DEF Knows, Working, FinishSteps, After
    <2> QED BY <1>2, <2>1, OthersKnow DEF Established
  <1>8. ~helper \/ \A q \in Procs : Holds(q)' => pc'[q] \in {"wait", "undo_wait"}
    <2>1. CASE LeaseFree
      BY <2>1 DEF LeaseFree
    <2>2. CASE to \in {"confirmed", "loaded"}
      BY <1>1, <1>2, <2>2 DEF Others, Holds, Unlocked, Disk
    <2> QED BY <2>1, <2>2
  <1>9. Disk'
    BY <1>4, <1>8, DiskKept
  <1>10. DiskTypes'
    BY <1>1, DiskTypesKept
  <1> QED BY <1>3, <1>6, <1>7, <1>9, <1>10, TypeParts, PTL DEF IInv

\* create_transaction.
LEMMA PrepareBeginInv ==
    ASSUME IInv, NEW p \in Procs, PrepareBegin(p)
    PROVE  IInv'
  <1> DEFINE state == [NoState EXCEPT !.phase = "NEW"]
  <1>1. /\ state \in States /\ state.phase = "NEW" /\ state.tool = "none" /\ ~state.finish
        /\ WellFormed(state)
    <2>1. /\ state.phase = "NEW" /\ state.done = {} /\ state.tool = "none"
          /\ ~state.finish /\ ~state.child /\ ~state.backup
      BY DEF NoState
    <2>2. state \in States
      BY NoStateFact DEF States, Phases, Live
    <2> QED BY <2>1, <2>2 DEF WellFormed, Early
  <1>2. /\ Begin(p, "prepare", "preparing", state) /\ j.phase = "NONE" /\ LeaseFree
        /\ j' = mem'[p] /\ lease' = p /\ UNCHANGED disk /\ files' = files /\ faults' = faults
    BY DEF PrepareBegin, host, managed, disk
  <1>3. mem'[p] = state
    BY <1>2 DEF Begin, IInv, TypeOK
  <1>4. "preparing" \in PcOf("prepare") /\ "NEW" \in PhasesAt("preparing") /\ "NEW" \notin HandedOff
    BY Tables DEF PrepareSteps, HandedOff
  <1> HIDE DEF state
  <1> QED BY <1>1, <1>2, <1>3, <1>4, BeginInv DEF Commands

\* The plan of a Finish is shown without the lease.
LEMMA FinishBeginInv ==
    ASSUME IInv, NEW p \in Procs, FinishBegin(p)
    PROVE  IInv'
  <1>1. /\ Begin(p, "finish", "confirmed", j) /\ j.phase = "AWAITING_STEAM_PREFIX"
        /\ j' = j /\ lease' = lease /\ UNCHANGED disk /\ files' = files /\ faults' = faults
    BY DEF FinishBegin, host, managed, disk
  <1>2. j \in States /\ WellFormed(j)
    BY DEF IInv, TypeOK, Disk
  <1>3. /\ "confirmed" \in PcOf("finish")
        /\ "AWAITING_STEAM_PREFIX" \in PhasesAt("confirmed")
    BY Tables DEF FinishSteps
  <1> QED BY <1>1, <1>2, <1>3, BeginInv DEF Commands

\* A resume loads the journal without the lease.
LEMMA ResumeBeginInv ==
    ASSUME IInv, NEW p \in Procs, ResumeBegin(p)
    PROVE  IInv'
  <1>1. /\ Begin(p, "resume", "loaded", j)
        /\ j.phase \in {"NEW", "PREPARING", "PLANNED_FINISH", "INSTALLING_FINISH"}
        /\ j' = j /\ lease' = lease /\ UNCHANGED disk /\ files' = files /\ faults' = faults
    BY DEF ResumeBegin, host, managed, disk
  <1>2. j \in States /\ WellFormed(j)
    BY DEF IInv, TypeOK, Disk
  <1>3. /\ "loaded" \in PcOf("resume")
        /\ PhasesAt("loaded") = {"NEW", "PREPARING", "PLANNED_FINISH", "INSTALLING_FINISH"}
    BY Tables DEF ResumeSteps
  <1> QED BY <1>1, <1>2, <1>3, BeginInv DEF Commands

\* A rollback takes the lease and loads the journal under it.
LEMMA RollbackBeginInv ==
    ASSUME IInv, NEW p \in Procs, RollbackBegin(p)
    PROVE  IInv'
  <1>1. /\ Begin(p, "rollback", "preflight", j) /\ j.phase \in Live /\ LeaseFree
        /\ j' = j /\ lease' = p /\ UNCHANGED disk /\ files' = files /\ faults' = faults
    BY DEF RollbackBegin, host, managed, disk
  <1>2. j \in States /\ WellFormed(j) /\ j.phase # "NONE"
    BY <1>1 DEF IInv, TypeOK, Disk, Live
  <1>3. "preflight" \in PcOf("rollback") /\ PhasesAt("preflight") = Live
    BY Tables DEF RollbackSteps
  <1> QED BY <1>1, <1>2, <1>3, BeginInv DEF Commands

-----------------------------------------------------------------------------
(* Prepare *)

\* What every proof about a step under the lease starts from.
LEMMA AtFact ==
    ASSUME IInv, NEW p \in Procs
    PROVE  /\ mem[p] \in States /\ cmd[p] \in {"none"} \cup Commands
           /\ pc[p] \in PcOf(cmd[p]) /\ mem[p].phase \in PhasesAt(pc[p])
           /\ WellFormed(mem[p]) /\ Behind(mem[p]) /\ Knows(p)
           /\ Owner(p) => Fresh(mem[p])
           /\ files \subseteq {"plan", "before"} /\ faults \in 0..MaxFaults
           /\ mem = [mem EXCEPT ![p] = mem[p]]
  BY DEF IInv, TypeOK, Copies, Copy, Established, Commands

\* The steps of which nothing has to be known.
Blank == {"idle", "preparing", "plan", "before", "acquire", "publish", "confirmed",
          "loaded", "baseline", "returned", "latest", "preflight", "mark", "undo_patches"}

\* At these steps a process relies on nothing.
LEMMA BlankKnows == ASSUME NEW p \in Procs, pc'[p] \in Blank PROVE Knows(p)'
  BY DEF Blank, Knows, Working, FinishSteps, After

\* Keep names the next step.
LEMMA KeepPc ==
    ASSUME IInv, NEW p \in Procs, NEW next, NEW to, Keep(p, next, to)
    PROVE  pc'[p] = to /\ cmd'[p] = cmd[p] /\ mem'[p] = next
  BY DEF IInv, TypeOK, Keep, Goto

\* PREPARING is written over NEW.
LEMMA PreparingInv ==
    ASSUME IInv, NEW p \in Procs, Preparing(p)
    PROVE  IInv'
  <1> DEFINE next == [mem[p] EXCEPT !.phase = "PREPARING"]
  <1>1. /\ cmd[p] = "prepare" /\ pc[p] = "preparing" /\ Transition(p, next, "plan")
        /\ UNCHANGED disk /\ files' = files
    BY DEF Preparing, At, host, managed, disk
  <1>2. mem[p] \in States /\ mem[p].phase = "NEW" /\ WellFormed(mem[p]) /\ Holds(p)
    BY <1>1, AtFact, Tables DEF Holds, Unlocked
  <1>3. /\ next \in States /\ next.phase = "PREPARING" /\ next.done = mem[p].done
        /\ next.tool = mem[p].tool /\ next.finish = mem[p].finish
        /\ next.child = mem[p].child /\ next.backup = mem[p].backup
    BY <1>2 DEF States, Phases, Live
  <1>4. Allowed("NEW", "PREPARING")
    BY DEF Allowed, Forward
  <1>5. /\ Grows(mem[p], next) /\ WellFormed(next) /\ next.phase \notin HandedOff /\ ~next.finish
    BY <1>2, <1>3, <1>4 DEF Grows, WellFormed, Early, HandedOff
  <1>6. "plan" \in PcOf(cmd[p]) \ (Unlocked \cup {"mark"}) /\ next.phase \in PhasesAt("plan")
    BY <1>1, <1>3, Tables DEF PrepareSteps, Unlocked
  <1>7. Keep(p, next, "plan") => Knows(p)'
    BY KeepPc, BlankKnows DEF Blank
  <1> HIDE DEF next
  <1> QED BY <1>1, <1>2, <1>3, <1>5, <1>6, <1>7, TransitionInv

\* plan.json and before.json.
LEMMA WriteFileInv ==
    ASSUME IInv, NEW p \in Procs, WriteFile(p)
    PROVE  IInv'
  <1>1. PICK to \in {"before", "acquire"} : Goto(p, to)
    BY DEF WriteFile
  <1>2. /\ cmd[p] = "prepare" /\ pc[p] \in {"plan", "before"} /\ j' = j
        /\ UNCHANGED <<mem, cmd, lease>> /\ UNCHANGED disk /\ faults' = faults
        /\ files' = files \cup {pc[p]}
    BY DEF WriteFile, At, host, managed, disk
  <1>3. mem[p].phase = "PREPARING" /\ Holds(p)
    BY <1>2, AtFact, Tables, StepSets DEF Holds, Unlocked
  <1>4. Keep(p, mem[p], to)
    BY <1>1, <1>2, AtFact DEF Keep
  <1>5. to \in PcOf(cmd[p]) \ (Unlocked \cup {"mark"}) /\ mem[p].phase \in PhasesAt(to)
    BY <1>2, <1>3, Tables, StepSets DEF Unlocked
  <1>6. Knows(p)'
    BY <1>4, KeepPc, BlankKnows DEF Blank
  <1>7. files' \subseteq {"plan", "before"} /\ faults' \in 0..MaxFaults /\ mem[p] \in States
    BY <1>2, AtFact
  <1> QED BY <1>2, <1>3, <1>4, <1>5, <1>6, <1>7, GoesOnInv

\* The checkpoints of the snapshot, of GE-Proton and of the bundle.
LEMMA AcquireInv ==
    ASSUME IInv, NEW p \in Procs, Acquire(p)
    PROVE  IInv'
  <1>1. /\ cmd[p] = "prepare" /\ pc[p] = "acquire"
        /\ Checkpoint(p, "acquired", mem[p], "publish") /\ UNCHANGED disk /\ files' = files
    BY DEF Acquire, At, host, managed, disk
  <1>2. mem[p] \in States /\ mem[p].phase = "PREPARING" /\ Holds(p)
    BY <1>1, AtFact, Tables, StepSets DEF Holds, Unlocked
  <1>3. /\ "publish" \in PcOf(cmd[p]) \ (Unlocked \cup {"mark"})
        /\ mem[p].phase \in PhasesAt("publish") /\ "acquired" \in Boundaries
    BY <1>1, <1>2, Tables, StepSets DEF Unlocked, Boundaries
  <1>4. /\ Keep(p, mem[p], "publish") => Knows(p)'
        /\ Keep(p, [mem[p] EXCEPT !.done = @ \cup {"acquired"}], "publish") => Knows(p)'
    BY KeepPc, BlankKnows DEF Blank
  <1> QED BY <1>1, <1>2, <1>3, <1>4, CheckpointInv

\* Recovery writes the baseline that Prepare did not come to.
LEMMA BaselineInv ==
    ASSUME IInv, NEW p \in Procs, Baseline(p)
    PROVE  IInv'
  <1>1. /\ cmd[p] = "resume" /\ pc[p] = "baseline" /\ j' = j /\ UNCHANGED disk
        /\ faults' = faults /\ files' \subseteq {"plan", "before"}
    BY AtFact DEF Baseline, At, host, managed, disk
  <1>2. faults' \in 0..MaxFaults /\ mem[p] \in States /\ Holds(p)
    BY <1>1, AtFact DEF Holds, Unlocked
  <1>3. CASE GivesUp(p)
    BY <1>1, <1>2, <1>3, GivesUpInv
  <1>4. CASE mem[p].phase = "PREPARING" /\ Goto(p, "publish") /\ UNCHANGED <<cmd, mem, lease>>
    <2>1. Keep(p, mem[p], "publish")
      BY <1>4, AtFact DEF Keep
    <2>2. /\ "publish" \in PcOf(cmd[p]) \ (Unlocked \cup {"mark"})
          /\ mem[p].phase \in PhasesAt("publish")
      BY <1>1, <1>4, Tables, StepSets DEF Unlocked
    <2>3. Knows(p)'
      BY <2>1, KeepPc, BlankKnows DEF Blank
    <2> QED BY <1>1, <1>2, <2>1, <2>2, <2>3, GoesOnInv
  <1> QED BY <1>3, <1>4 DEF Baseline, GivesUp

\* A step under the lease that changes the disk and not the record.
LEMMA ChangesInv ==
    ASSUME IInv, NEW p \in Procs, NEW to, Keep(p, mem[p], to), j' = j, Holds(p),
           cmd[p] # "finish" \/ pc[p] \in Working,
           to \in PcOf(cmd[p]) \ (Unlocked \cup {"mark"}), mem[p].phase \in PhasesAt(to),
           faults' = faults, DiskTypes', Disk', Knows(p)'
    PROVE  IInv'
  <1>1. mem[p] \in States /\ faults' \in 0..MaxFaults
    BY AtFact
  <1>2. ControlTypes' /\ Copies' /\ Others(p)
    BY <1>1, KeepKeeps
  <1>3. Established'
    BY <1>2, HolderIsSole, OthersKnow DEF Established
  <1> QED BY <1>2, <1>3, TypeParts, PTL DEF IInv

\* publish_fm.
LEMMA PublishInv ==
    ASSUME IInv, NEW p \in Procs, Publish(p)
    PROVE  IInv'
  <1>1. /\ cmd[p] \in {"prepare", "resume"} /\ pc[p] = "publish" /\ j' = j
        /\ record' = record /\ origin' = origin /\ plan' = plan /\ prefix' = prefix
        /\ helper' = helper /\ licensed' = licensed /\ runtime' = runtime
        /\ patch' = patch /\ manifest' = manifest /\ files' = files /\ faults' = faults
    BY DEF Publish, At, host
  <1>2. /\ mem[p] \in States /\ mem[p].phase = "PREPARING" /\ Holds(p)
        /\ files' \subseteq {"plan", "before"} /\ faults' \in 0..MaxFaults
    BY <1>1, AtFact, Tables, StepSets DEF Holds, Unlocked
  <1>3. ASSUME NEW to \in {"record", "handoff"}
        PROVE  /\ to \in PcOf(cmd[p]) \ (Unlocked \cup {"mark"})
               /\ mem[p].phase \in PhasesAt(to)
    BY <1>1, <1>2, Tables, StepSets DEF Unlocked
  <1>4. CASE Raise(p) /\ UNCHANGED <<tool, tree>>
    <2>1. UNCHANGED disk
      BY <1>1, <1>4 DEF disk
    <2> QED BY <1>1, <1>2, <1>4, <2>1, GivesUpInv DEF GivesUp
  <1>5. CASE /\ record # "none" /\ ToolAsRecorded
             /\ Goto(p, "handoff") /\ UNCHANGED <<cmd, mem, lease, tool, tree>>
    <2>1. UNCHANGED disk
      BY <1>1, <1>5 DEF disk
    <2>2. Keep(p, mem[p], "handoff")
      BY <1>5, AtFact DEF Keep
    <2>3. Knows(p)'
      BY <1>1, <1>5, <2>2, KeepPc DEF Knows, ToolAsRecorded, Working, FinishSteps, After
    <2> QED BY <1>1, <1>2, <1>3, <2>1, <2>2, <2>3, GoesOnInv
  <1>6. CASE /\ record = "none" /\ origin = "adopted" /\ ToolAsRecorded
             /\ Goto(p, "record") /\ UNCHANGED <<cmd, mem, lease, tool, tree>>
    <2>1. UNCHANGED disk
      BY <1>1, <1>6 DEF disk
    <2>2. Keep(p, mem[p], "record")
      BY <1>6, AtFact DEF Keep
    <2>3. Knows(p)'
      BY <1>1, <1>6, <2>2, KeepPc DEF Knows, ToolAsRecorded, Working, FinishSteps, After
    <2> QED BY <1>1, <1>2, <1>3, <2>1, <2>2, <2>3, GoesOnInv
  <1>7. CASE /\ record = "none" /\ origin = "absent" /\ tool = "absent"
             /\ tool' = "own" /\ tree' = TRUE
             /\ Goto(p, "record") /\ UNCHANGED <<cmd, mem, lease>>
    <2>1. Keep(p, mem[p], "record")
      BY <1>7, AtFact DEF Keep
    <2>2. Knows(p)'
      BY <1>1, <1>7, <2>1, KeepPc DEF Knows, Working, FinishSteps, After
    <2>3. DiskTypes'
      <3>1. tree' \in BOOLEAN
        BY <1>7, Zenon
      <3> QED BY <1>1, <1>2, <1>7, <3>1, TypeParts DEF IInv, DiskTypes
    <2>4. Disk'
      <3>1. Disk /\ ~j.finish /\ j.phase \notin HandedOff /\ ~helper
        BY <1>1, <1>2, <1>7 DEF IInv, Disk
      <3>2. WellFormed(j)' /\ ~helper'
        BY <1>1, <3>1 DEF Disk, WellFormed
      <3> QED BY <1>1, <1>7, <3>1, <3>2 DEF Disk, PatchBefore
    <2> QED BY <1>1, <1>2, <1>3, <2>1, <2>2, <2>3, <2>4, ChangesInv
  <1> QED BY <1>4, <1>5, <1>6, <1>7 DEF Publish

\* compatibility-tool.json.
LEMMA RecordInv ==
    ASSUME IInv, NEW p \in Procs, Record(p)
    PROVE  IInv'
  <1>1. PICK to \in {"published", "handoff"} : Goto(p, to) /\ (cmd[p] = "resume" => to = "handoff")
    BY DEF Record
  <1>2. /\ cmd[p] \in {"prepare", "resume"} /\ pc[p] = "record" /\ j' = j
        /\ record' = IF tool = "own" THEN "created" ELSE "adopted"
        /\ UNCHANGED <<mem, cmd, lease, files, faults>>
        /\ origin' = origin /\ plan' = plan /\ prefix' = prefix
        /\ helper' = helper /\ tool' = tool /\ tree' = tree /\ licensed' = licensed
        /\ runtime' = runtime /\ patch' = patch /\ manifest' = manifest
    BY DEF Record, At, host, managed
  <1>3. /\ mem[p].phase = "PREPARING" /\ Holds(p)
        /\ tool # "absent" /\ record = "none"
    BY <1>2, AtFact, Tables, StepSets DEF Holds, Unlocked, Knows
  <1>4. Keep(p, mem[p], to)
    BY <1>1, <1>2, AtFact DEF Keep
  <1>5. to \in PcOf(cmd[p]) \ (Unlocked \cup {"mark"}) /\ mem[p].phase \in PhasesAt(to)
    BY <1>1, <1>2, <1>3, Tables, StepSets DEF Unlocked
  <1>6. Knows(p)'
    BY <1>2, <1>3, <1>4, KeepPc DEF Knows, Working, FinishSteps, After
  <1>7. DiskTypes'
    BY <1>2, TypeParts DEF IInv, DiskTypes
  <1>8. Disk'
    <2>1. Disk /\ ~j.finish /\ j.phase \notin HandedOff /\ ~helper /\ tool \in {"own", "adopted"}
      BY <1>2, <1>3 DEF IInv, Disk, TypeOK
    <2>2. WellFormed(j)' /\ ~helper'
      BY <1>2, <2>1 DEF Disk, WellFormed
    <2> QED BY <1>2, <1>3, <2>1, <2>2 DEF Disk, PatchBefore
  <1> QED BY <1>2, <1>3, <1>4, <1>5, <1>6, <1>7, <1>8, ChangesInv

\* The checkpoint of a tool that Prepare has published.
LEMMA PublishedInv ==
    ASSUME IInv, NEW p \in Procs, Published(p)
    PROVE  IInv'
  <1>1. /\ cmd[p] = "prepare" /\ pc[p] = "published"
        /\ Checkpoint(p, "published", mem[p], "handoff") /\ UNCHANGED disk /\ files' = files
    BY DEF Published, At, host, managed, disk
  <1>2. /\ mem[p] \in States /\ mem[p].phase = "PREPARING" /\ Holds(p)
        /\ tool # "absent" /\ record # "none"
    BY <1>1, AtFact, Tables, StepSets DEF Holds, Unlocked, Knows
  <1>3. /\ "handoff" \in PcOf(cmd[p]) \ (Unlocked \cup {"mark"})
        /\ mem[p].phase \in PhasesAt("handoff") /\ "published" \in Boundaries
    BY <1>1, <1>2, Tables, StepSets DEF Unlocked, Boundaries
  <1>4. ASSUME pc'[p] = "handoff" PROVE Knows(p)'
    BY <1>1, <1>2, <1>4 DEF Knows, Working, FinishSteps, After, disk
  <1>5. /\ Keep(p, mem[p], "handoff") => Knows(p)'
        /\ Keep(p, [mem[p] EXCEPT !.done = @ \cup {"published"}], "handoff") => Knows(p)'
    BY <1>4, KeepPc
  <1> QED BY <1>1, <1>2, <1>3, <1>5, CheckpointInv

\* A resume gives up the lease with the record it has written.
Returns(p) ==
    /\ cmd[p] = "resume" /\ Goto(p, "returned") /\ Release(p)
    /\ mem' = [mem EXCEPT ![p] = j'] /\ UNCHANGED cmd

\* The last transition of a command, or the mark of one that failed.
LEMMA EndsInv ==
    ASSUME IInv, NEW p \in Procs, Stop(p) \/ Returns(p), pc[p] # "idle",
           j' \in States, Grows(j, j'), WellFormed(j'), j'.phase # "NONE",
           j'.phase \in HandedOff => tool # "absent" /\ record # "none" /\ j'.tool = record,
           j'.finish => record # "none",
           Sole(p) \/ Marked, UNCHANGED disk, files' = files, faults' \in 0..MaxFaults
    PROVE  IInv'
  <1>1. ControlTypes /\ files' \subseteq {"plan", "before"} /\ WellFormed(j)'
    BY TypeParts DEF IInv, TypeOK, WellFormed
  <1>2. /\ Others(p) /\ ControlTypes'
        /\ \/ pc'[p] = "idle" /\ cmd'[p] = "none" /\ mem'[p] = NoState
           \/ pc'[p] = "returned" /\ cmd'[p] = "resume" /\ mem'[p] = j'
    <2>1. CASE Stop(p)
      BY <1>1, <2>1, StopFact DEF ControlTypes
    <2>2. CASE Returns(p)
      BY <1>1, <2>2 DEF Returns, Goto, Release, Others, ControlTypes, ResumeSteps
    <2> QED BY <2>1, <2>2
  <1>3. Copy(p)'
    <2>1. pc'[p] \in PcOf(cmd'[p]) /\ mem'[p].phase \in PhasesAt(pc'[p])
      <3>1. NoState.phase \in Phases /\ j'.phase \in Phases
        BY NoStateFact DEF States
      <3> QED BY <1>2, <3>1, Tables DEF ResumeSteps
    <2>2. WellFormed(mem[p])' /\ Behind(mem[p])'
      BY <1>1, <1>2, NoStateFact DEF WellFormed, Behind
    <2>3. ~Holds(p)' /\ ~Owner(p)'
      BY <1>2 DEF Holds, Unlocked, Owner
    <2> QED BY <2>1, <2>2, <2>3 DEF Copy
  <1>4. Copies'
    BY <1>2, <1>3, OthersCopy DEF Copies
  <1>5. Established'
    <2>1. Knows(p)'
      BY <1>2, BlankKnows DEF Blank
    <2> QED BY <1>2, <2>1, OthersKnow DEF Established
  <1>6. ~helper \/ \A q \in Procs : Holds(q)' => pc'[q] \in {"wait", "undo_wait"}
    BY <1>2 DEF IInv, Disk, Others, Holds, Unlocked
  <1>7. Disk'
    BY <1>6, DiskKept
  <1>8. DiskTypes'
    BY <1>1, DiskTypesKept
  <1> QED BY <1>2, <1>4, <1>5, <1>7, <1>8, TypeParts, PTL DEF IInv

\* The last transition of Prepare, Finish or resume, under the lease.
LEMMA LastInv ==
    ASSUME IInv, NEW p \in Procs, NEW next \in States, Last(p, next), Holds(p),
           Allowed(mem[p].phase, next.phase), Grows(mem[p], next), WellFormed(next),
           j = mem[p] => /\ next.phase \in HandedOff =>
                                tool # "absent" /\ record # "none" /\ next.tool = record
                         /\ next.finish => record # "none",
           pc[p] # "undo_wait", UNCHANGED disk, files' = files
    PROVE  IInv'
  <1>1. /\ faults' \in 0..MaxFaults
        /\ \/ j = mem[p] /\ j' = next /\ (Stop(p) \/ Returns(p))
           \/ j' = j /\ GivesUp(p)
    BY CoordinatorAssumption DEF IInv, TypeOK, Last, Swap, Matches, GivesUp, Fault, Returns
  <1>2. pc[p] # "idle" /\ files' \subseteq {"plan", "before"} /\ Sole(p) /\ next.phase # "NONE"
    BY AtFact, HolderIsSole, AllowedFact DEF Holds, Unlocked
  <1>3. CASE j' = j /\ GivesUp(p)
    BY <1>1, <1>2, <1>3, GivesUpInv
  <1>4. CASE j = mem[p] /\ j' = next /\ (Stop(p) \/ Returns(p))
    <2>1. /\ j' \in States /\ Grows(j, j') /\ WellFormed(j') /\ j'.phase # "NONE"
          /\ j'.phase \in HandedOff => tool # "absent" /\ record # "none" /\ j'.tool = record
          /\ j'.finish => record # "none"
      BY <1>2, <1>4
    <2> QED BY <1>1, <1>2, <1>4, <2>1, EndsInv
  <1> QED BY <1>1, <1>3, <1>4

\* The handoff names the tool that is there.
LEMMA HandoffInv ==
    ASSUME IInv, NEW p \in Procs, Handoff(p)
    PROVE  IInv'
  <1> DEFINE next == [mem[p] EXCEPT !.phase = "AWAITING_STEAM_PREFIX", !.tool = record]
  <1>1. /\ cmd[p] \in {"prepare", "resume"} /\ pc[p] = "handoff" /\ Last(p, next)
        /\ UNCHANGED disk /\ files' = files
    BY DEF Handoff, At, host, managed, disk
  <1>2. /\ mem[p] \in States /\ mem[p].phase = "PREPARING" /\ WellFormed(mem[p]) /\ Holds(p)
        /\ tool # "absent" /\ record # "none" /\ record \in {"none", "created", "adopted"}
    BY <1>1, AtFact, Tables, StepSets DEF Holds, Unlocked, Knows, IInv, TypeOK
  <1>3. /\ next \in States /\ next.phase = "AWAITING_STEAM_PREFIX" /\ next.done = mem[p].done
        /\ next.tool = record /\ next.finish = mem[p].finish
        /\ next.child = mem[p].child /\ next.backup = mem[p].backup
    BY <1>2 DEF States, Phases, Live
  <1>4. Allowed("PREPARING", "AWAITING_STEAM_PREFIX")
    BY DEF Allowed, Forward
  <1>5. Grows(mem[p], next) /\ WellFormed(next)
    BY <1>2, <1>3, <1>4 DEF Grows, WellFormed, Early
  <1> HIDE DEF next
  <1> QED BY <1>1, <1>2, <1>3, <1>4, <1>5, LastInv

-----------------------------------------------------------------------------
(* Finish and its recovery *)

\* A Finish or a resume takes the lease, with the copy it loaded before.
LEMMA LockInv ==
    ASSUME IInv, NEW p \in Procs, NEW to, pc[p] \in {"confirmed", "loaded"},
           cmd[p] \in {"finish", "resume"}, LeaseFree, lease' = p, Goto(p, to),
           UNCHANGED <<mem, cmd>>, to \in PcOf(cmd[p]) \ (Unlocked \cup {"mark"}),
           mem[p].phase \in PhasesAt(to), cmd[p] = "finish" => to = "planned",
           j' = j, UNCHANGED disk, files' = files, faults' = faults, Knows(p)'
    PROVE  IInv'
  <1>1. ControlTypes /\ Copy(p) /\ files' \subseteq {"plan", "before"}
    BY TypeParts DEF IInv, TypeOK, Copies
  <1>2. Others(p) /\ pc'[p] = to /\ cmd' = cmd /\ mem' = mem
    BY <1>1, CoordinatorAssumption DEF Goto, Others, ControlTypes, LeaseFree
  <1>3. ControlTypes'
    <2>1. to \in {"idle"} \cup PrepareSteps \cup FinishSteps \cup ResumeSteps \cup RollbackSteps
      BY Tables, StepSets
    <2> QED BY <1>1, <1>2, <2>1 DEF ControlTypes, Goto
  <1>4. Copy(p)'
    <2>1. ~Owner(p)'
      BY <1>2, StepSets DEF Owner
    <2>2. WellFormed(mem[p])' /\ Behind(mem[p])'
      BY <1>1, <1>2 DEF Copy, WellFormed, Behind
    <2> QED BY <1>2, <2>1, <2>2 DEF Copy
  <1>5. Copies'
    BY <1>2, <1>4, OthersCopy DEF Copies
  <1>6. Established'
    BY <1>2, OthersKnow DEF Established
  <1>7. Disk'
    BY DiskKept DEF LeaseFree
  <1>8. DiskTypes'
    BY <1>1, DiskTypesKept
  <1> QED BY <1>3, <1>5, <1>6, <1>7, <1>8, TypeParts, PTL DEF IInv

\* A Finish validates again under the lease, or ends.
LEMMA FinishLockInv ==
    ASSUME IInv, NEW p \in Procs, FinishLock(p)
    PROVE  IInv'
  <1>1. /\ cmd[p] = "finish" /\ pc[p] = "confirmed" /\ j' = j /\ UNCHANGED disk
        /\ files' = files /\ faults' = faults
    BY DEF FinishLock, At, host, managed, disk
  <1>2. CASE Stop(p)
    BY <1>1, <1>2, AtFact, GivesUpInv DEF GivesUp
  <1>3. CASE /\ LeaseFree /\ ValidatePrefix(mem[p]) /\ lease' = p
             /\ Goto(p, "planned") /\ UNCHANGED <<mem, cmd>>
    <2>1. pc'[p] = "planned"
      BY <1>3 DEF Goto, IInv, TypeOK
    <2>2. Knows(p)'
      BY <1>1, <1>3, <2>1, StepSets DEF Knows, After, ValidatePrefix, disk
    <2>3. /\ "planned" \in PcOf(cmd[p]) \ (Unlocked \cup {"mark"})
          /\ mem[p].phase \in PhasesAt("planned")
      BY <1>1, AtFact, Tables, StepSets DEF Unlocked
    <2> QED BY <1>1, <1>3, <2>2, <2>3, LockInv
  <1> QED BY <1>2, <1>3 DEF FinishLock

\* A resume takes the lease, or gives up.
LEMMA ResumeLockInv ==
    ASSUME IInv, NEW p \in Procs, ResumeLock(p)
    PROVE  IInv'
  <1>1. /\ cmd[p] = "resume" /\ pc[p] = "loaded" /\ j' = j /\ UNCHANGED disk
        /\ files' = files /\ faults' = faults
    BY DEF ResumeLock, At, host, managed, disk
  <1>2. CASE Raise(p)
    BY <1>1, <1>2, AtFact, GivesUpInv DEF GivesUp
  <1>3. ASSUME NEW to \in {"baseline", "installing", "licensed"},
               LeaseFree, lease' = p, Goto(p, to), UNCHANGED <<mem, cmd>>,
               to = "baseline" => mem[p].phase \in {"NEW", "PREPARING"},
               to = "installing" => mem[p].phase = "PLANNED_FINISH",
               to = "licensed" => mem[p].phase = "INSTALLING_FINISH",
               to # "baseline" => ValidatePrefix(mem[p])
        PROVE  IInv'
    <2>1. pc'[p] = to
      BY <1>3 DEF Goto, IInv, TypeOK
    <2>2. Knows(p)'
      <3>1. CASE to = "baseline"
        BY <2>1, <3>1, BlankKnows DEF Blank
      <3>2. CASE to # "baseline"
        <4>1. prefix' /\ tool' # "absent" /\ cmd'[p] = "resume"
          BY <1>1, <1>3, <3>2 DEF ValidatePrefix, disk
        <4> QED BY <2>1, <3>2, <4>1, StepSets DEF Knows, After
      <3> QED BY <3>1, <3>2
    <2>3. to \in PcOf(cmd[p]) \ (Unlocked \cup {"mark"}) /\ mem[p].phase \in PhasesAt(to)
      BY <1>1, <1>3, Tables, StepSets DEF Unlocked, ResumeSteps
    <2> QED BY <1>1, <1>3, <2>2, <2>3, LockInv
  <1>4. mem[p].phase \in {"NEW", "PREPARING", "PLANNED_FINISH", "INSTALLING_FINISH"}
    BY <1>1, AtFact, Tables
  <1> QED BY <1>2, <1>3, <1>4 DEF ResumeLock

\* The Finish plan is written over the handoff.
LEMMA PlannedInv ==
    ASSUME IInv, NEW p \in Procs, Planned(p)
    PROVE  IInv'
  <1> DEFINE next == [mem[p] EXCEPT !.phase = "PLANNED_FINISH", !.finish = TRUE]
  <1>1. /\ cmd[p] = "finish" /\ pc[p] = "planned" /\ Transition(p, next, "installing")
        /\ UNCHANGED disk /\ files' = files
    BY DEF Planned, At, host, managed, disk
  <1>2. /\ mem[p] \in States /\ mem[p].phase = "AWAITING_STEAM_PREFIX" /\ WellFormed(mem[p])
        /\ Holds(p) /\ prefix /\ tool # "absent"
    BY <1>1, AtFact, Tables, StepSets DEF Holds, Unlocked, Knows
  <1>3. /\ next \in States /\ next.phase = "PLANNED_FINISH" /\ next.done = mem[p].done
        /\ next.tool = mem[p].tool /\ next.finish
        /\ next.child = mem[p].child /\ next.backup = mem[p].backup
    BY <1>2 DEF States, Phases, Live
  <1>4. Allowed("AWAITING_STEAM_PREFIX", "PLANNED_FINISH")
    BY DEF Allowed, Forward
  <1>5. Grows(mem[p], next) /\ WellFormed(next) /\ next.done \cap {"applied", "verified"} = {}
    BY <1>2, <1>3, <1>4 DEF Grows, WellFormed, Early
  <1>6. j = mem[p] => record # "none" /\ next.tool = record
    BY <1>2, <1>3 DEF IInv, Disk, HandedOff
  <1>7. /\ "installing" \in PcOf(cmd[p]) \ (Unlocked \cup {"mark"})
        /\ next.phase \in PhasesAt("installing")
    BY <1>1, <1>3, Tables, StepSets DEF Unlocked
  <1> HIDE DEF next
  <1>8. Keep(p, next, "installing") => Knows(p)'
    BY <1>1, <1>2, <1>5, KeepPc, StepSets DEF Knows, After, disk
  <1> QED BY <1>1, <1>2, <1>3, <1>5, <1>6, <1>7, <1>8, TransitionInv

\* INSTALLING_FINISH is written over PLANNED_FINISH.
LEMMA InstallingInv ==
    ASSUME IInv, NEW p \in Procs, Installing(p)
    PROVE  IInv'
  <1> DEFINE next == [mem[p] EXCEPT !.phase = "INSTALLING_FINISH"]
  <1>1. /\ cmd[p] \in {"finish", "resume"} /\ pc[p] = "installing"
        /\ Transition(p, next, "licensed") /\ UNCHANGED disk /\ files' = files
    BY DEF Installing, At, host, managed, disk
  <1>2. /\ mem[p] \in States /\ mem[p].phase = "PLANNED_FINISH" /\ WellFormed(mem[p])
        /\ Holds(p) /\ prefix /\ tool # "absent"
        /\ cmd[p] = "finish" => mem[p].done \cap {"applied", "verified"} = {}
    BY <1>1, AtFact, Tables, StepSets DEF Holds, Unlocked, Knows
  <1>3. /\ next \in States /\ next.phase = "INSTALLING_FINISH" /\ next.done = mem[p].done
        /\ next.tool = mem[p].tool /\ next.finish = mem[p].finish
        /\ next.child = mem[p].child /\ next.backup = mem[p].backup
    BY <1>2 DEF States, Phases, Live
  <1>4. Allowed("PLANNED_FINISH", "INSTALLING_FINISH")
    BY DEF Allowed, Forward
  <1>5. Grows(mem[p], next) /\ WellFormed(next)
    BY <1>2, <1>3, <1>4 DEF Grows, WellFormed, Early
  <1>6. j = mem[p] => record # "none" /\ next.tool = record
    BY <1>2, <1>3 DEF IInv, Disk, HandedOff
  <1>7. /\ "licensed" \in PcOf(cmd[p]) \ (Unlocked \cup {"mark"})
        /\ next.phase \in PhasesAt("licensed")
    BY <1>1, <1>3, Tables, StepSets DEF Unlocked
  <1> HIDE DEF next
  <1>8. Keep(p, next, "licensed") => Knows(p)'
    BY <1>1, <1>2, <1>3, KeepPc, StepSets DEF Knows, After, disk
  <1> QED BY <1>1, <1>2, <1>3, <1>5, <1>6, <1>7, <1>8, TransitionInv

\* What holds whenever Finish or its recovery installs.
LEMMA InstallFact ==
    ASSUME IInv, NEW p \in Procs, cmd[p] \in {"finish", "resume"},
           pc[p] \in Working \ {"installing"}
    PROVE  /\ mem[p] \in States /\ mem[p].phase = "INSTALLING_FINISH" /\ mem[p].finish
           /\ Holds(p) /\ prefix /\ tool # "absent" /\ j.finish /\ record # "none"
           /\ pc[p] # "wait" => ~helper
           /\ \A to \in Working \ {"installing"} :
                 to \in PcOf(cmd[p]) \ (Unlocked \cup {"mark"}) /\ mem[p].phase \in PhasesAt(to)
           /\ Knows(p)
  <1>1. /\ mem[p] \in States /\ mem[p].phase = "INSTALLING_FINISH" /\ Knows(p)
        /\ WellFormed(mem[p]) /\ Behind(mem[p])
    BY AtFact, Tables
  <1>2. mem[p].finish /\ j.finish
    BY <1>1 DEF WellFormed, Behind
  <1>3. Holds(p) /\ prefix /\ tool # "absent"
    BY <1>1, StepSets DEF Holds, Unlocked, Knows
  <1>4. record # "none" /\ (pc[p] # "wait" => ~helper)
    BY <1>2, <1>3, StepSets DEF IInv, Disk
  <1>5. \A to \in Working \ {"installing"} :
           to \in PcOf(cmd[p]) \ (Unlocked \cup {"mark"}) /\ mem[p].phase \in PhasesAt(to)
    BY <1>1, Tables, StepSets DEF Unlocked
  <1> QED BY <1>1, <1>2, <1>3, <1>4, <1>5

\* install_threading_copy, step by step.
LEMMA InstallThreadingInv ==
    ASSUME IInv, NEW p \in Procs, InstallThreading(p)
    PROVE  IInv'
  <1>1. /\ cmd[p] \in {"finish", "resume"} /\ pc[p] = "licensed" /\ j' = j
        /\ UNCHANGED <<mem, cmd, pc, lease>> /\ files' = files /\ faults' = faults
        /\ record' = record /\ origin' = origin /\ plan' = plan /\ prefix' = prefix
        /\ helper' = helper /\ tool' = tool /\ tree' = tree /\ runtime' = runtime
        /\ patch' = patch /\ manifest' = manifest
        /\ licensed' \in {"reserved", "open", "installed"}
    BY DEF InstallThreading, At, host, process
  <1>2. pc[p] \in Working \ {"installing"}
    BY <1>1, StepSets
  <1>3. /\ Holds(p) /\ tool # "absent" /\ j.finish /\ ~helper /\ Knows(p)
        /\ "licensed" \in PcOf(cmd[p]) \ (Unlocked \cup {"mark"})
        /\ mem[p].phase \in PhasesAt("licensed")
    BY <1>1, <1>2, InstallFact
  <1>4. Keep(p, mem[p], "licensed")
    BY <1>1 DEF Keep, Goto, IInv, TypeOK
  <1>5. Knows(p)'
    BY <1>1, <1>3, StepSets DEF Knows, After
  <1>6. DiskTypes'
    BY <1>1, TypeParts DEF IInv, DiskTypes
  <1>7. Disk'
    <2>1. Disk /\ WellFormed(j)' /\ ~helper'
      BY <1>1, <1>3 DEF IInv, Disk, WellFormed
    <2> QED BY <1>1, <1>3, <2>1 DEF Disk, PatchBefore
  <1> QED BY <1>1, <1>2, <1>3, <1>4, <1>5, <1>6, <1>7, ChangesInv

\* The checkpoint of the licensed copy.
LEMMA LicensedInstalledInv ==
    ASSUME IInv, NEW p \in Procs, LicensedInstalled(p)
    PROVE  IInv'
  <1>1. /\ cmd[p] \in {"finish", "resume"} /\ pc[p] = "licensed" /\ UNCHANGED disk
        /\ files' = files
    BY DEF LicensedInstalled, At, host, managed, disk
  <1>2. pc[p] \in Working \ {"installing"}
    BY <1>1, StepSets
  <1>3. CASE Raise(p) /\ UNCHANGED <<j, faults>>
    BY <1>1, <1>3, AtFact, GivesUpInv DEF GivesUp
  <1>4. CASE /\ licensed = "installed" \/ (cmd[p] = "finish" /\ plan.licensed = "keep")
             /\ Checkpoint(p, "licensed", mem[p], "runtime")
    <2>1. /\ mem[p] \in States /\ mem[p].phase = "INSTALLING_FINISH" /\ Holds(p)
          /\ prefix /\ tool # "absent" /\ Knows(p)
      BY <1>1, <1>2, InstallFact
    <2>2. /\ "runtime" \in PcOf(cmd[p]) \ (Unlocked \cup {"mark"})
          /\ mem[p].phase \in PhasesAt("runtime") /\ "licensed" \in Boundaries
      BY <1>1, <1>2, InstallFact, StepSets DEF Boundaries
    <2>3. ASSUME pc'[p] = "runtime", cmd'[p] = cmd[p],
                 mem'[p].done \subseteq mem[p].done \cup {"licensed"}
          PROVE  Knows(p)'
      BY <1>1, <1>4, <2>1, <2>3, StepSets DEF Knows, After, disk
    <2>4. [mem[p] EXCEPT !.done = @ \cup {"licensed"}].done = mem[p].done \cup {"licensed"}
      BY <2>1 DEF States
    <2>5. /\ Keep(p, mem[p], "runtime") => Knows(p)'
          /\ Keep(p, [mem[p] EXCEPT !.done = @ \cup {"licensed"}], "runtime") => Knows(p)'
      BY <2>3, <2>4, KeepPc
    <2> QED BY <1>1, <1>4, <2>1, <2>2, <2>5, CheckpointInv
  <1> QED BY <1>3, <1>4 DEF LicensedInstalled

\* install_runtime starts the installer, or finds the child of an earlier try.
LEMMA InstallRuntimeInv ==
    ASSUME IInv, NEW p \in Procs, InstallRuntime(p)
    PROVE  IInv'
  <1>1. /\ cmd[p] \in {"finish", "resume"} /\ pc[p] = "runtime" /\ j' = j
        /\ files' = files /\ faults' = faults
        /\ record' = record /\ origin' = origin /\ plan' = plan /\ prefix' = prefix
        /\ tool' = tool /\ tree' = tree /\ licensed' = licensed
        /\ patch' = patch /\ manifest' = manifest
    BY DEF InstallRuntime, At, host
  <1>2. pc[p] \in Working \ {"installing"} /\ {"child", "wait"} \subseteq Working \ {"installing"}
    BY <1>1, StepSets
  <1>3. /\ mem[p] \in States /\ Holds(p) /\ prefix /\ tool # "absent" /\ j.finish /\ ~helper
        /\ Knows(p) /\ faults' \in 0..MaxFaults /\ files' \subseteq {"plan", "before"}
    BY <1>1, <1>2, InstallFact, AtFact
  <1>4. ASSUME NEW to \in {"child", "wait"}
        PROVE  to \in PcOf(cmd[p]) \ (Unlocked \cup {"mark"}) /\ mem[p].phase \in PhasesAt(to)
    BY <1>1, <1>2, InstallFact
  <1>5. ASSUME pc'[p] \in {"child", "wait"}, cmd'[p] = cmd[p], mem'[p] = mem[p]
        PROVE  Knows(p)'
    BY <1>1, <1>3, <1>5, StepSets DEF Knows, After
  <1>6. CASE Raise(p) /\ UNCHANGED <<helper, runtime>>
    <2>1. UNCHANGED disk
      BY <1>1, <1>6 DEF disk
    <2> QED BY <1>1, <1>3, <1>6, <2>1, GivesUpInv DEF GivesUp
  <1>7. CASE Goto(p, "child") /\ UNCHANGED <<mem, cmd, lease, helper, runtime>>
    <2>1. UNCHANGED disk
      BY <1>1, <1>7 DEF disk
    <2>2. Keep(p, mem[p], "child")
      BY <1>7, AtFact DEF Keep
    <2>3. Knows(p)'
      BY <1>5, <2>2, KeepPc
    <2> QED BY <1>1, <1>2, <1>3, <1>4, <2>1, <2>2, <2>3, GoesOnInv
  <1>8. CASE /\ helper' = TRUE /\ runtime' = "open"
             /\ Goto(p, "wait") /\ UNCHANGED <<mem, cmd, lease>>
    <2>1. Keep(p, mem[p], "wait")
      BY <1>8, AtFact DEF Keep
    <2>2. Knows(p)'
      BY <1>5, <2>1, KeepPc
    <2>3. DiskTypes'
      <3>1. helper' \in BOOLEAN
        BY <1>8, Zenon
      <3> QED BY <1>1, <1>3, <1>8, <3>1, TypeParts DEF IInv, DiskTypes, Unfinished
    <2>4. Disk'
      <3>1. Disk /\ WellFormed(j)'
        BY <1>1 DEF IInv, Disk, WellFormed
      <3>2. \A q \in Procs : Holds(q)' => pc'[q] \in {"wait", "undo_wait"}
        <4>1. Sole(p)
          BY <1>3, HolderIsSole
        <4>2. \A q \in Procs \ {p} : pc'[q] = pc[q] /\ cmd'[q] = cmd[q]
          BY <1>8 DEF Goto, IInv, TypeOK
        <4> QED BY <2>1, <4>1, <4>2, KeepPc DEF Sole, Holds
      <3> QED BY <1>1, <1>3, <1>8, <3>1, <3>2 DEF Disk, PatchBefore
    <2> QED BY <1>1, <1>2, <1>3, <1>4, <2>1, <2>2, <2>3, <2>4, ChangesInv
  <1> QED BY <1>6, <1>7, <1>8 DEF InstallRuntime

\* The installer returns to the command that waits for it.
LEMMA RuntimeReturnsInv ==
    ASSUME IInv, NEW p \in Procs, RuntimeReturns(p)
    PROVE  IInv'
  <1>1. /\ cmd[p] \in {"finish", "resume"} /\ pc[p] = "wait" /\ ~helper /\ UNCHANGED disk
        /\ j' = j /\ files' = files /\ faults' = faults
    BY DEF RuntimeReturns, At, host, managed, disk
  <1>2. pc[p] \in Working \ {"installing"} /\ "child" \in Working \ {"installing"}
    BY <1>1, StepSets
  <1>3. CASE Raise(p)
    BY <1>1, <1>3, AtFact, GivesUpInv DEF GivesUp
  <1>4. CASE Goto(p, "child") /\ UNCHANGED <<mem, cmd, lease>>
    <2>1. Keep(p, mem[p], "child")
      BY <1>4, AtFact DEF Keep
    <2>2. /\ mem[p] \in States /\ Holds(p) /\ prefix /\ tool # "absent" /\ Knows(p)
          /\ faults' \in 0..MaxFaults /\ files' \subseteq {"plan", "before"}
          /\ "child" \in PcOf(cmd[p]) \ (Unlocked \cup {"mark"})
          /\ mem[p].phase \in PhasesAt("child")
      BY <1>1, <1>2, InstallFact, AtFact
    <2>3. Knows(p)'
      BY <1>1, <2>1, <2>2, KeepPc, StepSets DEF Knows, After, disk
    <2> QED BY <1>1, <1>2, <2>1, <2>2, <2>3, GoesOnInv
  <1> QED BY <1>3, <1>4 DEF RuntimeReturns

\* Where a checkpoint leaves a process.
Past(p, b, next, to) ==
    /\ pc'[p] = to /\ cmd'[p] = cmd[p] /\ mem'[p].done \subseteq mem[p].done \cup {b}
    /\ mem'[p].child = next.child /\ mem'[p].backup = next.backup

\* A checkpoint of the installation: the caller shows what is known after it.
LEMMA InstallCheckpointInv ==
    ASSUME IInv, NEW p \in Procs, cmd[p] \in {"finish", "resume"},
           pc[p] \in Working \ {"installing", "wait"}, NEW next \in States,
           NEW b \in Boundaries, NEW to \in Working \ {"installing"},
           Checkpoint(p, b, next, to), next.phase = mem[p].phase, next.tool = mem[p].tool,
           next.done = mem[p].done, next.finish = mem[p].finish,
           mem[p].child => next.child, mem[p].backup => next.backup,
           UNCHANGED disk, files' = files,
           Past(p, b, next, to) => Knows(p)'
    PROVE  IInv'
  <1>1. /\ mem[p].phase = "INSTALLING_FINISH" /\ Holds(p)
        /\ to \in PcOf(cmd[p]) \ (Unlocked \cup {"mark"}) /\ mem[p].phase \in PhasesAt(to)
    BY InstallFact
  <1> DEFINE n == [next EXCEPT !.done = @ \cup {b}]
  <1>2. n.done = mem[p].done \cup {b} /\ n.child = next.child /\ n.backup = next.backup
    BY DEF States
  <1>3. Keep(p, next, to) => Knows(p)'
    BY KeepPc DEF Past
  <1>4. Keep(p, n, to) => Knows(p)'
    <2> HIDE DEF n
    <2> QED BY <1>2, KeepPc DEF Past
  <1> QED BY <1>1, <1>3, <1>4, CheckpointInv, StepSets

\* The checkpoint of the runtime names the child.
LEMMA RuntimeInstalledInv ==
    ASSUME IInv, NEW p \in Procs, RuntimeInstalled(p)
    PROVE  IInv'
  <1> DEFINE next == [mem[p] EXCEPT !.child = @ \/ plan.runtime = "install"]
  <1>1. /\ cmd[p] \in {"finish", "resume"} /\ pc[p] = "child" /\ UNCHANGED disk
        /\ files' = files /\ Checkpoint(p, "runtime", next, "status")
    BY DEF RuntimeInstalled, At, host, managed, disk
  <1>2. /\ pc[p] \in Working \ {"installing", "wait"} /\ "status" \in Working \ {"installing"}
        /\ "runtime" \in Boundaries
    BY <1>1, StepSets DEF Boundaries
  <1>3. /\ mem[p] \in States /\ prefix /\ tool # "absent" /\ Knows(p)
    BY <1>1, <1>2, InstallFact
  <1>4. /\ next \in States /\ next.phase = mem[p].phase /\ next.tool = mem[p].tool
        /\ next.done = mem[p].done /\ next.finish = mem[p].finish
        /\ next.backup = mem[p].backup
    BY <1>3 DEF States
  <1>5. next.child <=> mem[p].child \/ plan.runtime = "install"
    BY <1>3 DEF States
  <1> HIDE DEF next
  <1>6. Past(p, "runtime", next, "status") => Knows(p)'
    BY <1>1, <1>3, <1>5, StepSets DEF Past, Knows, After, disk
  <1> QED BY <1>1, <1>2, <1>4, <1>5, <1>6, InstallCheckpointInv

\* The checkpoint after the installer's own status.
LEMMA RuntimeStatusVerifiedInv ==
    ASSUME IInv, NEW p \in Procs, RuntimeStatusVerified(p)
    PROVE  IInv'
  <1>1. /\ cmd[p] \in {"finish", "resume"} /\ pc[p] = "status" /\ UNCHANGED disk /\ files' = files
    BY DEF RuntimeStatusVerified, At, host, managed, disk
  <1>2. /\ pc[p] \in Working \ {"installing", "wait"} /\ "patch" \in Working \ {"installing"}
        /\ "status" \in Boundaries
    BY <1>1, StepSets DEF Boundaries
  <1>3. mem[p] \in States /\ prefix /\ tool # "absent" /\ Knows(p)
    BY <1>1, <1>2, InstallFact
  <1>4. CASE Raise(p) /\ UNCHANGED <<j, faults>>
    BY <1>1, <1>4, AtFact, GivesUpInv DEF GivesUp
  <1>5. CASE /\ plan.runtime = "keep" \/ runtime = "installed"
             /\ Checkpoint(p, "status", mem[p], "patch")
    <2>1. Past(p, "status", mem[p], "patch") => Knows(p)'
      BY <1>1, <1>3, <1>5, StepSets DEF Past, Knows, After, disk
    <2> QED BY <1>1, <1>2, <1>3, <1>5, <2>1, InstallCheckpointInv
  <1> QED BY <1>4, <1>5 DEF RuntimeStatusVerified

\* The patcher runs to its end.
LEMMA ApplyPatchesInv ==
    ASSUME IInv, NEW p \in Procs, ApplyPatches(p)
    PROVE  IInv'
  <1>1. /\ cmd[p] \in {"finish", "resume"} /\ pc[p] = "patch" /\ j' = j
        /\ plan.patch = "apply" /\ files' = files /\ faults' = faults
        /\ record' = record /\ origin' = origin /\ plan' = plan /\ prefix' = prefix
        /\ helper' = helper /\ tool' = tool /\ licensed' = licensed /\ runtime' = runtime
        /\ patch' = "patched" /\ manifest' = TRUE /\ tree' = FALSE
        /\ Goto(p, "patched") /\ UNCHANGED <<mem, cmd, lease>>
    BY DEF ApplyPatches, Applies, At, host
  <1>2. pc[p] \in Working \ {"installing"} /\ "patched" \in Working \ {"installing"}
    BY <1>1, StepSets
  <1>3. /\ Holds(p) /\ prefix /\ tool # "absent" /\ j.finish /\ ~helper /\ Knows(p)
        /\ files' \subseteq {"plan", "before"}
        /\ "patched" \in PcOf(cmd[p]) \ (Unlocked \cup {"mark"})
        /\ mem[p].phase \in PhasesAt("patched")
    BY <1>1, <1>2, InstallFact, AtFact
  <1>4. Keep(p, mem[p], "patched")
    BY <1>1, AtFact DEF Keep
  <1>5. Knows(p)'
    BY <1>1, <1>3, <1>4, KeepPc, StepSets DEF Knows, After
  <1>6. DiskTypes'
    <2>1. manifest' \in BOOLEAN /\ tree' \in BOOLEAN
      BY <1>1, Zenon
    <2> QED BY <1>1, <1>3, <2>1, TypeParts DEF IInv, DiskTypes
  <1>7. Disk'
    <2>1. Disk /\ WellFormed(j)' /\ ~helper' /\ ~tree'
      BY <1>1, <1>3 DEF IInv, Disk, WellFormed
    <2> QED BY <1>1, <1>3, <2>1 DEF Disk, PatchBefore
  <1> QED BY <1>1, <1>2, <1>3, <1>4, <1>5, <1>6, <1>7, ChangesInv

\* What the patch status says of a record with a Finish plan.
LEMMA PatchStatusFact ==
    ASSUME TypeOK, NEW m \in States, m.finish
    PROVE  /\ PatchStatus(m) \in {"pending", "not_applicable"} => patch = "patched"
           /\ PatchStatus(m) = "pending" => plan.patch # "keep"
           /\ PatchStatus(m) \in {"rolled_back", "not_applicable"} => patch = PatchBefore
  BY DEF TypeOK, PatchStatus, PatchBefore

\* Nothing to apply: the patches are there.
LEMMA InspectPatchesInv ==
    ASSUME IInv, NEW p \in Procs, InspectPatches(p)
    PROVE  IInv'
  <1>1. /\ cmd[p] \in {"finish", "resume"} /\ pc[p] = "patch" /\ j' = j /\ ~Applies(p)
        /\ UNCHANGED disk /\ files' = files /\ faults' = faults
    BY DEF InspectPatches, At, host, managed, disk
  <1>2. pc[p] \in Working \ {"installing"} /\ "patched" \in Working \ {"installing"}
    BY <1>1, StepSets
  <1>3. /\ mem[p] \in States /\ mem[p].finish /\ Holds(p) /\ prefix /\ tool # "absent"
        /\ Knows(p) /\ faults' \in 0..MaxFaults /\ files' \subseteq {"plan", "before"}
        /\ "patched" \in PcOf(cmd[p]) \ (Unlocked \cup {"mark"})
        /\ mem[p].phase \in PhasesAt("patched")
    BY <1>1, <1>2, InstallFact, AtFact
  <1>4. CASE Raise(p)
    BY <1>1, <1>3, <1>4, GivesUpInv DEF GivesUp
  <1>5. CASE /\ Goto(p, "patched") /\ UNCHANGED <<mem, cmd, lease>>
             /\ IF cmd[p] = "finish" THEN ValidatePrefix(mem[p])
                ELSE PatchStatus(mem[p]) \in {"pending", "not_applicable"}
    <2>1. patch = "patched"
      <3>1. CASE cmd[p] = "resume"
        BY <1>3, <1>5, <3>1, PatchStatusFact DEF IInv
      <3>2. CASE cmd[p] = "finish"
        <4>1. mem[p].done \cap {"applied", "verified"} = {}
          BY <1>1, <1>2, <1>3, <3>2, StepSets DEF Knows
        <4>2. plan.patch # "apply"
          BY <1>1, <1>5, <3>2, <4>1 DEF Applies, At
        <4>3. plan.patch \in {"apply", "keep"}
          BY CoordinatorAssumption DEF IInv, TypeOK, Dispositions
        <4> QED BY <4>2, <4>3 DEF IInv, Disk
      <3> QED BY <1>1, <3>1, <3>2
    <2>2. Keep(p, mem[p], "patched")
      BY <1>5, AtFact DEF Keep
    <2>3. Knows(p)'
      BY <1>1, <1>3, <2>1, <2>2, KeepPc, StepSets DEF Knows, After, disk
    <2> QED BY <1>1, <1>2, <1>3, <2>2, <2>3, GoesOnInv
  <1> QED BY <1>1, <1>4, <1>5 DEF InspectPatches

\* The checkpoint of the patches names their backup.
LEMMA PatchesRecordedInv ==
    ASSUME IInv, NEW p \in Procs, PatchesRecorded(p)
    PROVE  IInv'
  <1>1. /\ cmd[p] \in {"finish", "resume"} /\ pc[p] = "patched" /\ UNCHANGED disk /\ files' = files
    BY DEF PatchesRecorded, At, host, managed, disk
  <1>2. /\ pc[p] \in Working \ {"installing", "wait"} /\ "verify" \in Working \ {"installing"}
        /\ {"applied", "verified"} \subseteq Boundaries
    BY <1>1, StepSets DEF Boundaries
  <1>3. mem[p] \in States /\ prefix /\ tool # "absent" /\ Knows(p)
    BY <1>1, <1>2, InstallFact
  <1>4. CASE plan.patch = "keep" /\ Checkpoint(p, "verified", mem[p], "verify")
    <2>1. Past(p, "verified", mem[p], "verify") => Knows(p)'
      BY <1>1, <1>3, <1>4, StepSets DEF Past, Knows, After, disk
    <2> QED BY <1>1, <1>2, <1>3, <1>4, <2>1, InstallCheckpointInv
  <1>5. CASE Checkpoint(p, "applied", [mem[p] EXCEPT !.backup = TRUE], "verify")
    <2> DEFINE next == [mem[p] EXCEPT !.backup = TRUE]
    <2>1. /\ next \in States /\ next.phase = mem[p].phase /\ next.tool = mem[p].tool
          /\ next.done = mem[p].done /\ next.finish = mem[p].finish
          /\ next.child = mem[p].child /\ next.backup
      BY <1>3 DEF States
    <2>2. Checkpoint(p, "applied", next, "verify")
      BY <1>5
    <2> HIDE DEF next
    <2>3. Past(p, "applied", next, "verify") => Knows(p)'
      BY <1>1, <1>3, <2>1, StepSets DEF Past, Knows, After, disk
    <2> QED BY <1>1, <1>2, <2>1, <2>2, <2>3, InstallCheckpointInv
  <1> QED BY <1>4, <1>5 DEF PatchesRecorded

\* The checkpoint of the doctor's comparison.
LEMMA VerifyInv ==
    ASSUME IInv, NEW p \in Procs, Verify(p)
    PROVE  IInv'
  <1>1. /\ cmd[p] \in {"finish", "resume"} /\ pc[p] = "verify" /\ UNCHANGED disk /\ files' = files
    BY DEF Verify, At, host, managed, disk
  <1>2. /\ pc[p] \in Working \ {"installing", "wait"} /\ "ready" \in Working \ {"installing"}
        /\ "checked" \in Boundaries
    BY <1>1, StepSets DEF Boundaries
  <1>3. mem[p] \in States /\ prefix /\ tool # "absent" /\ Knows(p)
    BY <1>1, <1>2, InstallFact
  <1>4. CASE Raise(p) /\ UNCHANGED <<j, faults>>
    BY <1>1, <1>4, AtFact, GivesUpInv DEF GivesUp
  <1>5. CASE Checkpoint(p, "checked", mem[p], "ready")
    <2>1. Past(p, "checked", mem[p], "ready") => Knows(p)'
      BY <1>1, <1>3, StepSets DEF Past, Knows, After, disk
    <2> QED BY <1>1, <1>2, <1>3, <1>5, <2>1, InstallCheckpointInv
  <1> QED BY <1>4, <1>5 DEF Verify

\* READY_TO_ATTEMPT.
LEMMA ReadyInv ==
    ASSUME IInv, NEW p \in Procs, Ready(p)
    PROVE  IInv'
  <1> DEFINE next == [mem[p] EXCEPT !.phase = "READY_TO_ATTEMPT"]
  <1>1. /\ cmd[p] \in {"finish", "resume"} /\ pc[p] = "ready" /\ Last(p, next)
        /\ UNCHANGED disk /\ files' = files
    BY DEF Ready, At, host, managed, disk
  <1>2. pc[p] \in Working \ {"installing"}
    BY <1>1, StepSets
  <1>3. /\ mem[p] \in States /\ mem[p].phase = "INSTALLING_FINISH" /\ WellFormed(mem[p])
        /\ Holds(p) /\ tool # "absent"
    BY <1>1, <1>2, InstallFact, AtFact
  <1>4. /\ next \in States /\ next.phase = "READY_TO_ATTEMPT" /\ next.done = mem[p].done
        /\ next.tool = mem[p].tool /\ next.finish = mem[p].finish
        /\ next.child = mem[p].child /\ next.backup = mem[p].backup
    BY <1>3 DEF States, Phases, Live
  <1>5. Allowed("INSTALLING_FINISH", "READY_TO_ATTEMPT")
    BY DEF Allowed, Forward
  <1>6. Grows(mem[p], next) /\ WellFormed(next)
    BY <1>3, <1>4, <1>5 DEF Grows, WellFormed, Early
  <1>7. j = mem[p] => record # "none" /\ next.tool = record
    BY <1>3, <1>4 DEF IInv, Disk, HandedOff
  <1> HIDE DEF next
  <1> QED BY <1>1, <1>3, <1>4, <1>5, <1>6, <1>7, LastInv

-----------------------------------------------------------------------------
(* Resume ends, and the mark *)

\* A resume compares its result with the journal after it has given up the lease.
LEMMA ResumeReturnsInv ==
    ASSUME IInv, NEW p \in Procs, ResumeReturns(p)
    PROVE  IInv'
  <1>1. /\ pc[p] = "returned" /\ GivesUp(p) /\ j' = j /\ UNCHANGED disk
        /\ files' = files /\ faults' = faults
    BY DEF ResumeReturns, At, GivesUp, host, managed, disk
  <1> QED BY <1>1, AtFact, GivesUpInv

\* The latest record is loaded without the lease.
LEMMA LoadLatestInv ==
    ASSUME IInv, NEW p \in Procs, LoadLatest(p)
    PROVE  IInv'
  <1>1. /\ cmd[p] = "resume" /\ pc[p] = "latest" /\ j' = j /\ UNCHANGED disk
        /\ mem' = [mem EXCEPT ![p] = j] /\ Goto(p, "mark") /\ cmd' = cmd /\ lease' = lease
        /\ files' = files /\ faults' = faults
    BY DEF LoadLatest, At, host, managed, disk
  <1>2. ControlTypes /\ Disk /\ files' \subseteq {"plan", "before"}
    BY <1>1, AtFact, TypeParts DEF IInv
  <1>3. Others(p) /\ pc'[p] = "mark" /\ cmd'[p] = "resume" /\ mem'[p] = j'
    BY <1>1, <1>2 DEF Goto, Others, ControlTypes
  <1>4. ControlTypes'
    BY <1>1, <1>2, StepSets DEF ControlTypes, Goto
  <1>5. Copy(p)'
    <2>1. pc'[p] \in PcOf(cmd'[p]) /\ mem'[p].phase \in PhasesAt(pc'[p])
      BY <1>3, <1>4, Tables DEF ControlTypes, States
    <2>2. WellFormed(mem[p])' /\ Behind(mem[p])'
      BY <1>1, <1>2, <1>3 DEF Disk, WellFormed, Behind
    <2>3. ~Holds(p)' /\ ~Owner(p)'
      BY <1>3 DEF Holds, Owner
    <2> QED BY <2>1, <2>2, <2>3 DEF Copy
  <1>6. Copies'
    BY <1>1, <1>3, <1>5, OthersCopy DEF Copies
  <1>7. Established'
    <2>1. Knows(p)'
      BY <1>3, BlankKnows DEF Blank
    <2> QED BY <1>1, <1>3, <2>1, OthersKnow DEF Established
  <1>8. ~helper \/ \A q \in Procs : Holds(q)' => pc'[q] \in {"wait", "undo_wait"}
    BY <1>2, <1>3 DEF Disk, Others, Holds
  <1>9. Disk' /\ DiskTypes'
    BY <1>1, <1>2, <1>8, DiskKept, DiskTypesKept
  <1> QED BY <1>4, <1>6, <1>7, <1>9, TypeParts, PTL DEF IInv

\* A record with another phase of the withdrawal.
LEMMA WithdrawFact ==
    ASSUME NEW m \in States, WellFormed(m), NEW phase \in Withdrawn, Allowed(m.phase, phase)
    PROVE  LET next == [m EXCEPT !.phase = phase]
           IN  /\ next \in States /\ next.phase = phase /\ WellFormed(next) /\ Grows(m, next)
               /\ next.phase \notin HandedOff /\ next.phase # "NONE" /\ next.finish = m.finish
  <1> DEFINE next == [m EXCEPT !.phase = phase]
  <1>1. /\ next \in States /\ next.phase = phase /\ next.done = m.done
        /\ next.tool = m.tool /\ next.finish = m.finish
        /\ next.child = m.child /\ next.backup = m.backup
    BY DEF States, Phases, Live, Withdrawn
  <1>2. phase # "NONE" /\ phase \notin HandedOff
    BY DEF Withdrawn, HandedOff
  <1>3. WellFormed(next)
    BY <1>1, <1>2 DEF WellFormed, Early, HandedOff, Withdrawn
  <1> QED BY <1>1, <1>2, <1>3 DEF Grows

\* _recovery_required, with the lease or without it.
LEMMA MarkInv ==
    ASSUME IInv, NEW p \in Procs, Mark(p)
    PROVE  IInv'
  <1> DEFINE next == [mem[p] EXCEPT !.phase = "RECOVERY_REQUIRED"]
  <1>1. /\ pc[p] = "mark" /\ UNCHANGED disk /\ files' = files
    BY DEF Mark, At, host, managed, disk
  <1>2. /\ Stop(p) /\ faults' \in 0..MaxFaults
        /\ j' = j \/ (j = mem[p] /\ Allowed(mem[p].phase, next.phase) /\ j' = next)
    BY CoordinatorAssumption DEF Mark, Swap, Matches, Fault, IInv, TypeOK
  <1>3. mem[p] \in States /\ WellFormed(mem[p]) /\ files' \subseteq {"plan", "before"}
    BY <1>1, AtFact
  <1>4. CASE j' = j
    BY <1>1, <1>2, <1>3, <1>4, GivesUpInv DEF GivesUp
  <1>5. CASE j = mem[p] /\ Allowed(mem[p].phase, next.phase) /\ j' = next
    <2>1. Allowed(mem[p].phase, "RECOVERY_REQUIRED")
      BY <1>3, <1>5 DEF States
    <2>2. /\ next \in States /\ WellFormed(next) /\ Grows(mem[p], next)
          /\ next.phase \notin HandedOff /\ next.phase # "NONE" /\ next.finish = mem[p].finish
      BY <1>3, <2>1, WithdrawFact DEF Withdrawn
    <2>3. Marked
      BY <1>5 DEF Marked
    <2>4. j.finish => record # "none"
      BY DEF IInv, Disk
    <2>5. /\ j' \in States /\ Grows(j, j') /\ WellFormed(j') /\ j'.phase # "NONE"
          /\ j'.phase \notin HandedOff /\ (j'.finish => record # "none")
      BY <1>5, <2>2, <2>4
    <2> QED BY <1>1, <1>2, <2>3, <2>5, EndsInv
  <1> QED BY <1>2, <1>4, <1>5

-----------------------------------------------------------------------------
(* Rollback *)

\* What a rollback knows: its copy names what the durable record names, and no
\* installer runs but the one it waits for.
LEMMA RollbackFact ==
    ASSUME IInv, NEW p \in Procs, cmd[p] = "rollback"
    PROVE  /\ mem[p] \in States /\ WellFormed(mem[p]) /\ Holds(p) /\ pc[p] \in RollbackSteps
           /\ pc[p] # "undo_wait" => ~helper
           /\ pc[p] \notin {"preflight", "mark"} =>
                 mem[p].phase = "ROLLING_BACK" /\ j.phase \notin HandedOff
                 /\ j.phase \in {"ROLLING_BACK", "RECOVERY_REQUIRED"}
           /\ mem[p].finish = j.finish /\ mem[p].tool = j.tool /\ Knows(p)
           /\ mem[p].finish => record # "none"
           /\ \A to \in RollbackSteps \ {"preflight", "mark"} :
                 to \in PcOf(cmd[p]) \ (Unlocked \cup {"mark"}) /\ "ROLLING_BACK" \in PhasesAt(to)
  <1>1. /\ mem[p] \in States /\ WellFormed(mem[p]) /\ pc[p] \in RollbackSteps /\ Knows(p)
        /\ mem[p].phase \in PhasesAt(pc[p]) /\ Fresh(mem[p])
    BY AtFact, Tables DEF Owner
  <1>2. Holds(p) /\ (pc[p] # "undo_wait" => ~helper)
    <2>1. Holds(p) /\ pc[p] # "wait"
      BY <1>1, StepSets DEF Holds, Unlocked
    <2> QED BY <2>1 DEF IInv, Disk
  <1>3. pc[p] \notin {"preflight", "mark"} => mem[p].phase = "ROLLING_BACK"
    BY <1>1, Tables
  <1>4. /\ mem[p].finish = j.finish /\ mem[p].tool = j.tool
        /\ j.phase \in {mem[p].phase, "RECOVERY_REQUIRED"}
    BY <1>1 DEF Fresh, States
  <1>5. j.finish => record # "none"
    BY DEF IInv, Disk
  <1>6. \A to \in RollbackSteps \ {"preflight", "mark"} :
           to \in PcOf(cmd[p]) \ (Unlocked \cup {"mark"}) /\ "ROLLING_BACK" \in PhasesAt(to)
    BY Tables, StepSets DEF Unlocked
  <1> QED BY <1>1, <1>2, <1>3, <1>4, <1>5, <1>6 DEF HandedOff

\* The owners are inspected, then ROLLING_BACK is written.
LEMMA PreflightInv ==
    ASSUME IInv, NEW p \in Procs, Preflight(p)
    PROVE  IInv'
  <1> DEFINE next == [mem[p] EXCEPT !.phase = "ROLLING_BACK"]
  <1>1. /\ cmd[p] = "rollback" /\ pc[p] = "preflight" /\ UNCHANGED disk /\ files' = files
    BY DEF Preflight, At, host, managed, disk
  <1>2. /\ faults' \in 0..MaxFaults
        /\ \/ j' = j /\ GivesUp(p)
           \/ j' = j /\ mem[p].phase = "ROLLING_BACK" /\ Keep(p, mem[p], "undo_patches")
           \/ /\ j = mem[p] /\ Allowed(mem[p].phase, next.phase) /\ j' = next
              /\ Keep(p, next, "undo_patches")
    BY CoordinatorAssumption DEF Preflight, Swap, Matches, Fault, IInv, TypeOK, GivesUp, UndoSteps
  <1>3. /\ mem[p] \in States /\ WellFormed(mem[p]) /\ Holds(p)
        /\ mem[p].finish => record # "none"
        /\ "undo_patches" \in PcOf(cmd[p]) \ (Unlocked \cup {"mark"})
        /\ "ROLLING_BACK" \in PhasesAt("undo_patches") /\ files' \subseteq {"plan", "before"}
    BY <1>1, RollbackFact, AtFact, StepSets
  <1>4. ASSUME pc'[p] = "undo_patches" PROVE Knows(p)'
    BY <1>4, BlankKnows DEF Blank
  <1>5. CASE j' = j /\ GivesUp(p)
    BY <1>1, <1>2, <1>3, <1>5, GivesUpInv
  <1>6. CASE j' = j /\ mem[p].phase = "ROLLING_BACK" /\ Keep(p, mem[p], "undo_patches")
    <2>1. Knows(p)'
      BY <1>4, <1>6, KeepPc
    <2> QED BY <1>1, <1>2, <1>3, <1>6, <2>1, GoesOnInv
  <1>7. CASE /\ j = mem[p] /\ Allowed(mem[p].phase, next.phase) /\ j' = next
             /\ Keep(p, next, "undo_patches")
    <2>1. Allowed(mem[p].phase, "ROLLING_BACK")
      BY <1>3, <1>7 DEF States
    <2>2. /\ next \in States /\ next.phase = "ROLLING_BACK" /\ WellFormed(next)
          /\ Grows(mem[p], next) /\ next.phase \notin HandedOff /\ next.phase # "NONE"
          /\ next.finish = mem[p].finish
      BY <1>3, <2>1, WithdrawFact DEF Withdrawn
    <2>3. /\ Keep(p, next, "undo_patches") /\ j' = next /\ Grows(j, next)
          /\ next.finish => record # "none"
      BY <1>3, <1>7, <2>2
    <2> HIDE DEF next
    <2>4. Knows(p)'
      BY <1>4, <2>3, KeepPc
    <2> QED BY <1>1, <1>2, <1>3, <2>2, <2>3, <2>4, GoesOnInv
  <1> QED BY <1>2, <1>5, <1>6, <1>7

\* ROLLED_BACK.
LEMMA RolledBackInv ==
    ASSUME IInv, NEW p \in Procs, RolledBack(p)
    PROVE  IInv'
  <1> DEFINE next == [mem[p] EXCEPT !.phase = "ROLLED_BACK"]
  <1>1. /\ cmd[p] = "rollback" /\ pc[p] = "undone" /\ UNCHANGED disk /\ files' = files
    BY DEF RolledBack, At, host, managed, disk
  <1>2. /\ Stop(p) /\ faults' \in 0..MaxFaults
        /\ j' = j \/ (j = mem[p] /\ Allowed(mem[p].phase, next.phase) /\ j' = next)
    BY CoordinatorAssumption DEF RolledBack, Swap, Matches, Fault, IInv, TypeOK
  <1>3. /\ mem[p] \in States /\ WellFormed(mem[p]) /\ Holds(p) /\ Sole(p)
        /\ mem[p].finish => record # "none"
        /\ files' \subseteq {"plan", "before"}
    BY <1>1, RollbackFact, AtFact, HolderIsSole
  <1>4. CASE j' = j
    BY <1>1, <1>2, <1>3, <1>4, GivesUpInv DEF GivesUp
  <1>5. CASE j = mem[p] /\ Allowed(mem[p].phase, next.phase) /\ j' = next
    <2>1. Allowed(mem[p].phase, "ROLLED_BACK")
      BY <1>3, <1>5 DEF States
    <2>2. /\ next \in States /\ WellFormed(next) /\ Grows(mem[p], next)
          /\ next.phase \notin HandedOff /\ next.phase # "NONE" /\ next.finish = mem[p].finish
      BY <1>3, <2>1, WithdrawFact DEF Withdrawn
    <2>3. /\ j' \in States /\ Grows(j, j') /\ WellFormed(j') /\ j'.phase # "NONE"
          /\ j'.phase \notin HandedOff /\ (j'.finish => record # "none")
      BY <1>3, <1>5, <2>2
    <2> QED BY <1>1, <1>2, <1>3, <2>3, EndsInv
  <1> QED BY <1>2, <1>4, <1>5

\* The four owners, in the order of the rollback.
LEMMA StatusFact ==
    ASSUME NEW m
    PROVE  /\ DOMAIN Status(m) = {"undo_patches", "undo_runtime", "undo_licensed", "undo_tool"}
           /\ Status(m)["undo_patches"] = PatchStatus(m)
           /\ Status(m)["undo_runtime"] = RuntimeStatus(m)
           /\ Status(m)["undo_licensed"] = LicensedStatus
           /\ Status(m)["undo_tool"] = ToolStatus(m)
  BY DEF Status

\* An owner that is pending can be undone: what that finds on disk.
LEMMA PendingFact ==
    ASSUME IInv, NEW m \in States, WellFormed(m)
    PROVE  /\ PatchStatus(m) = "pending" => PatchBefore = "original" /\ plan.patch # "keep"
           /\ RuntimeStatus(m) = "pending" => runtime \in {"open", "bare", "installed", "rolling_back"}
           /\ LicensedStatus = "pending" => licensed \in {"open", "installed"}
           /\ ToolStatus(m) = "pending" => record = "created" /\ tool # "absent" /\ tree
  <1>1. PatchStatus(m) = "pending" => PatchBefore = "original" /\ plan.patch # "keep"
    <2>1. m.backup => m.finish
      BY DEF WellFormed
    <2>2. CASE m.finish
      BY <2>2, PatchStatusFact DEF IInv, PatchBefore
    <2>3. CASE ~m.finish
      BY <2>1, <2>3 DEF PatchStatus
    <2> QED BY <2>2, <2>3
  <1>2. RuntimeStatus(m) = "pending" => runtime \in {"open", "bare", "installed", "rolling_back"}
    BY DEF RuntimeStatus
  <1>3. LicensedStatus = "pending" => licensed \in {"open", "installed"}
    BY DEF LicensedStatus, IInv, TypeOK
  <1>4. ToolStatus(m) = "pending" => record = "created" /\ tool # "absent" /\ tree
    BY DEF ToolStatus, ToolAsRecorded, IInv, TypeOK
  <1> QED BY <1>1, <1>2, <1>3, <1>4

\* An owner's own rollback; that of the runtime is left to its installer.
LEMMA UndoInv ==
    ASSUME IInv, NEW p \in Procs, Undo(p)
    PROVE  IInv'
  <1>1. PICK s \in DOMAIN Status(mem[p]) :
            /\ At(p, {"rollback"}, s) /\ Status(mem[p])[s] = "pending"
            /\ patch' = IF s = "undo_patches" THEN "original" ELSE patch
            /\ licensed' = IF s = "undo_licensed" THEN "rolled_back" ELSE licensed
            /\ tool' = IF s = "undo_tool" THEN "absent" ELSE tool
            /\ IF s = "undo_runtime"
               THEN /\ helper' = TRUE /\ Goto(p, "undo_wait")
                    /\ runtime' = IF runtime = "bare" THEN "bare" ELSE "rolling_back"
               ELSE UNCHANGED <<helper, pc, runtime>>
            /\ UNCHANGED <<j, mem, cmd, lease, files, record, host, tree, manifest, faults>>
    BY Zenon DEF Undo
  <1> DEFINE to == IF s = "undo_runtime" THEN "undo_wait" ELSE s
  <1>2. /\ cmd[p] = "rollback" /\ pc[p] = s
        /\ s \in {"undo_patches", "undo_runtime", "undo_licensed", "undo_tool"}
        /\ j' = j /\ UNCHANGED <<mem, cmd, lease>> /\ faults' = faults /\ files' = files
        /\ record' = record /\ origin' = origin /\ plan' = plan /\ prefix' = prefix
        /\ tree' = tree /\ manifest' = manifest
    BY <1>1, StatusFact DEF At, host
  <1>3. /\ mem[p] \in States /\ WellFormed(mem[p]) /\ Holds(p) /\ Knows(p) /\ ~helper
        /\ mem[p].phase = "ROLLING_BACK" /\ j.phase \notin HandedOff
        /\ to \in PcOf(cmd[p]) \ (Unlocked \cup {"mark"}) /\ mem[p].phase \in PhasesAt(to)
    BY <1>2, RollbackFact, StepSets
  <1>4. Keep(p, mem[p], to)
    BY <1>1, <1>2 DEF Keep, Goto, IInv, TypeOK
  <1>5. /\ s = "undo_patches" => PatchBefore = "original" /\ plan.patch # "keep"
        /\ s = "undo_runtime" => runtime \in {"open", "bare", "installed", "rolling_back"}
        /\ s = "undo_licensed" => licensed \in {"open", "installed"}
        /\ s = "undo_tool" => record = "created" /\ tool # "absent" /\ tree
    BY <1>1, <1>3, StatusFact, PendingFact
  <1>6. DiskTypes'
    <2>1. helper' \in BOOLEAN
      BY <1>1, <1>3, Zenon DEF IInv, TypeOK
    <2>2. /\ runtime' \in Unfinished \cup {"none", "reserved", "accepted", "rolled_back"}
          /\ patch' \in {"original", "mixed", "patched"} /\ tool' \in {"absent", "own", "adopted"}
          /\ licensed' \in {"none", "reserved", "open", "installed", "rolled_back",
                            "recovery_required"}
      BY <1>1, TypeParts DEF IInv, DiskTypes, Unfinished
    <2> QED BY <1>2, <2>1, <2>2, TypeParts DEF IInv, DiskTypes
  <1>7. /\ PatchBefore' = PatchBefore
        /\ s # "undo_patches" => patch = PatchBefore
        /\ s \in {"undo_licensed", "undo_tool"} =>
              runtime \in {"none", "reserved", "rolled_back", "accepted"}
        /\ s = "undo_tool" => licensed \in {"none", "rolled_back"}
    BY <1>2, <1>3 DEF Knows, After, PatchBefore
  <1>8. Knows(p)'
    <2>1. pc'[p] = to
      BY <1>4, KeepPc
    <2> QED BY <1>1, <1>2, <1>7, <2>1, StepSets DEF Knows, After
  <1>9. Disk'
    <2>1. Disk /\ WellFormed(j)'
      BY <1>2 DEF IInv, Disk, WellFormed
    <2>2. CASE s = "undo_patches"
      BY <1>1, <1>2, <1>3, <1>5, <1>7, <2>1, <2>2 DEF Disk
    <2>3. CASE s = "undo_runtime"
      <3>1. \A q \in Procs : Holds(q)' => pc'[q] \in {"wait", "undo_wait"}
        <4>1. Sole(p)
          BY <1>3, HolderIsSole
        <4>2. \A q \in Procs \ {p} : pc'[q] = pc[q] /\ cmd'[q] = cmd[q]
          BY <1>1, <1>2, <2>3 DEF Goto, IInv, TypeOK
        <4> QED BY <1>4, <2>3, <4>1, <4>2, KeepPc DEF Sole, Holds
      <3>2. runtime' \in {"bare", "rolling_back"} /\ runtime # "none" /\ j.finish
        BY <1>1, <1>5, <2>1, <2>3 DEF Disk
      <3>3. ~(record # "none" /\ tool = "absent")
        BY <1>5, <2>1, <2>3 DEF Disk
      <3> QED BY <1>1, <1>2, <1>5, <1>7, <2>1, <2>3, <3>1, <3>2, <3>3 DEF Disk
    <2>4. CASE s = "undo_licensed"
      BY <1>1, <1>2, <1>3, <1>5, <1>7, <2>1, <2>4 DEF Disk
    <2>5. CASE s = "undo_tool"
      BY <1>1, <1>2, <1>3, <1>5, <1>7, <2>1, <2>5 DEF Disk
    <2> QED BY <1>2, <2>2, <2>3, <2>4, <2>5
  <1> QED BY <1>2, <1>3, <1>4, <1>6, <1>8, <1>9, ChangesInv

\* The installer's rollback has ended.
LEMMA RuntimeUndoneInv ==
    ASSUME IInv, NEW p \in Procs, RuntimeUndone(p)
    PROVE  IInv'
  <1>1. /\ cmd[p] = "rollback" /\ pc[p] = "undo_wait" /\ ~helper /\ UNCHANGED disk
        /\ j' = j /\ files' = files /\ faults' = faults
    BY DEF RuntimeUndone, At, host, managed, disk
  <1>2. /\ mem[p] \in States /\ Holds(p) /\ Knows(p) /\ mem[p].phase = "ROLLING_BACK"
        /\ "undo_runtime" \in PcOf(cmd[p]) \ (Unlocked \cup {"mark"})
        /\ mem[p].phase \in PhasesAt("undo_runtime")
        /\ faults' \in 0..MaxFaults /\ files' \subseteq {"plan", "before"}
    BY <1>1, RollbackFact, AtFact, StepSets
  <1>3. CASE Raise(p)
    BY <1>1, <1>2, <1>3, GivesUpInv DEF GivesUp
  <1>4. CASE Goto(p, "undo_runtime") /\ UNCHANGED <<mem, cmd, lease>>
    <2>1. Keep(p, mem[p], "undo_runtime")
      BY <1>4, AtFact DEF Keep
    <2>2. Knows(p)'
      <3>1. patch' = PatchBefore'
        BY <1>1, <1>2 DEF Knows, After, disk, PatchBefore
      <3> QED BY <2>1, <3>1, KeepPc, StepSets DEF Knows, After
    <2> QED BY <1>1, <1>2, <2>1, <2>2, GoesOnInv
  <1> QED BY <1>3, <1>4 DEF RuntimeUndone

\* An owner in an exact state: what that says of the disk.
LEMMA ExactFact ==
    ASSUME IInv, NEW m \in States, WellFormed(m), m.finish = j.finish
    PROVE  LET exact == {"rolled_back", "not_applicable"}
           IN  /\ PatchStatus(m) \in exact => patch = PatchBefore
               /\ RuntimeStatus(m) \in exact => runtime \in {"none", "reserved", "rolled_back", "accepted"}
               /\ LicensedStatus \in exact => licensed \in {"none", "rolled_back"}
               /\ ToolStatus(m) \in exact => /\ record = "adopted" => tree
                                             /\ record = "created" => tool = "absent"
  <1> DEFINE exact == {"rolled_back", "not_applicable"}
  <1>1. ~m.finish => runtime = "none" /\ patch = PatchBefore
    BY DEF IInv, Disk
  <1>2. PatchStatus(m) \in exact => patch = PatchBefore
    BY <1>1, PatchStatusFact DEF IInv
  <1>3. RuntimeStatus(m) \in exact => runtime \in {"none", "reserved", "rolled_back", "accepted"}
    BY <1>1 DEF RuntimeStatus, ChildFound, IInv, TypeOK
  <1>4. LicensedStatus \in exact => licensed \in {"none", "rolled_back"}
    BY DEF LicensedStatus, IInv, TypeOK
  <1>5. ToolStatus(m) \in exact => /\ record = "adopted" => tree
                                   /\ record = "created" => tool = "absent"
    BY DEF ToolStatus, ToolAsRecorded, IInv, TypeOK
  <1> QED BY <1>2, <1>3, <1>4, <1>5

\* The checkpoint of an owner that is in an exact state.
LEMMA UndoneInv ==
    ASSUME IInv, NEW p \in Procs, Undone(p)
    PROVE  IInv'
  <1> DEFINE Exact(s) == Status(mem[p])[s] \in {"rolled_back", "not_applicable"}
             Later(s) == [mem[p] EXCEPT !.done = @ \cup {s}]
  <1>1. PICK i \in 1..4 :
            /\ At(p, {"rollback"}, UndoSteps[i])
            /\ \/ GivesUp(p) /\ UNCHANGED <<j, faults>>
               \/ /\ Exact(UndoSteps[i])
                  /\ \/ Keep(p, mem[p], UndoSteps[i + 1]) /\ UNCHANGED <<j, faults>>
                     \/ Transition(p, Later(UndoSteps[i]), UndoSteps[i + 1])
            /\ UNCHANGED <<files, record, host, managed>>
    BY DEF Undone, GivesUp
  <1>2. PICK s, to :
            /\ s = UndoSteps[i] /\ to = UndoSteps[i + 1]
            /\ <<s, to>> \in {<<"undo_patches", "undo_runtime">>, <<"undo_runtime", "undo_licensed">>,
                              <<"undo_licensed", "undo_tool">>, <<"undo_tool", "undone">>}
    BY DEF UndoSteps
  <1>3. /\ cmd[p] = "rollback" /\ pc[p] = s /\ UNCHANGED disk /\ files' = files
        /\ s \in {"undo_patches", "undo_runtime", "undo_licensed", "undo_tool"}
        /\ to \in {"undo_runtime", "undo_licensed", "undo_tool", "undone"}
    BY <1>1, <1>2 DEF At, host, managed, disk
  <1>4. /\ mem[p] \in States /\ WellFormed(mem[p]) /\ Holds(p) /\ Knows(p)
        /\ mem[p].phase = "ROLLING_BACK" /\ mem[p].finish = j.finish
        /\ mem[p].finish => record # "none"
        /\ to \in PcOf(cmd[p]) \ (Unlocked \cup {"mark"}) /\ mem[p].phase \in PhasesAt(to)
        /\ files' \subseteq {"plan", "before"} /\ faults \in 0..MaxFaults
    BY <1>3, RollbackFact, StepSets, AtFact
  <1>5. ASSUME Exact(s), pc'[p] = to PROVE Knows(p)'
    <2>1. /\ record' = record /\ plan' = plan /\ tool' = tool /\ tree' = tree
          /\ licensed' = licensed /\ runtime' = runtime /\ patch' = patch
          /\ PatchBefore' = PatchBefore
      BY <1>3 DEF disk, PatchBefore
    <2>2. /\ s = "undo_patches" => patch = PatchBefore
          /\ s = "undo_runtime" => runtime \in {"none", "reserved", "rolled_back", "accepted"}
          /\ s = "undo_licensed" => licensed \in {"none", "rolled_back"}
          /\ s = "undo_tool" => /\ record = "adopted" => tree
                                /\ record = "created" => tool = "absent"
      BY <1>3, <1>4, <1>5, StatusFact, ExactFact
    <2>3. /\ s # "undo_patches" => patch = PatchBefore
          /\ s \in {"undo_licensed", "undo_tool"} => runtime \in {"none", "reserved", "rolled_back", "accepted"}
          /\ s = "undo_tool" => licensed \in {"none", "rolled_back"}
      BY <1>3, <1>4 DEF Knows, After
    <2> QED BY <1>2, <1>5, <2>1, <2>2, <2>3, StepSets DEF Knows, After
  <1>6. CASE GivesUp(p) /\ UNCHANGED <<j, faults>>
    BY <1>3, <1>4, <1>6, GivesUpInv
  <1>7. CASE Exact(s) /\ Keep(p, mem[p], to) /\ UNCHANGED <<j, faults>>
    <2>1. Knows(p)'
      BY <1>5, <1>7, KeepPc
    <2> QED BY <1>3, <1>4, <1>7, <2>1, GoesOnInv
  <1>8. CASE Exact(s) /\ Transition(p, Later(s), to)
    <2> DEFINE next == Later(s)
    <2>1. /\ next \in States /\ next.phase = "ROLLING_BACK" /\ next.done = mem[p].done \cup {s}
          /\ next.tool = mem[p].tool /\ next.finish = mem[p].finish
          /\ next.child = mem[p].child /\ next.backup = mem[p].backup
      <3>1. s \in Boundaries
        BY <1>3 DEF Boundaries
      <3> QED BY <1>4, <3>1 DEF States
    <2>2. Allowed("ROLLING_BACK", "ROLLING_BACK")
      BY DEF Allowed, Live
    <2>3. WellFormed(next) /\ Grows(mem[p], next) /\ next.phase \notin HandedOff
      BY <1>4, <2>1, <2>2 DEF WellFormed, Early, Grows, HandedOff
    <2>4. Transition(p, next, to)
      BY <1>8
    <2> HIDE DEF next
    <2>5. Keep(p, next, to) => Knows(p)'
      BY <1>5, <1>8, KeepPc
    <2> QED BY <1>3, <1>4, <2>1, <2>3, <2>4, <2>5, TransitionInv
  <1> QED BY <1>1, <1>2, <1>6, <1>7, <1>8

-----------------------------------------------------------------------------
(* Failures, and the world outside *)

\* A command that fails or exits, with what its patcher leaves behind.
LEMMA LeavesInv ==
    ASSUME IInv, NEW p \in Procs, GivesUp(p), pc[p] # "idle", Fault, PatcherLeaves(p),
           LicensedLeaves(p), Stop(p) \/ pc[p] # "undo_wait",
           UNCHANGED <<j, files, record, host, helper, tool, runtime>>
    PROVE  IInv'
  <1>1. /\ j' = j /\ files' = files /\ record' = record /\ origin' = origin /\ plan' = plan
        /\ prefix' = prefix /\ helper' = helper /\ tool' = tool /\ runtime' = runtime
    BY DEF host
  <1>2. faults' \in 0..MaxFaults /\ files' \subseteq {"plan", "before"}
    BY <1>1, AtFact, CoordinatorAssumption DEF Fault
  <1>3. CASE ~Applies(p) /\ licensed' = licensed
    <2>1. UNCHANGED disk
      BY <1>1, <1>3 DEF PatcherLeaves, disk
    <2> QED BY <1>1, <1>2, <2>1, GivesUpInv
  <1>5. CASE licensed' # licensed
    <2>1. /\ pc[p] \in {"licensed", "undo_licensed"} /\ licensed \in {"open", "installed"}
          /\ licensed' = "recovery_required"
      BY <1>5 DEF LicensedLeaves
    <2>2. patch' = patch /\ manifest' = manifest /\ tree' = tree
      BY <2>1 DEF PatcherLeaves, Applies, At
    <2>3. Holds(p) /\ ~helper
      <3>1. Holds(p)
        BY <2>1, StepSets DEF Holds, Unlocked
      <3> QED BY <2>1, <3>1 DEF IInv, Disk
    <2>4. ControlTypes' /\ Copies' /\ Others(p) /\ Knows(p)'
      BY <1>1, <1>2, GivesUpKeeps
    <2>5. Established'
      BY <2>3, <2>4, HolderIsSole, OthersKnow DEF Established
    <2>6. DiskTypes'
      BY <1>1, <1>2, <2>1, <2>2, TypeParts DEF IInv, DiskTypes
    <2>7. Disk'
      <3>1. Disk /\ WellFormed(j)' /\ ~helper' /\ PatchBefore' = PatchBefore
        BY <1>1, <2>3 DEF IInv, Disk, WellFormed, PatchBefore
      <3>2. j.finish /\ ~(record # "none" /\ tool = "absent")
        BY <2>1, <3>1 DEF Disk
      <3> QED BY <1>1, <2>1, <2>2, <3>1, <3>2 DEF Disk
    <2> QED BY <2>4, <2>5, <2>6, <2>7, TypeParts, PTL DEF IInv
  <1>4. CASE Applies(p) /\ licensed' = licensed
    <2>1. /\ cmd[p] \in {"finish", "resume"} /\ pc[p] = "patch" /\ plan.patch = "apply"
          /\ patch' \in {"original", "mixed", "patched"}
          /\ manifest' \in {manifest, TRUE} /\ tree' \in {tree, FALSE}
      BY <1>4 DEF PatcherLeaves, Applies, At
    <2>2. Holds(p) /\ tool # "absent" /\ j.finish /\ ~helper
      BY <2>1, InstallFact, StepSets
    <2>3. ControlTypes' /\ Copies' /\ Others(p) /\ Knows(p)'
      BY <1>1, <1>2, <2>1, GivesUpKeeps
    <2>4. Established'
      BY <2>2, <2>3, HolderIsSole, OthersKnow DEF Established
    <2>5. DiskTypes'
      <3>1. manifest' \in BOOLEAN /\ tree' \in BOOLEAN
        BY <2>1, Zenon DEF IInv, TypeOK
      <3> QED BY <1>1, <1>2, <1>4, <2>1, <3>1, TypeParts DEF IInv, DiskTypes
    <2>6. Disk'
      <3>1. Disk /\ WellFormed(j)' /\ ~helper'
        BY <1>1, <2>2 DEF IInv, Disk, WellFormed
      <3>2. tree' => tree
        BY <2>1, Zenon
      <3> QED BY <1>1, <1>4, <2>1, <2>2, <3>1, <3>2 DEF Disk
    <2> QED BY <2>3, <2>4, <2>5, <2>6, TypeParts, PTL DEF IInv
  <1> QED BY <1>3, <1>4, <1>5

\* The process exits.
LEMMA CrashInv ==
    ASSUME IInv, NEW p \in Procs, Crash(p)
    PROVE  IInv'
  BY LeavesInv DEF Crash, GivesUp, LicensedLeaves

\* A step fails.
LEMMA StepFailsInv ==
    ASSUME IInv, NEW p \in Procs, StepFails(p)
    PROVE  IInv'
  <1>1. pc[p] \notin {"idle", "undo_wait"}
    BY DEF StepFails
  <1> QED BY <1>1, LeavesInv DEF StepFails, GivesUp

\* The world outside leaves the processes and the journal; the caller shows what
\* it leaves of the disk.
LEMMA OutsideInv ==
    ASSUME IInv, UNCHANGED <<j, process, files>>, faults' \in 0..MaxFaults, DiskTypes', Disk',
           \A p \in Procs : Knows(p)'
    PROVE  IInv'
  <1>1. j' = j /\ mem' = mem /\ cmd' = cmd /\ pc' = pc /\ lease' = lease
    BY DEF process
  <1>2. ControlTypes'
    BY <1>1, TypeParts DEF IInv, ControlTypes
  <1>3. Copies'
    BY <1>1 DEF IInv, Copies, Copy, WellFormed, Behind, Holds, Owner, Fresh
  <1>4. Established'
    BY DEF Established
  <1> QED BY <1>2, <1>3, <1>4, TypeParts, PTL DEF IInv

\* The installer ends: only the command that waits for it holds the lease.
LEMMA HelperEndsInv ==
    ASSUME IInv, HelperEnds
    PROVE  IInv'
  <1>1. /\ helper /\ helper' = FALSE /\ UNCHANGED <<j, process, files>>
        /\ mem' = mem /\ cmd' = cmd /\ pc' = pc /\ lease' = lease
        /\ j' = j /\ files' = files /\ record' = record /\ origin' = origin /\ plan' = plan
        /\ prefix' = prefix /\ tool' = tool /\ licensed' = licensed /\ patch' = patch
        /\ manifest' = manifest
        /\ runtime' \in Unfinished \cup {"reserved", "rolled_back"}
        /\ tree' \in {tree, FALSE} /\ (runtime' = "installed" => ~tree')
    BY DEF HelperEnds, host, process, Unfinished
  <1>2. faults' \in 0..MaxFaults
    <2>1. faults' = faults \/ Fault
      BY DEF HelperEnds
    <2>2. faults \in 0..MaxFaults
      BY DEF IInv, TypeOK
    <2> QED BY <2>1, <2>2, CoordinatorAssumption DEF Fault
  <1>3. /\ Disk /\ runtime \in {"open", "bare", "rolling_back"}
        /\ \A p \in Procs : Holds(p) => pc[p] \in {"wait", "undo_wait"}
    BY <1>1 DEF IInv, Disk
  <1>4. DiskTypes'
    <2>1. helper' \in BOOLEAN
      BY <1>1, Zenon
    <2>2. tree' \in BOOLEAN
      BY <1>1 DEF IInv, TypeOK
    <2> QED BY <1>1, <2>1, <2>2, TypeParts DEF IInv, DiskTypes
  <1>5. Disk'
    <2>1. WellFormed(j)' /\ ~helper' /\ PatchBefore' = PatchBefore
      BY <1>1, <1>3 DEF Disk, WellFormed, PatchBefore
    <2>2. j.finish /\ (tool # "absent" \/ record = "none")
      BY <1>3 DEF Disk
    <2>3. runtime' # "accepted"
      BY <1>1 DEF Unfinished
    <2> QED BY <1>1, <1>3, <2>1, <2>2, <2>3 DEF Disk
  <1>6. ASSUME NEW p \in Procs PROVE Knows(p)'
    <2>1. Knows(p) /\ (Holds(p) => pc[p] \in {"wait", "undo_wait"})
      BY <1>3 DEF IInv, Established
    <2>2. CASE pc[p] \in {"wait", "undo_wait"}
      <3>1. PatchBefore' = PatchBefore
        BY <1>1 DEF PatchBefore
      <3> QED BY <1>1, <2>1, <2>2, <3>1, StepSets DEF Knows, After
    <2>3. CASE ~Holds(p)
      BY <1>1, <2>3, BlankKnows DEF Holds, Unlocked, Blank
    <2> QED BY <2>1, <2>2, <2>3
  <1> QED BY <1>1, <1>2, <1>4, <1>5, <1>6, OutsideInv

\* Steam creates the prefix.
LEMMA SteamCreatesPrefixInv ==
    ASSUME IInv, SteamCreatesPrefix
    PROVE  IInv'
  <1>1. /\ prefix' = TRUE /\ UNCHANGED <<j, process, files>> /\ UNCHANGED managed
        /\ j' = j /\ mem' = mem /\ cmd' = cmd /\ pc' = pc /\ lease' = lease
        /\ files' = files /\ record' = record /\ origin' = origin /\ plan' = plan
        /\ faults' = faults
    BY DEF SteamCreatesPrefix, process
  <1>2. /\ helper' = helper /\ tool' = tool /\ tree' = tree /\ licensed' = licensed
        /\ runtime' = runtime /\ patch' = patch /\ manifest' = manifest
    BY <1>1 DEF managed
  <1>3. DiskTypes' /\ faults' \in 0..MaxFaults
    <2>1. prefix' \in BOOLEAN
      BY <1>1, Zenon
    <2> QED BY <1>1, <1>2, <2>1, TypeParts DEF IInv, DiskTypes, ControlTypes
  <1>4. Disk'
    BY <1>1, <1>2 DEF IInv, Disk, WellFormed, PatchBefore, Holds
  <1>5. \A p \in Procs : Knows(p)'
    BY <1>1, <1>2 DEF IInv, Established, Knows, PatchBefore
  <1> QED BY <1>1, <1>3, <1>4, <1>5, OutsideInv

\* The user's own runtime command needs the lease: no command holds it.
LEMMA UserRuntimeInv ==
    ASSUME IInv, NEW c \in UserCommands, UserRuntime(c)
    PROVE  IInv'
  <1>1. /\ lease = NoOne /\ ~helper /\ UNCHANGED <<j, process, files>>
        /\ j' = j /\ mem' = mem /\ cmd' = cmd /\ pc' = pc /\ lease' = lease
        /\ files' = files /\ record' = record /\ origin' = origin /\ plan' = plan
        /\ prefix' = prefix /\ helper' = helper /\ tool' = tool /\ tree' = tree
        /\ licensed' = licensed /\ patch' = patch /\ manifest' = manifest
        /\ faults' = faults
        /\ \/ runtime = "installed" /\ runtime' = "accepted"
           \/ /\ runtime \in Unfinished /\ runtime' = "rolled_back"
    BY DEF UserRuntime, LeaseFree, host, process
  <1>2. DiskTypes' /\ faults' \in 0..MaxFaults
    BY <1>1, TypeParts DEF IInv, DiskTypes, ControlTypes
  <1>3. Disk'
    <2>1. Disk /\ WellFormed(j)' /\ ~helper' /\ PatchBefore' = PatchBefore
      BY <1>1 DEF IInv, Disk, WellFormed, PatchBefore
    <2> QED BY <1>1, <2>1 DEF Disk, Unfinished
  <1>4. ASSUME NEW p \in Procs PROVE Knows(p)'
    <2>1. ~Holds(p)
      BY <1>1, CoordinatorAssumption DEF IInv, Copies, Copy
    <2> QED BY <1>1, <2>1, BlankKnows DEF Holds, Unlocked, Blank
  <1> QED BY <1>1, <1>2, <1>3, <1>4, OutsideInv

\* Nothing happens.
LEMMA StutterInv ==
    ASSUME IInv, UNCHANGED vars
    PROVE  IInv'
  <1>1. /\ UNCHANGED <<j, process, files>> /\ UNCHANGED disk /\ faults' = faults
        /\ pc' = pc /\ cmd' = cmd /\ mem' = mem /\ files' = files
    BY DEF vars, process, disk
  <1>2. faults' \in 0..MaxFaults /\ DiskTypes'
    BY <1>1, DiskTypesKept DEF IInv, TypeOK
  <1>3. ~helper \/ \A q \in Procs : Holds(q)' => pc'[q] \in {"wait", "undo_wait"}
    BY <1>1 DEF IInv, Disk, Holds
  <1>4. Disk'
    BY <1>1, <1>3, DiskKept
  <1>5. \A p \in Procs : Knows(p)'
    BY <1>1 DEF IInv, Established, Knows, PatchBefore, disk
  <1> QED BY <1>1, <1>2, <1>4, <1>5, OutsideInv

-----------------------------------------------------------------------------
(* The invariant *)

\* Every step of a command preserves the invariant.
LEMMA StepInv ==
    ASSUME IInv, NEW p \in Procs, Step(p)
    PROVE  IInv'
  BY PreparingInv, WriteFileInv, AcquireInv, BaselineInv, PublishInv, RecordInv, PublishedInv,
     HandoffInv, FinishLockInv, PlannedInv, InstallingInv, InstallThreadingInv,
     LicensedInstalledInv, InstallRuntimeInv, RuntimeReturnsInv, RuntimeInstalledInv,
     RuntimeStatusVerifiedInv, ApplyPatchesInv, InspectPatchesInv, PatchesRecordedInv,
     VerifyInv, ReadyInv, ResumeLockInv, ResumeReturnsInv, LoadLatestInv, MarkInv,
     PreflightInv, UndoInv, RuntimeUndoneInv, UndoneInv, RolledBackInv DEF Step

\* Every step preserves the invariant.
LEMMA NextInv ==
    ASSUME IInv, [Next]_vars
    PROVE  IInv'
  <1>1. ASSUME NEW p \in Procs,
               \/ PrepareBegin(p) \/ FinishBegin(p) \/ ResumeBegin(p) \/ RollbackBegin(p)
               \/ Step(p) \/ Crash(p) \/ StepFails(p)
        PROVE  IInv'
    BY <1>1, PrepareBeginInv, FinishBeginInv, ResumeBeginInv, RollbackBeginInv, StepInv,
       CrashInv, StepFailsInv
  <1> QED BY <1>1, HelperEndsInv, SteamCreatesPrefixInv, UserRuntimeInv, StutterInv DEF Next

\* Whatever commands run at once, exit or fail: every process stands where the copy it
\* holds allows, only the holder of the lease relies on the disk, and the disk shows
\* nothing that the durable record does not name (coordinator.py, state.py).
THEOREM Inductive == Spec => []IInv
  BY InitInv, NextInv, PTL DEF Spec

\* The record covers the disk: nothing of Finish exists before the record names its
\* plan, and a handed off tool is there under the disposition the record gives it.
THEOREM RecordCovers == Spec => []RecordCoversDisk
  <1>1. IInv => RecordCoversDisk
    BY DEF IInv, Disk, RecordCoversDisk, HandedOff
  <1> QED BY <1>1, Inductive, PTL

-----------------------------------------------------------------------------
(* The durable record *)

\* A new record that extends the old one and is not a final one.
Writes == Grows(j, j') /\ j'.phase \notin {"READY_TO_ATTEMPT", "ROLLED_BACK"}

\* A transition writes its next record over the one the process holds.
LEMMA TransitionWrites ==
    ASSUME TypeOK, NEW p \in Procs, NEW next, NEW to, Transition(p, next, to),
           next.done = mem[p].done \/ mem[p].done \subseteq next.done,
           next.tool = mem[p].tool, mem[p].finish => next.finish,
           mem[p].child => next.child, mem[p].backup => next.backup,
           next.phase \notin {"READY_TO_ATTEMPT", "ROLLED_BACK"}
    PROVE  j' = j \/ Writes
  BY TransitionFact DEF Writes, Grows

\* So does a checkpoint, in the phase of the copy.
LEMMA CheckpointWrites ==
    ASSUME TypeOK, NEW p \in Procs, NEW next \in States, NEW b \in Boundaries, NEW to,
           Checkpoint(p, b, next, to), next.phase = mem[p].phase, next.done = mem[p].done,
           next.tool = mem[p].tool, mem[p].finish => next.finish,
           mem[p].child => next.child, mem[p].backup => next.backup,
           next.phase \notin {"READY_TO_ATTEMPT", "ROLLED_BACK"}
    PROVE  j' = j \/ Writes
  <1> DEFINE n == [next EXCEPT !.done = @ \cup {b}]
  <1>1. j' = j \/ Transition(p, n, to)
    BY DEF Checkpoint
  <1>2. /\ n.phase = next.phase /\ n.done = next.done \cup {b} /\ n.tool = next.tool
        /\ n.finish = next.finish /\ n.child = next.child /\ n.backup = next.backup
    BY DEF States
  <1> HIDE DEF n
  <1> QED BY <1>1, <1>2, TransitionWrites

\* The steps of Prepare extend the record.
LEMMA PrepareWrites ==
    ASSUME IInv, NEW p \in Procs, Preparing(p) \/ Acquire(p) \/ Published(p) \/ Handoff(p)
    PROVE  j' = j \/ Writes
  <1>1. mem[p] \in States /\ TypeOK /\ WellFormed(mem[p]) /\ record \in {"none", "created", "adopted"}
    BY AtFact DEF IInv, TypeOK
  <1>2. CASE Preparing(p)
    <2> DEFINE next == [mem[p] EXCEPT !.phase = "PREPARING"]
    <2>1. Transition(p, next, "plan")
      BY <1>2 DEF Preparing
    <2>2. /\ next.phase = "PREPARING" /\ next.done = mem[p].done /\ next.tool = mem[p].tool
          /\ next.finish = mem[p].finish /\ next.child = mem[p].child
          /\ next.backup = mem[p].backup
      BY <1>1 DEF States
    <2> HIDE DEF next
    <2> QED BY <1>1, <2>1, <2>2, TransitionWrites
  <1>3. CASE Acquire(p) \/ Published(p)
    <2>1. mem[p].phase = "PREPARING"
      BY <1>3, AtFact, Tables, StepSets DEF Acquire, Published, At
    <2>2. PICK b \in Boundaries, to \in {"publish", "handoff"} :
              Checkpoint(p, b, mem[p], to)
      BY <1>3 DEF Acquire, Published, Boundaries
    <2> QED BY <1>1, <2>1, <2>2, CheckpointWrites
  <1>4. CASE Handoff(p)
    <2> DEFINE next == [mem[p] EXCEPT !.phase = "AWAITING_STEAM_PREFIX", !.tool = record]
    <2>1. /\ mem[p].phase = "PREPARING"
          /\ j' = j \/ (j = mem[p] /\ Allowed(mem[p].phase, next.phase) /\ j' = next)
      BY <1>4, AtFact, Tables, StepSets DEF Handoff, At, Last, Swap, Matches
    <2>2. /\ next.phase = "AWAITING_STEAM_PREFIX" /\ next.done = mem[p].done
          /\ next.finish = mem[p].finish /\ next.child = mem[p].child
          /\ next.backup = mem[p].backup
      BY <1>1 DEF States
    <2>3. mem[p].tool = "none"
      BY <1>1, <2>1 DEF WellFormed, Early
    <2> HIDE DEF next
    <2> QED BY <2>1, <2>2, <2>3 DEF Writes, Grows
  <1> QED BY <1>2, <1>3, <1>4

\* The steps of Finish and of its recovery, but for the last, extend the record.
LEMMA FinishWrites ==
    ASSUME IInv, NEW p \in Procs,
           \/ Planned(p) \/ Installing(p) \/ LicensedInstalled(p) \/ RuntimeInstalled(p)
           \/ RuntimeStatusVerified(p) \/ PatchesRecorded(p) \/ Verify(p)
    PROVE  j' = j \/ Writes
  <1>1. mem[p] \in States /\ TypeOK
    BY AtFact DEF IInv
  <1>2. CASE Planned(p)
    <2> DEFINE next == [mem[p] EXCEPT !.phase = "PLANNED_FINISH", !.finish = TRUE]
    <2>1. Transition(p, next, "installing")
      BY <1>2 DEF Planned
    <2>2. /\ next.phase = "PLANNED_FINISH" /\ next.done = mem[p].done /\ next.tool = mem[p].tool
          /\ next.finish /\ next.child = mem[p].child /\ next.backup = mem[p].backup
      BY <1>1 DEF States
    <2> HIDE DEF next
    <2> QED BY <1>1, <2>1, <2>2, TransitionWrites
  <1>3. CASE Installing(p)
    <2> DEFINE next == [mem[p] EXCEPT !.phase = "INSTALLING_FINISH"]
    <2>1. Transition(p, next, "licensed")
      BY <1>3 DEF Installing
    <2>2. /\ next.phase = "INSTALLING_FINISH" /\ next.done = mem[p].done
          /\ next.tool = mem[p].tool /\ next.finish = mem[p].finish
          /\ next.child = mem[p].child /\ next.backup = mem[p].backup
      BY <1>1 DEF States
    <2> HIDE DEF next
    <2> QED BY <1>1, <2>1, <2>2, TransitionWrites
  <1>4. CASE LicensedInstalled(p) \/ RuntimeInstalled(p) \/ RuntimeStatusVerified(p)
             \/ PatchesRecorded(p) \/ Verify(p)
    <2> DEFINE child == [mem[p] EXCEPT !.child = @ \/ plan.runtime = "install"]
               backup == [mem[p] EXCEPT !.backup = TRUE]
    <2>1. mem[p].phase = "INSTALLING_FINISH"
      <3>1. cmd[p] \in {"finish", "resume"} /\ pc[p] \in Working \ {"installing"}
        BY <1>4, StepSets DEF LicensedInstalled, RuntimeInstalled, RuntimeStatusVerified,
                              PatchesRecorded, Verify, At
      <3> QED BY <3>1, InstallFact
    <2>2. ASSUME NEW next \in {mem[p], child, backup}, NEW b \in Boundaries, NEW to,
                 Checkpoint(p, b, next, to)
          PROVE  j' = j \/ Writes
      <3>1. /\ next \in States /\ next.phase = mem[p].phase /\ next.done = mem[p].done
            /\ next.tool = mem[p].tool /\ next.finish = mem[p].finish
            /\ mem[p].child => next.child
            /\ mem[p].backup => next.backup
        BY <1>1, <2>2 DEF States
      <3> QED BY <1>1, <2>1, <2>2, <3>1, CheckpointWrites
    <2>3. \/ j' = j
          \/ Checkpoint(p, "licensed", mem[p], "runtime") \/ Checkpoint(p, "runtime", child, "status")
          \/ Checkpoint(p, "status", mem[p], "patch") \/ Checkpoint(p, "verified", mem[p], "verify")
          \/ Checkpoint(p, "applied", backup, "verify") \/ Checkpoint(p, "checked", mem[p], "ready")
      BY <1>4 DEF LicensedInstalled, RuntimeInstalled, RuntimeStatusVerified, PatchesRecorded,
                  Verify
    <2>4. {"licensed", "runtime", "status", "verified", "applied", "checked"} \subseteq Boundaries
      BY DEF Boundaries
    <2> HIDE DEF child, backup
    <2> QED BY <2>2, <2>3, <2>4
  <1> QED BY <1>2, <1>3, <1>4

\* The steps of a rollback, but for the last, and the mark extend the record.
LEMMA RollbackWrites ==
    ASSUME IInv, NEW p \in Procs, Mark(p) \/ Preflight(p) \/ Undone(p)
    PROVE  j' = j \/ Writes
  <1>1. mem[p] \in States /\ WellFormed(mem[p]) /\ TypeOK
    BY AtFact DEF IInv
  <1>2. CASE Mark(p) \/ Preflight(p)
    <2>1. PICK phase \in {"RECOVERY_REQUIRED", "ROLLING_BACK"} :
              LET next == [mem[p] EXCEPT !.phase = phase]
              IN  j' = j \/ (j = mem[p] /\ Allowed(mem[p].phase, next.phase) /\ j' = next)
      BY <1>2 DEF Mark, Preflight, Swap, Matches
    <2> DEFINE next == [mem[p] EXCEPT !.phase = phase]
    <2>2. next.phase = phase
      BY <1>1 DEF States
    <2>3. Allowed(mem[p].phase, phase) => Grows(mem[p], next)
      BY <1>1, WithdrawFact DEF Withdrawn
    <2> QED BY <2>1, <2>2, <2>3 DEF Writes
  <1>3. CASE Undone(p)
    <2>1. PICK i \in 1..4 :
              /\ At(p, {"rollback"}, UndoSteps[i])
              /\ j' = j \/ Transition(p, [mem[p] EXCEPT !.done = @ \cup {UndoSteps[i]}],
                                      UndoSteps[i + 1])
      BY <1>3 DEF Undone
    <2> DEFINE next == [mem[p] EXCEPT !.done = @ \cup {UndoSteps[i]}]
    <2>2. mem[p].phase = "ROLLING_BACK"
      <3>1. cmd[p] = "rollback" /\ pc[p] \notin {"preflight", "mark"}
        BY <2>1 DEF At, UndoSteps
      <3> QED BY <3>1, RollbackFact
    <2>3. /\ next.phase = mem[p].phase /\ mem[p].done \subseteq next.done
          /\ next.tool = mem[p].tool /\ next.finish = mem[p].finish
          /\ next.child = mem[p].child /\ next.backup = mem[p].backup
      BY <1>1 DEF States
    <2>4. j' = j \/ Transition(p, next, UndoSteps[i + 1])
      BY <2>1
    <2> HIDE DEF next
    <2> QED BY <1>1, <2>2, <2>3, <2>4, TransitionWrites
  <1> QED BY <1>2, <1>3

\* READY_TO_ATTEMPT and ROLLED_BACK are written over the copy that the process holds.
LEMMA FinalWrites ==
    ASSUME IInv, NEW p \in Procs
    PROVE  /\ Ready(p) => \/ j' = j
                          \/ j = mem[p] /\ Grows(j, j') /\ j'.phase = "READY_TO_ATTEMPT"
           /\ RolledBack(p) => \/ j' = j
                               \/ j = mem[p] /\ Grows(j, j') /\ j'.phase = "ROLLED_BACK"
  <1>1. mem[p] \in States /\ WellFormed(mem[p])
    BY AtFact
  <1>2. ASSUME Ready(p)
        PROVE  j' = j \/ (j = mem[p] /\ Grows(j, j') /\ j'.phase = "READY_TO_ATTEMPT")
    <2> DEFINE next == [mem[p] EXCEPT !.phase = "READY_TO_ATTEMPT"]
    <2>1. j' = j \/ (j = mem[p] /\ Allowed(mem[p].phase, next.phase) /\ j' = next)
      BY <1>2 DEF Ready, Last, Swap, Matches
    <2>2. /\ next.phase = "READY_TO_ATTEMPT" /\ next.done = mem[p].done
          /\ next.tool = mem[p].tool /\ next.finish = mem[p].finish
          /\ next.child = mem[p].child /\ next.backup = mem[p].backup
      BY <1>1 DEF States
    <2> HIDE DEF next
    <2> QED BY <2>1, <2>2 DEF Grows
  <1>3. ASSUME RolledBack(p)
        PROVE  j' = j \/ (j = mem[p] /\ Grows(j, j') /\ j'.phase = "ROLLED_BACK")
    <2> DEFINE next == [mem[p] EXCEPT !.phase = "ROLLED_BACK"]
    <2>1. j' = j \/ (j = mem[p] /\ Allowed(mem[p].phase, next.phase) /\ j' = next)
      BY <1>3 DEF RolledBack, Swap, Matches
    <2>2. /\ next.phase = "ROLLED_BACK" /\ next.done = mem[p].done
          /\ next.tool = mem[p].tool /\ next.finish = mem[p].finish
          /\ next.child = mem[p].child /\ next.backup = mem[p].backup
      BY <1>1 DEF States
    <2> HIDE DEF next
    <2> QED BY <2>1, <2>2 DEF Grows
  <1> QED BY <1>2, <1>3

\* Who writes the record, and what.
LEMMA NextWrites ==
    ASSUME IInv, [Next]_vars
    PROVE  \/ j' = j \/ Writes
           \/ \E p \in Procs : Ready(p) \/ RolledBack(p)
  <1>1. ASSUME NEW p \in Procs, PrepareBegin(p) PROVE Writes
    <2> DEFINE state == [NoState EXCEPT !.phase = "NEW"]
    <2>1. j' = state
      BY <1>1 DEF PrepareBegin, Begin, IInv, TypeOK
    <2>2. j = NoState
      BY <1>1 DEF PrepareBegin, IInv, Disk, WellFormed
    <2>3. /\ state.phase = "NEW" /\ state.done = {} /\ state.tool = "none"
          /\ ~state.finish /\ ~state.child /\ ~state.backup
          /\ NoState.phase = "NONE" /\ NoState.done = {} /\ NoState.tool = "none"
          /\ ~NoState.finish /\ ~NoState.child /\ ~NoState.backup
      BY DEF NoState
    <2> HIDE DEF state
    <2> QED BY <2>1, <2>2, <2>3 DEF Writes, Grows
  <1>2. ASSUME NEW p \in Procs, Step(p)
        PROVE  j' = j \/ Writes \/ Ready(p) \/ RolledBack(p)
    <2>1. CASE \/ WriteFile(p) \/ Baseline(p) \/ Publish(p) \/ Record(p) \/ FinishLock(p)
               \/ InstallThreading(p) \/ InstallRuntime(p) \/ RuntimeReturns(p)
               \/ ApplyPatches(p) \/ InspectPatches(p) \/ ResumeLock(p) \/ ResumeReturns(p)
               \/ LoadLatest(p) \/ RuntimeUndone(p)
      BY <2>1 DEF WriteFile, Baseline, Publish, Record, FinishLock, InstallThreading,
                  InstallRuntime, RuntimeReturns, ApplyPatches, InspectPatches, ResumeLock,
                  ResumeReturns, LoadLatest, RuntimeUndone
    <2>2. CASE Undo(p)
      BY <2>2 DEF Undo
    <2> QED BY <1>2, <2>1, <2>2, PrepareWrites, FinishWrites, RollbackWrites DEF Step
  <1>3. ASSUME NEW p \in Procs,
               FinishBegin(p) \/ ResumeBegin(p) \/ RollbackBegin(p) \/ Crash(p) \/ StepFails(p)
        PROVE  j' = j
    BY <1>3 DEF FinishBegin, ResumeBegin, RollbackBegin, Crash, StepFails
  <1>4. ASSUME \/ HelperEnds \/ SteamCreatesPrefix \/ UNCHANGED vars
               \/ \E c \in UserCommands : UserRuntime(c)
        PROVE  j' = j
    BY <1>4 DEF HelperEnds, SteamCreatesPrefix, UserRuntime, vars
  <1> QED BY <1>1, <1>2, <1>3, <1>4 DEF Next

\* Whatever stale copies the processes hold, the durable record moves along the
\* transition table and forgets nothing: the compare and swap of transition_locked.
THEOREM RecordGrows == Spec => RecordOnlyGrows
  <1>1. ASSUME IInv, [Next]_vars, j' # j
        PROVE  /\ j.phase = "NONE" \/ Allowed(j.phase, j'.phase)
               /\ j.done \subseteq j'.done
               /\ j.tool # "none" => j'.tool = j.tool
               /\ (j.finish => j'.finish) /\ (j.child => j'.child) /\ (j.backup => j'.backup)
    BY <1>1, NextWrites, FinalWrites DEF Writes, Grows
  <1> QED BY <1>1, Inductive, PTL DEF Spec, RecordOnlyGrows

-----------------------------------------------------------------------------
(* The final phases *)

\* What is installed when READY_TO_ATTEMPT is written.
LEMMA ReadyIsTrue ==
    ASSUME IInv, NEW p \in Procs, Ready(p), j = mem[p]
    PROVE  /\ plan.licensed = "copy" => licensed = "installed"
           /\ plan.runtime = "install" => runtime = "installed" /\ j.child
           /\ patch = "patched" /\ (plan.patch = "apply" => j.backup)
           /\ prefix /\ tool # "absent"
  <1>1. pc[p] = "ready" /\ Knows(p)
    BY AtFact DEF Ready, At
  <1> QED BY <1>1, StepSets DEF Knows

\* What is left when ROLLED_BACK is written.
LEMMA RolledBackIsTrue ==
    ASSUME IInv, NEW p \in Procs, RolledBack(p), j = mem[p]
    PROVE  /\ licensed \in {"none", "rolled_back"}
           /\ runtime \in {"none", "reserved", "rolled_back"} /\ patch = PatchBefore
           /\ tool = origin \/ (tool = "own" /\ record = "none")
  <1>1. pc[p] = "undone" /\ Knows(p) /\ Disk
    BY AtFact DEF RolledBack, At, IInv
  <1>2. /\ licensed \in {"none", "rolled_back"} /\ patch = PatchBefore
        /\ runtime \in {"none", "reserved", "rolled_back", "accepted"}
        /\ record = "adopted" => tree
        /\ record = "created" => tool = "absent"
    BY <1>1 DEF Knows, After
  <1>3. /\ origin \in {"absent", "adopted"} /\ record \in {"none", "created", "adopted"}
        /\ tool \in {"absent", "own", "adopted"}
    BY CoordinatorAssumption DEF IInv, TypeOK
  <1>4. runtime # "accepted"
    BY <1>1, <1>2, <1>3 DEF Disk
  <1>5. tool = origin \/ (tool = "own" /\ record = "none")
    BY <1>1, <1>2, <1>3 DEF Disk
  <1> QED BY <1>2, <1>4, <1>5

\* The final phases are true when they are written, whichever command writes them
\* and whatever was interrupted before.
THEOREM FinalPhases == Spec => FinalPhasesAreTrue
  <1>1. ASSUME IInv, [Next]_vars
        PROVE  /\ Becomes("READY_TO_ATTEMPT") =>
                     /\ plan.licensed = "copy" => licensed = "installed"
                     /\ plan.runtime = "install" => runtime = "installed" /\ j.child
                     /\ patch = "patched" /\ (plan.patch = "apply" => j.backup)
                     /\ prefix /\ tool # "absent"
               /\ Becomes("ROLLED_BACK") =>
                     /\ licensed \in {"none", "rolled_back"}
                     /\ runtime \in {"none", "reserved", "rolled_back"} /\ patch = PatchBefore
                     /\ tool = origin \/ (tool = "own" /\ record = "none")
    <2>1. CASE j' = j \/ Writes
      BY <2>1 DEF Becomes, Writes
    <2>2. ASSUME NEW p \in Procs, Ready(p), j' # j
          PROVE  /\ j'.phase = "READY_TO_ATTEMPT"
                 /\ plan.licensed = "copy" => licensed = "installed"
                 /\ plan.runtime = "install" => runtime = "installed" /\ j.child
                 /\ patch = "patched" /\ (plan.patch = "apply" => j.backup)
                 /\ prefix /\ tool # "absent"
      BY <1>1, <2>2, FinalWrites, ReadyIsTrue
    <2>3. ASSUME NEW p \in Procs, RolledBack(p), j' # j
          PROVE  /\ j'.phase = "ROLLED_BACK"
                 /\ licensed \in {"none", "rolled_back"}
                 /\ runtime \in {"none", "reserved", "rolled_back"} /\ patch = PatchBefore
                 /\ tool = origin \/ (tool = "own" /\ record = "none")
      BY <1>1, <2>3, FinalWrites, RolledBackIsTrue
    <2> QED BY <1>1, <2>1, <2>2, <2>3, NextWrites DEF Becomes
  <1> QED BY <1>1, Inductive, PTL DEF Spec, FinalPhasesAreTrue

-----------------------------------------------------------------------------
(* What changes on disk *)

owned == <<tool, licensed, runtime, patch>>

\* Who changes the tool, the copy, the runtime or the patches.
LEMMA OwnedChanges ==
    ASSUME IInv, [Next]_vars, owned' # owned
    PROVE  \/ \E p \in Procs :
                 \/ Publish(p) \/ InstallThreading(p) \/ InstallRuntime(p) \/ ApplyPatches(p)
                 \/ Undo(p)
                 \/ (Crash(p) \/ StepFails(p)) /\ (Applies(p) \/ licensed' # licensed)
           \/ HelperEnds
           \/ \E c \in UserCommands : UserRuntime(c)
  <1>1. ASSUME NEW p \in Procs,
               \/ PrepareBegin(p) \/ FinishBegin(p) \/ ResumeBegin(p) \/ RollbackBegin(p)
               \/ Preparing(p) \/ WriteFile(p) \/ Acquire(p) \/ Baseline(p) \/ Record(p)
               \/ Published(p) \/ Handoff(p) \/ FinishLock(p) \/ Planned(p) \/ Installing(p)
        PROVE  owned' = owned
    BY <1>1 DEF PrepareBegin, FinishBegin, ResumeBegin, RollbackBegin, Preparing, WriteFile,
                Acquire, Baseline, Record, Published, Handoff, FinishLock, Planned, Installing,
                managed, owned
  <1>2. ASSUME NEW p \in Procs,
               \/ LicensedInstalled(p) \/ RuntimeReturns(p) \/ RuntimeInstalled(p)
               \/ RuntimeStatusVerified(p) \/ InspectPatches(p) \/ PatchesRecorded(p)
               \/ Verify(p) \/ Ready(p) \/ ResumeLock(p) \/ ResumeReturns(p) \/ LoadLatest(p)
               \/ Mark(p) \/ Preflight(p) \/ RuntimeUndone(p) \/ RolledBack(p)
        PROVE  owned' = owned
    BY <1>2 DEF LicensedInstalled, RuntimeReturns, RuntimeInstalled, RuntimeStatusVerified,
                InspectPatches, PatchesRecorded, Verify, Ready, ResumeLock, ResumeReturns,
                LoadLatest, Mark, Preflight, RuntimeUndone, RolledBack, managed, owned
  <1>3. ASSUME NEW p \in Procs, Undone(p) PROVE owned' = owned
    BY <1>3 DEF Undone, managed, owned
  <1>4. ASSUME NEW p \in Procs, Crash(p) \/ StepFails(p), ~Applies(p), licensed' = licensed
        PROVE  owned' = owned
    BY <1>4 DEF Crash, StepFails, PatcherLeaves, owned
  <1>5. SteamCreatesPrefix \/ UNCHANGED vars => owned' = owned
    BY DEF SteamCreatesPrefix, managed, vars, owned
  <1> QED BY <1>1, <1>2, <1>3, <1>4, <1>5 DEF Next, Step

\* A rollback removes a tool that this transaction made, that nobody changed since,
\* and for which nothing is installed any more.
LEMMA UndoRemoves ==
    ASSUME IInv, NEW p \in Procs, Undo(p), tool' # tool
    PROVE  /\ origin = "absent" /\ tree
           /\ licensed \in {"none", "rolled_back"}
           /\ runtime \in {"none", "reserved", "rolled_back"} /\ patch = PatchBefore
  <1>1. /\ cmd[p] = "rollback" /\ pc[p] = "undo_tool"
        /\ Status(mem[p])["undo_tool"] = "pending"
    BY DEF Undo, At
  <1>2. mem[p] \in States /\ WellFormed(mem[p]) /\ Knows(p)
    BY <1>1, RollbackFact
  <1>3. record = "created" /\ tool # "absent" /\ tree
    BY <1>1, <1>2, StatusFact, PendingFact
  <1>4. /\ licensed \in {"none", "rolled_back"} /\ patch = PatchBefore
        /\ runtime \in {"none", "reserved", "rolled_back", "accepted"}
    BY <1>1, <1>2 DEF Knows, After
  <1>5. origin = "absent" /\ runtime # "accepted"
    BY <1>3, CoordinatorAssumption DEF IInv, TypeOK, Disk
  <1> QED BY <1>3, <1>4, <1>5

\* The tool goes last: rollback removes it in reverse order, under the lease, and
\* nothing else removes it.
THEOREM ToolGoesLast == Spec => ToolRemovedLast
  <1>1. ASSUME IInv, [Next]_vars, tool # "absent", tool' = "absent"
        PROVE  /\ origin = "absent" /\ tree
               /\ licensed \in {"none", "rolled_back"}
               /\ runtime \in {"none", "reserved", "rolled_back"} /\ patch = PatchBefore
    <2>1. owned' # owned
      BY <1>1 DEF owned
    <2>2. ASSUME NEW p \in Procs PROVE ~Publish(p)
      BY <1>1 DEF Publish
    <2>3. ASSUME NEW p \in Procs
          PROVE  /\ ~InstallThreading(p) /\ ~InstallRuntime(p) /\ ~ApplyPatches(p)
                 /\ ~Crash(p) /\ ~StepFails(p)
      BY <1>1 DEF InstallThreading, InstallRuntime, ApplyPatches, Crash, StepFails
    <2>4. ~HelperEnds /\ ~\E c \in UserCommands : UserRuntime(c)
      BY <1>1 DEF HelperEnds, UserRuntime
    <2>5. PICK p \in Procs : Undo(p)
      BY <1>1, <2>1, <2>2, <2>3, <2>4, OwnedChanges
    <2> QED BY <1>1, <2>5, UndoRemoves
  <1> QED BY <1>1, Inductive, PTL DEF Spec, ToolRemovedLast

-----------------------------------------------------------------------------
(* The lease, the other way round: whoever has it is at a step that holds it *)

Held == \A p \in Procs : lease = p => Holds(p)

\* A step of p takes the lease for p alone, and only to a step that holds it.
Moves(p) ==
    /\ \A q \in Procs \ {p} : /\ pc'[q] = pc[q] /\ cmd'[q] = cmd[q]
                              /\ lease' = q => lease = q
    /\ lease' = p => Holds(p)'

\* Such a step keeps the lease with its holder.
LEMMA MovesHeld ==
    ASSUME Held, NEW p \in Procs, Moves(p)
    PROVE  Held'
  BY DEF Held, Moves, Holds

\* A command that ends gives up the lease; a rollback that fails keeps it for the mark.
LEMMA GivesUpMoves ==
    ASSUME IInv, NEW p \in Procs, GivesUp(p), cmd[p] \in Commands
    PROVE  Moves(p)
  <1>1. ControlTypes
    BY TypeParts DEF IInv
  <1>2. CASE Stop(p)
    BY <1>1, <1>2, CoordinatorAssumption DEF Stop, Goto, Release, ControlTypes, Moves
  <1>3. CASE Raise(p) /\ cmd[p] \in {"prepare", "finish"}
    BY <1>2, <1>3 DEF Raise
  <1>4. CASE Raise(p) /\ cmd[p] = "resume"
    BY <1>1, <1>4, CoordinatorAssumption DEF Raise, Goto, Release, ControlTypes, Moves
  <1>5. CASE Raise(p) /\ cmd[p] = "rollback"
    <2>1. Goto(p, "mark") /\ cmd' = cmd /\ lease' = lease
      BY <1>5 DEF Raise
    <2> QED BY <1>1, <1>5, <2>1 DEF Goto, ControlTypes, Moves, Holds, Unlocked
  <1> QED BY <1>2, <1>3, <1>4, <1>5 DEF GivesUp, Commands

\* A command that goes on under the lease.
LEMMA GotoMoves ==
    ASSUME IInv, NEW p \in Procs, NEW to, Goto(p, to), cmd' = cmd, lease' \in {lease, p},
           to \notin Unlocked \cup {"mark"}
    PROVE  Moves(p)
  BY CoordinatorAssumption DEF IInv, TypeOK, Goto, Moves, Holds

\* A transition, a checkpoint and the last transition of a command.
LEMMA SwapMoves ==
    ASSUME IInv, NEW p \in Procs, NEW next, NEW to, NEW b, cmd[p] \in Commands,
           to \notin Unlocked \cup {"mark"},
           Transition(p, next, to) \/ Checkpoint(p, b, next, to) \/ Last(p, next)
    PROVE  Moves(p)
  <1>1. ASSUME NEW n, Keep(p, n, to) PROVE Moves(p)
    BY <1>1, GotoMoves DEF Keep
  <1>2. ASSUME NEW n, Transition(p, n, to) PROVE Moves(p)
    BY <1>1, <1>2, TransitionFact, GivesUpMoves DEF IInv
  <1>3. CASE Checkpoint(p, b, next, to)
    BY <1>1, <1>2, <1>3 DEF Checkpoint
  <1>4. CASE Last(p, next)
    <2>1. CASE GivesUp(p)
      BY <2>1, GivesUpMoves
    <2>2. CASE Goto(p, "returned") /\ Release(p) /\ cmd' = cmd
      BY <2>2, CoordinatorAssumption DEF IInv, TypeOK, Goto, Release, Moves
    <2> QED BY <1>4, <2>1, <2>2 DEF Last, Swap, GivesUp
  <1> QED BY <1>2, <1>3, <1>4

\* A process under way runs a command.
LEMMA UnderWay ==
    ASSUME IInv, NEW p \in Procs, pc[p] # "idle"
    PROVE  cmd[p] \in Commands
  BY AtFact, Tables

\* The steps of Prepare keep the lease where it is, or give it up.
LEMMA PrepareMoves ==
    ASSUME IInv, NEW p \in Procs,
           \/ Preparing(p) \/ WriteFile(p) \/ Acquire(p) \/ Baseline(p) \/ Publish(p)
           \/ Record(p) \/ Published(p) \/ Handoff(p)
    PROVE  Moves(p)
  <1>1. cmd[p] \in Commands
    BY DEF Preparing, WriteFile, Acquire, Baseline, Publish, Record, Published, Handoff, At,
           Commands
  <1>2. {"plan", "before", "acquire", "publish", "record", "published", "handoff"}
            \cap (Unlocked \cup {"mark"}) = {}
    BY DEF Unlocked
  <1>3. CASE Preparing(p)
    BY <1>1, <1>2, <1>3, SwapMoves DEF Preparing
  <1>4. CASE Acquire(p) \/ Published(p)
    BY <1>1, <1>2, <1>4, SwapMoves DEF Acquire, Published
  <1>5. CASE Handoff(p)
    BY <1>1, <1>2, <1>5, SwapMoves DEF Handoff
  <1>6. CASE WriteFile(p) \/ Record(p)
    <2>1. PICK to \in {"before", "acquire", "published", "handoff"} :
              Goto(p, to) /\ cmd' = cmd /\ lease' = lease
      BY <1>6 DEF WriteFile, Record
    <2> QED BY <1>2, <2>1, GotoMoves
  <1>7. CASE Baseline(p) \/ Publish(p)
    <2>1. \/ GivesUp(p)
          \/ \E to \in {"publish", "record", "handoff"} :
                Goto(p, to) /\ cmd' = cmd /\ lease' = lease
      BY <1>7 DEF Baseline, Publish, GivesUp
    <2> QED BY <1>1, <1>2, <2>1, GotoMoves, GivesUpMoves
  <1> QED BY <1>3, <1>4, <1>5, <1>6, <1>7

\* So do the steps of Finish and of its recovery, once they have it.
LEMMA FinishMoves ==
    ASSUME IInv, Held, NEW p \in Procs,
           \/ FinishLock(p) \/ Planned(p) \/ Installing(p) \/ InstallThreading(p)
           \/ LicensedInstalled(p) \/ InstallRuntime(p) \/ RuntimeReturns(p)
           \/ RuntimeInstalled(p) \/ RuntimeStatusVerified(p) \/ ApplyPatches(p)
           \/ InspectPatches(p) \/ PatchesRecorded(p) \/ Verify(p) \/ Ready(p)
    PROVE  Moves(p)
  <1>1. cmd[p] \in Commands
    BY DEF FinishLock, Planned, Installing, InstallThreading, LicensedInstalled, InstallRuntime,
           RuntimeReturns, RuntimeInstalled, RuntimeStatusVerified, ApplyPatches, Applies,
           InspectPatches, PatchesRecorded, Verify, Ready, At, Commands
  <1>2. {"planned", "installing", "licensed", "runtime", "wait", "child", "status", "patch",
         "patched", "verify", "ready"} \cap (Unlocked \cup {"mark"}) = {}
    BY DEF Unlocked
  <1>3. CASE Planned(p) \/ Installing(p) \/ Ready(p)
    BY <1>1, <1>2, <1>3, SwapMoves DEF Planned, Installing, Ready
  <1>4. CASE LicensedInstalled(p) \/ RuntimeInstalled(p) \/ RuntimeStatusVerified(p)
             \/ PatchesRecorded(p) \/ Verify(p)
    <2>1. \/ GivesUp(p)
          \/ Checkpoint(p, "licensed", mem[p], "runtime")
          \/ Checkpoint(p, "runtime", [mem[p] EXCEPT !.child = @ \/ plan.runtime = "install"],
                        "status")
          \/ Checkpoint(p, "status", mem[p], "patch") \/ Checkpoint(p, "verified", mem[p], "verify")
          \/ Checkpoint(p, "applied", [mem[p] EXCEPT !.backup = TRUE], "verify")
          \/ Checkpoint(p, "checked", mem[p], "ready")
      BY <1>4 DEF LicensedInstalled, RuntimeInstalled, RuntimeStatusVerified, PatchesRecorded,
                  Verify, GivesUp
    <2> QED BY <1>1, <1>2, <2>1, SwapMoves, GivesUpMoves
  <1>5. CASE FinishLock(p) \/ InstallRuntime(p) \/ RuntimeReturns(p) \/ ApplyPatches(p)
             \/ InspectPatches(p)
    <2>1. \/ GivesUp(p)
          \/ \E to \in {"planned", "child", "wait", "patched"} :
                Goto(p, to) /\ cmd' = cmd /\ lease' \in {lease, p}
      BY <1>5 DEF FinishLock, InstallRuntime, RuntimeReturns, ApplyPatches, InspectPatches,
                  GivesUp
    <2> QED BY <1>1, <1>2, <2>1, GotoMoves, GivesUpMoves
  <1>6. CASE InstallThreading(p)
    BY <1>6 DEF InstallThreading, process, Held, Moves, Holds
  <1> QED BY <1>3, <1>4, <1>5, <1>6

\* And the steps of a resume and of a rollback.
LEMMA RecoveryMoves ==
    ASSUME IInv, Held, NEW p \in Procs,
           \/ ResumeLock(p) \/ ResumeReturns(p) \/ LoadLatest(p) \/ Mark(p)
           \/ Preflight(p) \/ Undo(p) \/ RuntimeUndone(p) \/ Undone(p) \/ RolledBack(p)
    PROVE  Moves(p)
  <1>1. cmd[p] \in Commands
    BY DEF ResumeLock, ResumeReturns, LoadLatest, Mark, Preflight, Undo, RuntimeUndone, Undone,
           RolledBack, At, Commands
  <1>2. {"baseline", "installing", "licensed", "undo_patches", "undo_runtime", "undo_wait",
         "undo_licensed", "undo_tool", "undone"} \cap (Unlocked \cup {"mark"}) = {}
    BY DEF Unlocked
  <1>3. CASE ResumeReturns(p) \/ Mark(p) \/ RolledBack(p)
    BY <1>1, <1>3, GivesUpMoves DEF ResumeReturns, Mark, RolledBack, Swap, GivesUp
  <1>4. CASE ResumeLock(p)
    <2>1. \/ GivesUp(p)
          \/ \E to \in {"baseline", "installing", "licensed"} :
                Goto(p, to) /\ cmd' = cmd /\ lease' = p
      BY <1>4 DEF ResumeLock, GivesUp
    <2> QED BY <1>1, <1>2, <2>1, GotoMoves, GivesUpMoves
  <1>5. CASE LoadLatest(p)
    <2>1. Goto(p, "mark") /\ cmd' = cmd /\ lease' = lease /\ pc[p] = "latest"
      BY <1>5 DEF LoadLatest, At
    <2>2. lease # p
      BY <2>1 DEF Held, Holds, Unlocked
    <2> QED BY <2>1, <2>2 DEF Goto, Moves, IInv, TypeOK
  <1>6. CASE Preflight(p)
    <2>1. GivesUp(p) \/ \E n \in {mem[p], [mem[p] EXCEPT !.phase = "ROLLING_BACK"]} :
                           Keep(p, n, "undo_patches")
      BY <1>6 DEF Preflight, Swap, GivesUp, UndoSteps
    <2> QED BY <1>1, <1>2, <2>1, GotoMoves, GivesUpMoves DEF Keep
  <1>7. CASE Undo(p)
    <2>1. cmd' = cmd /\ lease' = lease /\ (pc' = pc \/ Goto(p, "undo_wait"))
      BY <1>7 DEF Undo
    <2>2. CASE pc' = pc
      BY <2>1, <2>2 DEF Held, Moves, Holds
    <2>3. CASE Goto(p, "undo_wait")
      BY <1>1, <1>2, <2>1, <2>3, GotoMoves
    <2> QED BY <2>1, <2>2, <2>3
  <1>9. CASE RuntimeUndone(p)
    <2>1. GivesUp(p) \/ (Goto(p, "undo_runtime") /\ cmd' = cmd /\ lease' = lease)
      BY <1>9 DEF RuntimeUndone, GivesUp
    <2> QED BY <1>1, <1>2, <2>1, GotoMoves, GivesUpMoves
  <1>8. CASE Undone(p)
    <2>1. PICK i \in 1..4 :
              \/ GivesUp(p)
              \/ Keep(p, mem[p], UndoSteps[i + 1])
              \/ Transition(p, [mem[p] EXCEPT !.done = @ \cup {UndoSteps[i]}], UndoSteps[i + 1])
      BY <1>8 DEF Undone, GivesUp
    <2>2. UndoSteps[i + 1] \notin Unlocked \cup {"mark"}
      BY DEF UndoSteps, Unlocked
    <2> QED BY <1>1, <2>1, <2>2, GotoMoves, SwapMoves, GivesUpMoves DEF Keep
  <1> QED BY <1>3, <1>4, <1>5, <1>6, <1>7, <1>8, <1>9

\* Every step keeps the lease with its holder.
LEMMA HeldInv ==
    ASSUME IInv, Held, [Next]_vars
    PROVE  Held'
  <1>1. ASSUME NEW p \in Procs, Step(p) PROVE Held'
    BY <1>1, PrepareMoves, FinishMoves, RecoveryMoves, MovesHeld DEF Step
  <1>2. ASSUME NEW p \in Procs, Crash(p) \/ StepFails(p) PROVE Held'
    <2>1. GivesUp(p) /\ pc[p] # "idle"
      BY <1>2 DEF Crash, StepFails, GivesUp
    <2> QED BY <2>1, UnderWay, GivesUpMoves, MovesHeld
  <1>3. ASSUME NEW p \in Procs, PrepareBegin(p) \/ RollbackBegin(p) PROVE Held'
    <2>1. PICK to \in {"preparing", "preflight"} : Goto(p, to) /\ pc[p] = "idle"
      BY <1>3 DEF PrepareBegin, RollbackBegin, Begin
    <2>2. PICK command \in Commands : cmd' = [cmd EXCEPT ![p] = command]
      BY <1>3 DEF PrepareBegin, RollbackBegin, Begin, Commands
    <2>3. lease' = p
      BY <1>3 DEF PrepareBegin, RollbackBegin
    <2>4. Moves(p)
      BY <2>1, <2>2, <2>3 DEF Goto, Moves, Holds, Unlocked, IInv, TypeOK
    <2> QED BY <2>4, MovesHeld
  <1>4. ASSUME NEW p \in Procs, FinishBegin(p) \/ ResumeBegin(p) PROVE Held'
    <2>1. PICK to \in {"confirmed", "loaded"} : Goto(p, to) /\ pc[p] = "idle"
      BY <1>4 DEF FinishBegin, ResumeBegin, Begin
    <2>2. PICK command \in Commands : cmd' = [cmd EXCEPT ![p] = command]
      BY <1>4 DEF FinishBegin, ResumeBegin, Begin, Commands
    <2>3. lease' = lease /\ lease # p
      BY <1>4, <2>1 DEF FinishBegin, ResumeBegin, Held, Holds, Unlocked
    <2>4. Moves(p)
      BY <2>1, <2>2, <2>3 DEF Goto, Moves, IInv, TypeOK
    <2> QED BY <2>4, MovesHeld
  <1>5. ASSUME \/ HelperEnds \/ SteamCreatesPrefix \/ UNCHANGED vars
               \/ \E c \in UserCommands : UserRuntime(c)
        PROVE  Held'
    <2>1. pc' = pc /\ cmd' = cmd /\ lease' = lease
      BY <1>5 DEF HelperEnds, SteamCreatesPrefix, UserRuntime, vars, process
    <2> QED BY <2>1 DEF Held, Holds
  <1> QED BY <1>1, <1>2, <1>3, <1>4, <1>5 DEF Next

\* Whoever has the lease is at a step that holds it.
LEMMA AlwaysHeld == Spec => []Held
  <1>1. Init => Held
    BY CoordinatorAssumption DEF Init, Held
  <1> QED BY <1>1, HeldInv, Inductive, PTL DEF Spec

-----------------------------------------------------------------------------
(* After the rollback *)

\* Once the journal says ROLLED_BACK, a process that holds the lease is a resume with
\* an older copy.
LEMMA HolderIsResume ==
    ASSUME IInv, NEW p \in Procs, j.phase = "ROLLED_BACK", Holds(p), pc[p] # "planned",
           pc[p] # "mark"
    PROVE  cmd[p] = "resume" /\ lease = p /\ mem[p].phase # "ROLLED_BACK"
  <1>1. /\ mem[p] \in States /\ cmd[p] \in {"none"} \cup Commands /\ pc[p] \in PcOf(cmd[p])
        /\ mem[p].phase \in PhasesAt(pc[p]) /\ (Owner(p) => Fresh(mem[p])) /\ lease = p
    BY AtFact DEF IInv, Copies, Copy
  <1>2. pc[p] \notin Unlocked
    BY DEF Holds
  <1>3. mem[p].phase # "ROLLED_BACK"
    <2>1. pc[p] \in PrepareSteps \cup Working \cup {"baseline"} \cup (RollbackSteps \ {"mark"})
      BY <1>1, <1>2, Tables, StepSets DEF Unlocked, ResumeSteps, Commands
    <2> QED BY <1>1, <2>1, Tables, StepSets DEF Live
  <1>4. ~Owner(p)
    BY <1>1, <1>3 DEF Fresh, States
  <1> QED BY <1>1, <1>2, <1>3, <1>4, Tables, StepSets DEF Owner, Unlocked, Commands

\* After ROLLED_BACK only a resume with a stale copy changes anything, or the
\* installer that one left behind, or the user's own runtime command.
THEOREM OnlyStaleResumes == Spec => OnlyStaleResumeAfterRollback
  <1>1. ASSUME IInv, Held, [Next]_vars, j.phase = "ROLLED_BACK", owned' # owned
        PROVE  \/ \E p \in Procs : cmd[p] = "resume" /\ lease = p /\ mem[p].phase # "ROLLED_BACK"
               \/ lease = NoOne /\ runtime # "none" /\ UNCHANGED <<tool, licensed, patch>>
    <2>1. ASSUME NEW p \in Procs,
                 \/ Publish(p) \/ InstallThreading(p) \/ InstallRuntime(p) \/ ApplyPatches(p)
                 \/ Undo(p)
                 \/ (Crash(p) \/ StepFails(p)) /\ (Applies(p) \/ licensed' # licensed)
          PROVE  cmd[p] = "resume" /\ lease = p /\ mem[p].phase # "ROLLED_BACK"
      <3>1. pc[p] \in {"publish", "licensed", "runtime", "patch", "undo_patches", "undo_runtime",
                       "undo_licensed", "undo_tool"}
        BY <2>1, StatusFact DEF Publish, InstallThreading, InstallRuntime, ApplyPatches, Undo,
                                Applies, At, Crash, StepFails, LicensedLeaves
      <3>2. Holds(p) /\ pc[p] \notin {"planned", "mark"}
        BY <3>1 DEF Holds, Unlocked
      <3> QED BY <1>1, <3>2, HolderIsResume
    <2>2. CASE HelperEnds
      <3>1. /\ helper /\ runtime # "none" /\ UNCHANGED <<tool, licensed, patch>>
            /\ \A p \in Procs : Holds(p) => pc[p] \in {"wait", "undo_wait"}
        BY <1>1, <2>2 DEF HelperEnds, IInv, Disk
      <3>2. CASE lease = NoOne
        BY <3>1, <3>2
      <3>3. CASE lease \in Procs
        <4>1. Holds(lease) /\ pc[lease] \notin {"planned", "mark"}
          BY <1>1, <3>1, <3>3 DEF Held
        <4> QED BY <1>1, <3>3, <4>1, HolderIsResume
      <3> QED BY <1>1, <3>2, <3>3 DEF IInv, TypeOK
    <2>3. CASE \E c \in UserCommands : UserRuntime(c)
      BY <2>3 DEF UserRuntime, LeaseFree, Unfinished
    <2> QED BY <1>1, <2>1, <2>2, <2>3, OwnedChanges
  <1>2. IInv /\ Held /\ [Next]_vars =>
            [j.phase = "ROLLED_BACK" /\ <<tool, licensed, runtime, patch>>' # <<tool, licensed, runtime, patch>>
             => \/ \E p \in Procs : cmd[p] = "resume" /\ lease = p /\ mem[p].phase # "ROLLED_BACK"
                \/ lease = NoOne /\ runtime # "none" /\ UNCHANGED <<tool, licensed, patch>>]_vars
    BY <1>1 DEF owned
  <1> QED BY <1>2, Inductive, AlwaysHeld, PTL DEF Spec, OnlyStaleResumeAfterRollback
=============================================================================
