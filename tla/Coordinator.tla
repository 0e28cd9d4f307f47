----------------------------- MODULE Coordinator -----------------------------
(***************************************************************************)
(* ./setup bootstrap, the legacy coordinator (forza_bootstrap/             *)
(* coordinator.py over state.py): prepare, finish, resume and rollback of  *)
(* one bootstrap transaction, run by several processes at once.  A process *)
(* keeps a copy of the journal it loaded; the journal is only replaced by  *)
(* compare and swap against that copy.  The launcher lease covers most but *)
(* not all of a command.                                                   *)
(***************************************************************************)
EXTENDS Naturals, FiniteSets

CONSTANTS
    Procs,        \* processes that run ./setup bootstrap
    NoOne,        \* the lease when it is free
    Origins,      \* at the tool's name before Prepare: "absent", "adopted"
    Plans,        \* dispositions of the Finish plan, one record each
    UserCommands, \* runtime commands the user runs by hand
    MaxFaults     \* bound on exits, failed steps and lost locks

Dispositions == [licensed : {"copy", "keep"}, runtime : {"install", "keep"},
                 patch : {"apply", "keep"}]

ASSUME CoordinatorAssumption ==
    /\ NoOne \notin Procs
    /\ Origins \subseteq {"absent", "adopted"}
    /\ Plans \subseteq Dispositions
    /\ UserCommands \subseteq {"accept", "rollback"}
    /\ MaxFaults \in Nat

VARIABLES
    j,        \* state.json: the durable BootstrapState
    mem,      \* the copy of it each process holds
    cmd, pc,  \* the command each process runs and its next step
    lease,    \* who holds forza-linux.lock
    helper,   \* does a runtime installer, which shares the lease, install or undo?
    files,    \* plan.json and before.json, as far as they exist
    record,   \* compatibility-tool.json: "none", "created", "adopted"
    origin, plan, prefix,
    tool,     \* what the public tool name shows: "absent", "own", "adopted"
    tree,     \* is the whole tool tree still the recorded one?
    licensed, \* journal of the licensed copy
    runtime,  \* journal state of the runtime transaction
    patch,    \* the four patch targets: "original", "mixed", "patched"
    manifest, \* does the patch backup manifest exist?
    faults

vars == <<j, mem, cmd, pc, lease, helper, files, record, origin, plan, prefix,
          tool, tree, licensed, runtime, patch, manifest, faults>>
process == <<mem, cmd, pc, lease>>
managed == <<helper, tool, tree, licensed, runtime, patch, manifest>>
host    == <<origin, plan, prefix>>

Live == {"NEW", "PREPARING", "AWAITING_STEAM_PREFIX", "PLANNED_FINISH",
         "INSTALLING_FINISH", "READY_TO_ATTEMPT", "ROLLING_BACK",
         "RECOVERY_REQUIRED"}
Phases == {"NONE", "ROLLED_BACK"} \cup Live
Boundaries == {"acquired", "published", "licensed", "runtime", "status",
               "applied", "verified", "checked", "undo_patches",
               "undo_runtime", "undo_licensed", "undo_tool"}
States == [phase : Phases, done : SUBSET Boundaries, tool : {"none", "created", "adopted"},
           finish : BOOLEAN, child : BOOLEAN, backup : BOOLEAN]
NoState == [phase |-> "NONE", done |-> {}, tool |-> "none",
            finish |-> FALSE, child |-> FALSE, backup |-> FALSE]

PrepareSteps == {"preparing", "plan", "before", "acquire", "publish", "record",
                 "published", "handoff"}
FinishSteps  == {"confirmed", "planned", "installing", "licensed", "runtime",
                 "wait", "child", "status", "patch", "patched", "verify", "ready"}
ResumeSteps  == {"loaded", "baseline", "returned", "latest"}
UndoSteps    == <<"undo_patches", "undo_runtime", "undo_licensed", "undo_tool", "undone">>
RollbackSteps == {"preflight", "mark", "undo_wait"} \cup {UndoSteps[i] : i \in 1..5}

\* Journal states of a runtime transaction that is not over.  Besides: "reserved"
\* is its directory without a journal; "bare" a journal whose targets have no
\* parent directories yet, which the installer's own rollback refuses for ever.
Unfinished == {"open", "bare", "installed", "rolling_back", "recovery_required"}

TypeOK ==
    /\ j \in States /\ mem \in [Procs -> States]
    /\ cmd \in [Procs -> {"none", "prepare", "finish", "resume", "rollback"}]
    /\ pc \in [Procs -> {"idle"} \cup PrepareSteps \cup FinishSteps
                              \cup ResumeSteps \cup RollbackSteps]
    /\ lease \in Procs \cup {NoOne}
    /\ files \subseteq {"plan", "before"}
    /\ record \in {"none", "created", "adopted"}
    /\ origin \in Origins /\ plan \in Plans
    /\ helper \in BOOLEAN /\ prefix \in BOOLEAN /\ tree \in BOOLEAN /\ manifest \in BOOLEAN
    /\ tool \in {"absent", "own", "adopted"}
    /\ licensed \in {"none", "reserved", "open", "installed", "rolled_back",
                     "recovery_required"}
    /\ runtime \in Unfinished \cup {"none", "reserved", "accepted", "rolled_back"}
    /\ patch \in {"original", "mixed", "patched"}
    /\ faults \in 0..MaxFaults

\* What the patch targets are before this transaction touches them.
PatchBefore == IF plan.patch = "keep" THEN "patched" ELSE "original"

Init ==
    /\ j = NoState /\ mem = [p \in Procs |-> NoState]
    /\ cmd = [p \in Procs |-> "none"] /\ pc = [p \in Procs |-> "idle"]
    /\ lease = NoOne /\ helper = FALSE
    /\ files = {} /\ record = "none"
    /\ origin \in Origins /\ plan \in Plans
    /\ origin = "absent" => plan.runtime = "install" /\ plan.patch = "apply"
    /\ prefix = FALSE
    /\ tool = origin /\ tree = TRUE
    /\ licensed = "none" /\ runtime = "none"
    /\ patch = PatchBefore /\ manifest = FALSE
    /\ faults = 0

-----------------------------------------------------------------------------
(* state.py: one durable record, replaced by compare and swap *)

\* _ALLOWED_TRANSITIONS, and a checkpoint within a phase.
Forward == [NEW |-> "PREPARING", PREPARING |-> "AWAITING_STEAM_PREFIX",
            AWAITING_STEAM_PREFIX |-> "PLANNED_FINISH",
            PLANNED_FINISH |-> "INSTALLING_FINISH",
            INSTALLING_FINISH |-> "READY_TO_ATTEMPT"]

\* Mutant: nothing leads out of RECOVERY_REQUIRED.
AllowedNoWayOut(from, to) ==
    \/ from = to /\ from \in Live
    \/ from \in DOMAIN Forward /\ to = Forward[from]
    \/ from \in Live \ {"RECOVERY_REQUIRED"} /\ to \in {"ROLLING_BACK", "RECOVERY_REQUIRED"}
    \/ from = "ROLLING_BACK" /\ to = "ROLLED_BACK"

Allowed(from, to) ==
    \/ from = to /\ from \in Live
    \/ from \in DOMAIN Forward /\ to = Forward[from]
    \/ from \in Live \ {"ROLLING_BACK", "RECOVERY_REQUIRED"}
       /\ to \in {"ROLLING_BACK", "RECOVERY_REQUIRED"}
    \/ from = "ROLLING_BACK" /\ to \in {"ROLLED_BACK", "RECOVERY_REQUIRED"}
    \/ from = "RECOVERY_REQUIRED" /\ to = "ROLLING_BACK"

Goto(p, step) == pc' = [pc EXCEPT ![p] = step]
Release(p) == lease' = IF lease = p THEN NoOne ELSE lease
Fault == faults < MaxFaults /\ faults' = faults + 1

\* The command ends: an error nobody handles, or its last step.
Stop(p) ==
    /\ Goto(p, "idle") /\ Release(p)
    /\ cmd' = [cmd EXCEPT ![p] = "none"] /\ mem' = [mem EXCEPT ![p] = NoState]

\* A BootstrapError: prepare and finish print it, resume gives up the lease and
\* marks whatever is then the latest state, rollback marks the one it holds.
Raise(p) ==
    CASE cmd[p] \in {"prepare", "finish"} -> Stop(p)
      [] cmd[p] = "resume"   -> Goto(p, "latest") /\ Release(p) /\ UNCHANGED <<cmd, mem>>
      [] cmd[p] = "rollback" -> Goto(p, "mark") /\ UNCHANGED <<cmd, mem, lease>>

\* Mutant: only the phases are compared.
MatchesPhase(p) == j.phase = mem[p].phase

\* transition: refused unless the durable record is the one the process holds.
Matches(p) == j = mem[p]

Swap(p, next, after, otherwise) ==
    \/ /\ Matches(p) /\ Allowed(mem[p].phase, next.phase)
       /\ j' = next
       /\ after
       /\ UNCHANGED faults
    \/ /\ ~Matches(p) \/ ~Allowed(mem[p].phase, next.phase)
       /\ otherwise
       /\ UNCHANGED <<j, faults>>
    \* acquire_bootstrap_lock does not wait: another process is in state.py.
    \/ /\ \E q \in Procs \ {p} : pc[q] # "idle"
       /\ Fault /\ otherwise
       /\ UNCHANGED j

Keep(p, next, step) ==
    /\ Goto(p, step) /\ mem' = [mem EXCEPT ![p] = next] /\ UNCHANGED <<cmd, lease>>

Transition(p, next, step) == Swap(p, next, Keep(p, next, step), Raise(p))

\* A checkpoint; resume does not repeat one that is recorded.
Checkpoint(p, b, next, step) ==
    IF cmd[p] = "resume" /\ b \in mem[p].done /\ next = mem[p]
    THEN Keep(p, next, step) /\ UNCHANGED <<j, faults>>
    ELSE Transition(p, [next EXCEPT !.done = @ \cup {b}], step)

At(p, command, step) == cmd[p] \in command /\ pc[p] = step
Begin(p, command, step, state) ==
    /\ pc[p] = "idle"
    /\ cmd' = [cmd EXCEPT ![p] = command] /\ Goto(p, step)
    /\ mem' = [mem EXCEPT ![p] = state]

\* The runtime installer inherits the descriptor of the lease.
LeaseFree == lease = NoOne /\ ~helper

-----------------------------------------------------------------------------
(* Prepare, and its recovery *)

\* create_transaction, under a lease taken after the confirmation.
PrepareBegin(p) ==
    /\ Begin(p, "prepare", "preparing", [NoState EXCEPT !.phase = "NEW"])
    /\ j.phase = "NONE" /\ LeaseFree
    /\ j' = mem'[p] /\ lease' = p
    /\ UNCHANGED <<files, record, host, managed, faults>>

Preparing(p) ==
    /\ At(p, {"prepare"}, "preparing")
    /\ Transition(p, [mem[p] EXCEPT !.phase = "PREPARING"], "plan")
    /\ UNCHANGED <<files, record, host, managed>>

\* plan.json (with its copy prepare-plan.json), then before.json.
WriteFile(p) ==
    /\ At(p, {"prepare"}, "plan") \/ At(p, {"prepare"}, "before")
    /\ files' = files \cup {pc[p]}
    /\ Goto(p, IF pc[p] = "plan" THEN "before" ELSE "acquire")
    /\ UNCHANGED <<j, mem, cmd, lease, record, host, managed, faults>>

\* The checkpoints of the snapshot, of GE-Proton and of the bundle.
Acquire(p) ==
    /\ At(p, {"prepare"}, "acquire")
    /\ Checkpoint(p, "acquired", mem[p], "publish")
    /\ UNCHANGED <<files, record, host, managed>>

\* Recovery writes the baseline if Prepare did not come that far.  A missing
\* plan is a FileNotFoundError, which is not a BootstrapError.
Baseline(p) ==
    /\ At(p, {"resume"}, "baseline")
    /\ \/ mem[p].phase = "NEW" /\ Raise(p) /\ UNCHANGED files
       \/ mem[p].phase = "PREPARING" /\ "plan" \notin files /\ Stop(p) /\ UNCHANGED files
       \/ /\ mem[p].phase = "PREPARING" /\ "plan" \in files
          /\ IF "before" \notin files /\ (record # "none" \/ (origin = "absent" /\ tool # "absent"))
             THEN Raise(p) /\ UNCHANGED files
             ELSE /\ Goto(p, "publish") /\ files' = files \cup {"before"}
                  /\ UNCHANGED <<cmd, mem, lease>>
    /\ UNCHANGED <<j, record, host, managed, faults>>

\* inspect_fm agrees with the recorded identity and digest.
ToolAsRecorded == tool # "absent" /\ tree

\* publish_fm renames a complete stage to a free name; an adopted tool must be
\* the one that was planned, and a recorded one the one that was recorded.
Publish(p) ==
    /\ At(p, {"prepare", "resume"}, "publish")
    /\ \/ /\ record # "none" /\ ToolAsRecorded
          /\ Goto(p, "handoff") /\ UNCHANGED <<cmd, mem, lease, tool, tree>>
       \/ /\ record = "none" /\ origin = "absent" /\ tool = "absent"
          /\ tool' = "own" /\ tree' = TRUE
          /\ Goto(p, "record") /\ UNCHANGED <<cmd, mem, lease>>
       \/ /\ record = "none" /\ origin = "adopted" /\ ToolAsRecorded
          /\ Goto(p, "record") /\ UNCHANGED <<cmd, mem, lease, tool, tree>>
       \/ /\ IF record = "none" THEN tool # origin \/ (origin = "adopted" /\ ~tree)
                               ELSE ~ToolAsRecorded
          /\ Raise(p) /\ UNCHANGED <<tool, tree>>
    /\ UNCHANGED <<j, files, record, host, helper, licensed, runtime, patch, manifest, faults>>

\* Mutant: a resumed Prepare does not write the record that is missing.
RecordByPrepare(p) ==
    /\ At(p, {"prepare", "resume"}, "record")
    /\ record' = IF cmd[p] = "resume" THEN record ELSE IF tool = "own" THEN "created" ELSE "adopted"
    /\ Goto(p, "handoff")
    /\ UNCHANGED <<j, mem, cmd, lease, files, host, managed, faults>>

\* compatibility-tool.json; only Prepare checkpoints a tool it published.
Record(p) ==
    /\ At(p, {"prepare", "resume"}, "record")
    /\ record' = IF tool = "own" THEN "created" ELSE "adopted"
    /\ Goto(p, IF cmd[p] = "prepare" /\ tool = "own" THEN "published" ELSE "handoff")
    /\ UNCHANGED <<j, mem, cmd, lease, files, host, managed, faults>>

Published(p) ==
    /\ At(p, {"prepare"}, "published")
    /\ Checkpoint(p, "published", mem[p], "handoff")
    /\ UNCHANGED <<files, record, host, managed>>

\* A command's last transition.  Resume gives up the lease before it compares
\* its result with the journal.
Last(p, next) ==
    Swap(p, next,
         IF cmd[p] = "resume"
         THEN /\ Goto(p, "returned") /\ Release(p)
              /\ mem' = [mem EXCEPT ![p] = next] /\ UNCHANGED cmd
         ELSE Stop(p),
         Raise(p))

Handoff(p) ==
    /\ At(p, {"prepare", "resume"}, "handoff")
    /\ Last(p, [mem[p] EXCEPT !.phase = "AWAITING_STEAM_PREFIX", !.tool = record])
    /\ UNCHANGED <<files, record, host, managed>>

-----------------------------------------------------------------------------
(* Finish, and its recovery *)

\* validate_prefix: the whole tool tree has the digest recorded by Prepare, and
\* no runtime directory but that of the recorded child is unfinished or unreadable.
ValidatePrefix(m) ==
    /\ prefix /\ tool # "absent" /\ tree
    /\ runtime \in Unfinished \cup {"reserved"} => m.child

\* Finish validates before each group of changes; resume did so once.
Revalidated(p) == cmd[p] = "finish" => ValidatePrefix(mem[p])

\* The plan is shown and confirmed without the lease.
FinishBegin(p) ==
    /\ Begin(p, "finish", "confirmed", j)
    /\ j.phase = "AWAITING_STEAM_PREFIX" /\ ValidatePrefix(j)
    /\ UNCHANGED <<j, lease, files, record, host, managed, faults>>

\* _finish_under_lease collects the inputs again: the same plan, or no change.
FinishLock(p) ==
    /\ At(p, {"finish"}, "confirmed")
    /\ \/ /\ LeaseFree /\ ValidatePrefix(mem[p]) /\ licensed = "none" /\ patch = PatchBefore
          /\ lease' = p /\ Goto(p, "planned") /\ UNCHANGED <<mem, cmd>>
       \/ /\ ~LeaseFree \/ ~ValidatePrefix(mem[p]) \/ licensed # "none" \/ patch # PatchBefore
          /\ Stop(p)
    /\ UNCHANGED <<j, files, record, host, managed, faults>>

Planned(p) ==
    /\ At(p, {"finish"}, "planned")
    /\ Transition(p, [mem[p] EXCEPT !.phase = "PLANNED_FINISH", !.finish = TRUE], "installing")
    /\ UNCHANGED <<files, record, host, managed>>

Installing(p) ==
    /\ At(p, {"finish", "resume"}, "installing")
    /\ Transition(p, [mem[p] EXCEPT !.phase = "INSTALLING_FINISH"], "licensed")
    /\ UNCHANGED <<files, record, host, managed>>

\* install_threading_copy makes its directory, its journal, and then the copy.
\* Finish skips it for a copy that is there already; resume does not.
InstallThreading(p) ==
    /\ At(p, {"finish", "resume"}, "licensed")
    /\ Revalidated(p) /\ ~(cmd[p] = "finish" /\ plan.licensed = "keep")
    /\ \/ licensed = "none" /\ licensed' = "reserved"
       \/ licensed = "reserved" /\ licensed' = "open"
       \/ licensed = "open" /\ licensed' = "installed"
    /\ UNCHANGED <<j, process, files, record, host, helper, tool, tree, runtime,
                   patch, manifest, faults>>

LicensedInstalled(p) ==
    /\ At(p, {"finish", "resume"}, "licensed")
    /\ \/ /\ Revalidated(p)
          /\ licensed = "installed" \/ (cmd[p] = "finish" /\ plan.licensed = "keep")
          /\ Checkpoint(p, "licensed", mem[p], "runtime")
       \/ /\ ~Revalidated(p) \/ licensed \in {"rolled_back", "recovery_required"}
          /\ Raise(p) /\ UNCHANGED <<j, faults>>
    /\ UNCHANGED <<files, record, host, managed>>

\* _runtime_transaction_id: the recorded child, or an unfinished one of this plan;
\* a directory without a journal is passed over.
ChildFound(m) == m.child \/ runtime \in Unfinished

\* install_runtime starts the installer, which inherits the lease.
InstallRuntime(p) ==
    /\ At(p, {"finish", "resume"}, "runtime")
    /\ IF ~Revalidated(p)
       THEN Raise(p) /\ UNCHANGED <<helper, runtime>>
       ELSE IF plan.runtime = "keep" \/ (cmd[p] = "resume" /\ ChildFound(mem[p]))
       THEN Goto(p, "child") /\ UNCHANGED <<mem, cmd, lease, helper, runtime>>
       ELSE /\ helper' = TRUE /\ runtime' = "open"
            /\ Goto(p, "wait") /\ UNCHANGED <<mem, cmd, lease>>
    /\ UNCHANGED <<j, files, record, host, tool, tree, licensed, patch, manifest, faults>>

\* The installer ends, on its own or killed.  Two of its targets and all its
\* stages and backups are inside the tool; one that stopped before it made its
\* directory counts as rolled back.  Its rollback fails over missing parents.
HelperEnds ==
    /\ helper /\ helper' = FALSE
    /\ \/ runtime = "open" /\ runtime' = "installed" /\ tree' = FALSE /\ UNCHANGED faults
       \/ /\ runtime = "open" /\ tree' \in {tree, FALSE} /\ Fault
          /\ runtime' \in {"reserved", "bare", "open", "rolled_back", "recovery_required"}
       \/ runtime = "rolling_back" /\ runtime' = "rolled_back" /\ UNCHANGED <<tree, faults>>
       \/ /\ runtime = "rolling_back" /\ runtime' \in {"rolling_back", "recovery_required"}
          /\ Fault /\ UNCHANGED tree
       \/ runtime = "bare" /\ UNCHANGED <<runtime, tree, faults>>
    /\ UNCHANGED <<j, process, files, record, host, tool, licensed, patch, manifest>>

RuntimeReturns(p) ==
    /\ At(p, {"finish", "resume"}, "wait") /\ ~helper
    /\ IF runtime = "installed" THEN Goto(p, "child") /\ UNCHANGED <<mem, cmd, lease>>
                                ELSE Raise(p)
    /\ UNCHANGED <<j, files, record, host, managed, faults>>

RuntimeInstalled(p) ==
    /\ At(p, {"finish", "resume"}, "child")
    /\ Checkpoint(p, "runtime", [mem[p] EXCEPT !.child = @ \/ plan.runtime = "install"], "status")
    /\ UNCHANGED <<files, record, host, managed>>

RuntimeStatusVerified(p) ==
    /\ At(p, {"finish", "resume"}, "status")
    /\ IF plan.runtime = "keep" \/ runtime = "installed"
       THEN Checkpoint(p, "status", mem[p], "patch")
       ELSE Raise(p) /\ UNCHANGED <<j, faults>>
    /\ UNCHANGED <<files, record, host, managed>>

\* _default_patch_recovery_status: the patcher refuses a target that is missing,
\* and two of the four are in the tool.
PatchStatus(m) ==
    LET backup == m.backup \/ manifest IN
    CASE ~m.finish -> "not_applicable"
      [] m.finish /\ (tool = "absent" \/ patch = "mixed") -> "error"
      [] m.finish /\ tool # "absent" /\ patch = "original" ->
             IF plan.patch = "keep" \/ backup THEN "error" ELSE "rolled_back"
      [] m.finish /\ tool # "absent" /\ patch = "patched" ->
             IF plan.patch = "keep" THEN "not_applicable"
             ELSE IF backup THEN "pending" ELSE "error"

\* Does the step at hand run the patcher?
Applies(p) ==
    /\ At(p, {"finish", "resume"}, "patch") /\ plan.patch = "apply"
    /\ {"applied", "verified"} \cap mem[p].done = {}
    /\ IF cmd[p] = "finish" THEN ValidatePrefix(mem[p]) ELSE PatchStatus(mem[p]) = "rolled_back"

\* Two of the four targets are inside the tool.
ApplyPatches(p) ==
    /\ Applies(p)
    /\ patch' = "patched" /\ manifest' = TRUE /\ tree' = FALSE
    /\ Goto(p, "patched")
    /\ UNCHANGED <<j, mem, cmd, lease, files, record, host, helper, tool, licensed,
                   runtime, faults>>

\* Nothing to apply: the patches were there, or an interrupted command applied
\* them and recovery finds their backup.
InspectPatches(p) ==
    /\ At(p, {"finish", "resume"}, "patch") /\ ~Applies(p)
    /\ LET found == IF "applied" \in mem[p].done THEN {"pending"}
                    ELSE IF "verified" \in mem[p].done THEN {"not_applicable"}
                    ELSE {"pending", "not_applicable"}
           agrees == IF cmd[p] = "finish" THEN ValidatePrefix(mem[p])
                                         ELSE PatchStatus(mem[p]) \in found
       IN IF agrees THEN Goto(p, "patched") /\ UNCHANGED <<mem, cmd, lease>> ELSE Raise(p)
    /\ UNCHANGED <<j, files, record, host, managed, faults>>

PatchesRecorded(p) ==
    /\ At(p, {"finish", "resume"}, "patched")
    /\ IF plan.patch = "keep"
       THEN Checkpoint(p, "verified", mem[p], "verify")
       ELSE Checkpoint(p, "applied", [mem[p] EXCEPT !.backup = TRUE], "verify")
    /\ UNCHANGED <<files, record, host, managed>>

\* The doctor, after.json, the comparison and the Steam options.
Verify(p) ==
    /\ At(p, {"finish", "resume"}, "verify")
    /\ IF Revalidated(p) THEN Checkpoint(p, "checked", mem[p], "ready")
                         ELSE Raise(p) /\ UNCHANGED <<j, faults>>
    /\ UNCHANGED <<files, record, host, managed>>

Ready(p) ==
    /\ At(p, {"finish", "resume"}, "ready")
    /\ Last(p, [mem[p] EXCEPT !.phase = "READY_TO_ATTEMPT"])
    /\ UNCHANGED <<files, record, host, managed>>

-----------------------------------------------------------------------------
(* Resume *)

\* The journal is loaded, and compared, before the lease is taken.
ResumeBegin(p) ==
    /\ Begin(p, "resume", "loaded", j)
    /\ j.phase \in {"NEW", "PREPARING", "PLANNED_FINISH", "INSTALLING_FINISH"}
    /\ UNCHANGED <<j, lease, files, record, host, managed, faults>>

ResumeLock(p) ==
    /\ At(p, {"resume"}, "loaded")
    /\ LET prepares == mem[p].phase \in {"NEW", "PREPARING"} IN
       \/ /\ LeaseFree /\ (prepares \/ ValidatePrefix(mem[p]))
          /\ lease' = p
          /\ Goto(p, IF prepares THEN "baseline"
                     ELSE IF mem[p].phase = "PLANNED_FINISH" THEN "installing" ELSE "licensed")
          /\ UNCHANGED <<mem, cmd>>
       \/ ~(LeaseFree /\ (prepares \/ ValidatePrefix(mem[p]))) /\ Raise(p)
    /\ UNCHANGED <<j, files, record, host, managed, faults>>

ResumeReturns(p) ==
    /\ At(p, {"resume"}, "returned")
    /\ IF Matches(p) THEN Stop(p) ELSE Raise(p)
    /\ UNCHANGED <<j, files, record, host, managed, faults>>

LoadLatest(p) ==
    /\ At(p, {"resume"}, "latest")
    /\ mem' = [mem EXCEPT ![p] = j] /\ Goto(p, "mark")
    /\ UNCHANGED <<j, cmd, lease, files, record, host, managed, faults>>

\* _recovery_required
Mark(p) ==
    /\ At(p, {"resume", "rollback"}, "mark")
    /\ IF mem[p].phase = "RECOVERY_REQUIRED"
       THEN Stop(p) /\ UNCHANGED <<j, faults>>
       ELSE Swap(p, [mem[p] EXCEPT !.phase = "RECOVERY_REQUIRED"], Stop(p), Stop(p))
    /\ UNCHANGED <<files, record, host, managed>>

-----------------------------------------------------------------------------
(* Rollback: every owner is inspected, then undone in reverse order *)

RuntimeStatus(m) ==
    IF ~m.child /\ (~m.finish \/ ~ChildFound(m)) THEN "not_applicable"
    ELSE CASE runtime \in {"open", "bare", "installed", "rolling_back"} -> "pending"
           [] runtime \in {"rolled_back", "accepted"} -> runtime
           [] OTHER -> "error"

\* Mutant: a planned copy is taken for one that was never made.
LicensedStatusPlanned ==
    CASE licensed \in {"none", "open"} -> "not_applicable"
      [] licensed = "reserved" -> "missing"
      [] licensed = "installed" -> "pending"
      [] licensed = "rolled_back" -> "rolled_back"
      [] licensed = "recovery_required" -> "error"

\* A directory without licensed.json is a FileNotFoundError.
LicensedStatus ==
    CASE licensed = "none" -> "not_applicable"
      [] licensed = "reserved" -> "missing"
      [] licensed \in {"open", "installed"} -> "pending"
      [] licensed = "rolled_back" -> "rolled_back"
      [] licensed = "recovery_required" -> "error"

\* Mutant: the inode alone identifies a created tool.
ToolStatusByInode(m) ==
    CASE record = "none" -> IF m.tool = "none" THEN "not_applicable" ELSE "error"
      [] record = "adopted" -> IF ToolAsRecorded THEN "not_applicable" ELSE "error"
      [] record = "created" -> IF tool = "absent" THEN "rolled_back" ELSE "pending"

ToolStatus(m) ==
    CASE record = "none" -> IF m.tool = "none" THEN "not_applicable" ELSE "error"
      [] record = "adopted" -> IF ToolAsRecorded THEN "not_applicable" ELSE "error"
      [] record = "created" -> IF tool = "absent" THEN "rolled_back"
                               ELSE IF ToolAsRecorded THEN "pending" ELSE "error"

Status(m) == [undo_patches |-> PatchStatus(m), undo_runtime |-> RuntimeStatus(m),
              undo_licensed |-> LicensedStatus, undo_tool |-> ToolStatus(m)]
Found(m) == {Status(m)[s] : s \in DOMAIN Status(m)}

\* Mutant: rollback does not take the lease.
RollbackBeginUnlocked(p) ==
    /\ Begin(p, "rollback", "preflight", j)
    /\ j.phase \in Live
    /\ UNCHANGED <<j, lease, files, record, host, managed, faults>>

RollbackBegin(p) ==
    /\ Begin(p, "rollback", "preflight", j)
    /\ j.phase \in Live /\ LeaseFree /\ lease' = p
    /\ UNCHANGED <<j, files, record, host, managed, faults>>

Preflight(p) ==
    /\ At(p, {"rollback"}, "preflight")
    /\ IF {"missing", "accepted"} \cap Found(mem[p]) # {}
       THEN Stop(p) /\ UNCHANGED <<j, faults>>
       ELSE IF "error" \in Found(mem[p])
       THEN Raise(p) /\ UNCHANGED <<j, faults>>
       ELSE IF mem[p].phase = "ROLLING_BACK"
       THEN Keep(p, mem[p], UndoSteps[1]) /\ UNCHANGED <<j, faults>>
       ELSE LET next == [mem[p] EXCEPT !.phase = "ROLLING_BACK"]
            IN Swap(p, next, Keep(p, next, UndoSteps[1]), Stop(p))
    /\ UNCHANGED <<files, record, host, managed>>

\* The owner's own rollback: the patches' backup stays where it is.  The runtime
\* is undone by its installer, which inherits the lease.
Undo(p) ==
    \E s \in DOMAIN Status(mem[p]) :
        /\ At(p, {"rollback"}, s) /\ Status(mem[p])[s] = "pending"
        /\ patch' = IF s = "undo_patches" THEN "original" ELSE patch
        /\ licensed' = IF s = "undo_licensed" THEN "rolled_back" ELSE licensed
        /\ tool' = IF s = "undo_tool" THEN "absent" ELSE tool
        /\ IF s = "undo_runtime"
           THEN /\ helper' = TRUE /\ Goto(p, "undo_wait")
                /\ runtime' = IF runtime = "bare" THEN "bare" ELSE "rolling_back"
           ELSE UNCHANGED <<helper, pc, runtime>>
        /\ UNCHANGED <<j, mem, cmd, lease, files, record, host, tree, manifest, faults>>

\* The installer's rollback failed, or the owner is inspected again.
RuntimeUndone(p) ==
    /\ At(p, {"rollback"}, "undo_wait") /\ ~helper
    /\ IF runtime = "rolled_back" THEN Goto(p, "undo_runtime") /\ UNCHANGED <<mem, cmd, lease>>
                                  ELSE Raise(p)
    /\ UNCHANGED <<j, files, record, host, managed, faults>>

\* _rollback_checkpoint, once the owner is in an exact state.
Undone(p) ==
    \E i \in 1..4 :
        LET s == UndoSteps[i]
            status == Status(mem[p])[s]
        IN /\ At(p, {"rollback"}, s) /\ status # "pending"
           /\ IF status \notin {"rolled_back", "not_applicable"}
              THEN (IF status = "missing" THEN Stop(p) ELSE Raise(p)) /\ UNCHANGED <<j, faults>>
              ELSE IF s \in mem[p].done
              THEN Keep(p, mem[p], UndoSteps[i + 1]) /\ UNCHANGED <<j, faults>>
              ELSE Transition(p, [mem[p] EXCEPT !.done = @ \cup {s}], UndoSteps[i + 1])
           /\ UNCHANGED <<files, record, host, managed>>

RolledBack(p) ==
    /\ At(p, {"rollback"}, "undone")
    /\ Swap(p, [mem[p] EXCEPT !.phase = "ROLLED_BACK"], Stop(p), Stop(p))
    /\ UNCHANGED <<files, record, host, managed>>

-----------------------------------------------------------------------------
(* Failures, and the world outside *)

\* A patcher that is cut off, or fails and puts back what it can: the targets are
\* changed one by one, the manifest comes last, and it is there already when the
\* sync of its directory fails.
PatcherLeaves(p) ==
    IF Applies(p)
    THEN /\ patch' \in {"original", "mixed", "patched"}
         /\ manifest' \in {manifest, TRUE} /\ tree' \in {tree, FALSE}
         /\ patch' = "patched" => ~tree'
    ELSE UNCHANGED <<patch, manifest, tree>>

\* A licensed copy that finds another file under its name sets it aside.
LicensedLeaves(p) ==
    \/ UNCHANGED licensed
    \/ /\ pc[p] \in {"licensed", "undo_licensed"} /\ licensed \in {"open", "installed"}
       /\ licensed' = "recovery_required"

\* The process exits; an installer it started goes on and keeps the lease.
Crash(p) ==
    /\ pc[p] # "idle" /\ Fault /\ Stop(p) /\ PatcherLeaves(p)
    /\ UNCHANGED <<j, files, record, host, helper, tool, licensed, runtime>>

\* A download, a helper, a check or a write fails.
StepFails(p) ==
    /\ pc[p] \in {"before", "acquire", "publish", "licensed", "status", "patch", "verify",
                  "undo_licensed", "undo_tool"}
    /\ Fault /\ Raise(p) /\ PatcherLeaves(p) /\ LicensedLeaves(p)
    /\ UNCHANGED <<j, files, record, host, helper, tool, runtime>>

\* Steam runs the game once with the new tool.
SteamCreatesPrefix ==
    /\ j.phase = "AWAITING_STEAM_PREFIX" /\ tool # "absent" /\ ~prefix
    /\ prefix' = TRUE
    /\ UNCHANGED <<j, process, files, record, origin, plan, managed, faults>>

\* install-runtime-components accept or rollback, run by hand.
UserRuntime(c) ==
    /\ LeaseFree
    /\ \/ c = "accept" /\ runtime = "installed" /\ runtime' = "accepted"
       \/ /\ c = "rollback" /\ runtime \in Unfinished \ {"bare"}
          /\ runtime' = "rolled_back"
    /\ UNCHANGED <<j, process, files, record, host, helper, tool, tree, licensed, patch,
                   manifest, faults>>

\* The steps of a command under way.
Step(p) ==
    \/ Preparing(p) \/ WriteFile(p) \/ Acquire(p) \/ Baseline(p) \/ Publish(p)
    \/ Record(p) \/ Published(p) \/ Handoff(p)
    \/ FinishLock(p) \/ Planned(p) \/ Installing(p) \/ InstallThreading(p)
    \/ LicensedInstalled(p) \/ InstallRuntime(p) \/ RuntimeReturns(p)
    \/ RuntimeInstalled(p) \/ RuntimeStatusVerified(p) \/ ApplyPatches(p)
    \/ InspectPatches(p) \/ PatchesRecorded(p) \/ Verify(p) \/ Ready(p)
    \/ ResumeLock(p) \/ ResumeReturns(p) \/ LoadLatest(p) \/ Mark(p)
    \/ Preflight(p) \/ Undo(p) \/ RuntimeUndone(p) \/ Undone(p) \/ RolledBack(p)

Next ==
    \/ \E p \in Procs :
          \/ PrepareBegin(p) \/ FinishBegin(p) \/ ResumeBegin(p) \/ RollbackBegin(p)
          \/ Step(p) \/ Crash(p) \/ StepFails(p)
    \/ HelperEnds \/ SteamCreatesPrefix
    \/ \E c \in UserCommands : UserRuntime(c)

Spec == Init /\ [][Next]_vars

\* Commands and installers run to their end, and the user repeats the rollback
\* as long as the transaction is unfinished.
RollbackSpec ==
    /\ Spec /\ WF_vars(HelperEnds)
    /\ \A p \in Procs : WF_vars(Step(p)) /\ SF_vars(RollbackBegin(p))

-----------------------------------------------------------------------------
(* Properties *)

\* Whatever stale copies the processes hold, the durable record only moves along
\* the transition table, never loses a boundary and never forgets the child, the
\* patch backup, the tool or the Finish plan (state.py transition_locked).
RecordOnlyGrows ==
    [][j' # j =>
        /\ j.phase = "NONE" \/ Allowed(j.phase, j'.phase)
        /\ j.done \subseteq j'.done
        /\ j.tool # "none" => j'.tool = j.tool
        /\ (j.finish => j'.finish) /\ (j.child => j'.child) /\ (j.backup => j'.backup)]_vars

\* The durable record covers what is on disk, so that a rollback finds it: nothing
\* of Finish exists before the record names its plan (_has_finish_plan), and from
\* the handoff until a rollback the tool Steam is told to select is there, with the
\* disposition the record gives it.  (The variables keep their types.)
RecordCoversDisk ==
    /\ TypeOK
    /\ licensed # "none" \/ runtime # "none" \/ manifest \/ patch # PatchBefore => j.finish
    /\ j.phase \in {"AWAITING_STEAM_PREFIX", "PLANNED_FINISH", "INSTALLING_FINISH", "READY_TO_ATTEMPT"}
           => tool # "absent" /\ record # "none" /\ record = j.tool

Becomes(phase) == j.phase # phase /\ j'.phase = phase

\* The final phases are true when they are written.  READY_TO_ATTEMPT: everything
\* planned is installed, also after a resume that skips what an interrupted command
\* recorded.  ROLLED_BACK: every owner is back where it was; the one exception is a
\* tool published by a process that exited before it wrote compatibility-tool.json.
FinalPhasesAreTrue ==
    [][/\ Becomes("READY_TO_ATTEMPT") =>
             /\ plan.licensed = "copy" => licensed = "installed"
             /\ plan.runtime = "install" => runtime = "installed" /\ j.child
             /\ patch = "patched" /\ (plan.patch = "apply" => j.backup)
             /\ prefix /\ tool # "absent"
       /\ Becomes("ROLLED_BACK") =>
             /\ licensed \in {"none", "rolled_back"}
             /\ runtime \in {"none", "reserved", "rolled_back"} /\ patch = PatchBefore
             /\ tool = origin \/ (tool = "own" /\ record = "none")]_vars

\* The tool disappears only if this transaction created it, nobody changed it
\* since, and nothing that was installed for it is left: rollback goes in reverse
\* order under the lease.
ToolRemovedLast ==
    [][tool # "absent" /\ tool' = "absent" =>
        /\ origin = "absent" /\ tree
        /\ licensed \in {"none", "rolled_back"}
        /\ runtime \in {"none", "reserved", "rolled_back"} /\ patch = PatchBefore]_vars

\* After ROLLED_BACK only a resume that loaded the journal before it can still
\* publish or install something: a Finish or Prepare that was under way cannot.
\* Without a lease only the runtime changes, by the installer that such a resume
\* left behind when it exited, or by hand.
OnlyStaleResumeAfterRollback ==
    [][j.phase = "ROLLED_BACK" /\ <<tool, licensed, runtime, patch>>' # <<tool, licensed, runtime, patch>>
        => \/ \E p \in Procs : cmd[p] = "resume" /\ lease = p /\ mem[p].phase # "ROLLED_BACK"
           \/ lease = NoOne /\ runtime # "none" /\ UNCHANGED <<tool, licensed, patch>>]_vars

\* What a repeated rollback cannot leave: a tool tree that Finish changed; a tool
\* that the rollback of a Finish removed before it could say so; a licensed copy
\* without a journal, or over a file of somebody else; patches applied in part, or
\* a patch backup over original files; an installer whose rollback has no parents
\* to look in, or that asks for recovery.
Stranded ==
    \/ ~tree
    \/ j.finish /\ tool = "absent"
    \/ licensed \in {"reserved", "recovery_required"}
    \/ patch = "mixed"
    \/ manifest /\ patch = "original"
    \/ runtime \in {"bare", "recovery_required"}

\* A user who keeps asking for the rollback gets it, whatever was interrupted and
\* whoever marked the journal, unless the transaction is stranded for good.
RollbackUnlessStranded ==
    [](j.phase \in Live => <>(j.phase = "ROLLED_BACK" \/ []Stranded))

\* What the recovery tests assert of a finished Finish with a stubbed inspect_fm:
\* all four owners are pending, so a repeated rollback completes.
ReadyRollsBack == j.phase = "READY_TO_ATTEMPT" ~> j.phase = "ROLLED_BACK"
=============================================================================
