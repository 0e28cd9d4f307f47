--------------------------- MODULE BootstrapJournal ---------------------------
(***************************************************************************)
(* The journal of the legacy bootstrap: forza_bootstrap/state.py over      *)
(* safeio.py, as ./setup bootstrap and its read-only commands call it.     *)
(* Every transaction is a directory that is filled under a staging name    *)
(* and published by a rename; its state.json is replaced by compare and    *)
(* swap.  Processes race for bootstrap.lock, exit between any two steps,   *)
(* and a power loss takes the disk back to an image no fsync has covered.  *)
(*                                                                         *)
(* A transaction's contents are its completed_boundaries (who appended     *)
(* what) and whether its phase is terminal.  Directory changes reach the   *)
(* disk in order, and an fsync of a directory covers all earlier ones.     *)
(***************************************************************************)
EXTENDS Naturals, Sequences

CONSTANTS
    Procs,         \* processes that run ./setup
    NoOne,         \* bootstrap.lock when it is free
    MaxIds,        \* bound on the transactions ever reserved
    MaxBoundaries, \* bound on the checkpoints of one transaction
    MaxFaults      \* bound on exits, power losses and failed writes

Ids == 1..MaxIds

ASSUME JournalAssumption ==
    /\ NoOne \notin Procs
    /\ MaxIds \in Nat /\ MaxBoundaries \in Nat /\ MaxFaults \in Nat

VARIABLES
    root,   \* the state root: "absent", "empty", or "used" (bootstrap.lock)
    disk,   \* each transaction's directory, as a process sees it
    past,   \* the images of disk a power loss may bring back
    boot,   \* who holds bootstrap.lock
    journal,\* who holds journal.lock
    pc, op, \* each process: its next step and the command it runs
    mem,    \* the BootstrapState it holds, NoState for None
    new,    \* the id it is creating, recovering or writing, 0 for none
    told,   \* history: the boundaries create and transition have returned
    faults

locks   == <<boot, journal>>
process == <<pc, op, mem, new>>
vars == <<root, disk, past, locks, process, told, faults>>

\* A directory: absent, under its staging name (empty, holding the temporary
\* file, or holding state.json), or under its transaction id.
Places == {"none", "empty", "tmp", "json", "published"}
Prepublication == {"empty", "tmp", "json"}
Contents == [done : Seq(Procs), live : BOOLEAN]
Fresh   == [done |-> <<>>, live |-> TRUE]
Nothing == [at |-> "none", state |-> Fresh]
Images  == [Ids -> [at : Places, state : Contents]]
NoState == [id |-> 0, state |-> Fresh]

LoadSteps   == {"root", "lock", "scan", "sc_sync", "found"}
ReadSteps   == {"list", "rd_lock", "read"}
CreateSteps == {"cr_root", "cr_lock", "cr_scan", "cr_scsync", "cr_found",
                "cr_mkdir", "cr_dir", "cr_temp", "cr_json", "cr_jsync",
                "cr_name", "cr_sync"}
UpdateSteps == {"held", "tr_journal", "tr_compare", "tr_replace", "tr_sync"}

TypeOK ==
    /\ root \in {"absent", "empty", "used"}
    /\ disk \in Images /\ past \subseteq Images
    /\ boot \in Procs \cup {NoOne} /\ journal \in Procs \cup {NoOne}
    /\ pc \in [Procs -> {"idle"} \cup LoadSteps \cup ReadSteps \cup CreateSteps
                               \cup UpdateSteps]
    /\ op \in [Procs -> {"none", "bootstrap", "check"}]
    /\ mem \in [Procs -> [id : Ids \cup {0}, state : Contents]]
    /\ new \in [Procs -> Ids \cup {0}]
    /\ told \subseteq Ids \X Seq(Procs)
    /\ faults \in 0..MaxFaults

Init ==
    /\ root \in {"absent", "empty"}
    /\ disk = [i \in Ids |-> Nothing] /\ past = {}
    /\ boot = NoOne /\ journal = NoOne
    /\ pc  = [p \in Procs |-> "idle"]
    /\ op  = [p \in Procs |-> "none"]
    /\ mem = [p \in Procs |-> NoState]
    /\ new = [p \in Procs |-> 0]
    /\ told = {}
    /\ faults = 0

-----------------------------------------------------------------------------
Set(f, p, v) == [f EXCEPT ![p] = v]
Goto(p, step) == pc' = Set(pc, p, step)

\* os.close of the lock descriptors, in the finally clauses.
Release(p) ==
    /\ boot' = IF boot = p THEN NoOne ELSE boot
    /\ journal' = IF journal = p THEN NoOne ELSE journal

\* The command ends: a BootstrapError, its last step, or the process exits.
Stop(p) ==
    /\ Goto(p, "idle") /\ Release(p)
    /\ op' = Set(op, p, "none") /\ mem' = Set(mem, p, NoState)
    /\ new' = Set(new, p, 0)

\* A change of a directory, not yet covered by an fsync of it.
Change(i, entry) ==
    /\ disk' = [disk EXCEPT ![i] = entry]
    /\ past' = past \cup {disk}
    /\ UNCHANGED <<root, told>>

\* os.fsync of a directory.
Sync == past' = {} /\ UNCHANGED <<root, disk>>

Fault == faults < MaxFaults /\ faults' = faults + 1

Unfinished(image, i) == image[i].at \in {"json", "published"} /\ image[i].state.live

-----------------------------------------------------------------------------
(* acquire_bootstrap_lock and _load_unfinished_transaction_locked, which    *)
(* load_unfinished_transaction and create_transaction share                 *)

\* Two commands of cli.py: bootstrap itself, which has nothing to load where there
\* is no state root, and the ones that only read.
BeginBootstrap(p) ==
    /\ pc[p] = "idle"
    /\ op' = Set(op, p, "bootstrap")
    /\ Goto(p, IF root = "absent" THEN "list" ELSE "root")
    /\ UNCHANGED <<root, disk, past, locks, mem, new, told, faults>>

BeginCheck(p) ==
    /\ pc[p] = "idle"
    /\ op' = Set(op, p, "check") /\ Goto(p, "list")
    /\ UNCHANGED <<root, disk, past, locks, mem, new, told, faults>>

\* ensure_private_directory.
EnsureRoot(p, step, next) ==
    /\ pc[p] = step
    /\ root' = IF root = "absent" THEN "empty" ELSE root
    /\ Goto(p, next)
    /\ UNCHANGED <<disk, past, locks, op, mem, new, told, faults>>

\* The lock file is created where it is missing; the lock never waits.
Acquire(p, step, next) ==
    /\ pc[p] = step
    /\ root' = "used"
    /\ \/ boot = NoOne /\ boot' = p /\ Goto(p, next) /\ UNCHANGED <<journal, op, mem, new>>
       \/ boot # NoOne /\ Stop(p)
    /\ UNCHANGED <<disk, past, told, faults>>

\* Mutant: a staging directory is left alone, whatever it holds.
ScanPublishedOnly(p, step, sync, next) ==
    /\ pc[p] = step
    /\ Goto(p, next)
    /\ UNCHANGED <<root, disk, past, locks, op, mem, new, told, faults>>

\* _recover_prepublication_transaction publishes a staging directory that holds
\* state.json.  An empty one, or one that holds only the temporary file, is
\* passed over and stays.
Scan(p, step, sync, next) ==
    /\ pc[p] = step
    /\ \/ \E i \in Ids :
             /\ disk[i].at = "json"
             /\ Change(i, [disk[i] EXCEPT !.at = "published"])
             /\ Goto(p, sync)
       \/ /\ \A i \in Ids : disk[i].at # "json"
          /\ Goto(p, next)
          /\ UNCHANGED <<root, disk, past, told>>
    /\ UNCHANGED <<locks, op, mem, new, faults>>

ScanSync(p, step, next) ==
    /\ pc[p] = step
    /\ Sync /\ Goto(p, next)
    /\ UNCHANGED <<locks, op, mem, new, told, faults>>

\* What the scan returns, None where every transaction is terminal.
Found == {i \in Ids : disk[i].at = "published" /\ disk[i].state.live}

\* load_unfinished_transaction returns and gives up the lock: the command goes
\* on with the transaction, or with the inspection of a new Prepare.  It raises
\* over more than one.
Loaded(p) ==
    /\ pc[p] = "found"
    /\ \/ \E i \in Ids :
             /\ Found = {i}
             /\ mem' = Set(mem, p, [id |-> i, state |-> disk[i].state])
             /\ Goto(p, "held") /\ Release(p) /\ UNCHANGED <<op, new>>
       \/ Found = {} /\ Goto(p, "list") /\ Release(p) /\ UNCHANGED <<op, mem, new>>
       \/ (\E i, k \in Found : i # k) /\ Stop(p)
    /\ UNCHANGED <<root, disk, past, told, faults>>

Load(p) ==
    \/ EnsureRoot(p, "root", "lock")
    \/ Acquire(p, "lock", "scan")
    \/ Scan(p, "scan", "sc_sync", "found")
    \/ ScanSync(p, "sc_sync", "scan")
    \/ Loaded(p)

-----------------------------------------------------------------------------
(* load_latest_transaction_read_only *)

\* No state, or a state root without entries: there is no transaction.  The
\* read-only commands end, inspect_prepare lets Prepare begin.
ReadDone(p) ==
    \/ op[p] = "check" /\ Stop(p)
    \/ op[p] = "bootstrap" /\ Goto(p, "cr_root") /\ Release(p) /\ UNCHANGED <<op, mem, new>>

ReadList(p) ==
    /\ pc[p] = "list"
    /\ \/ root # "used" /\ ReadDone(p)
       \/ root = "used" /\ Goto(p, "rd_lock") /\ UNCHANGED <<locks, op, mem, new>>
    /\ UNCHANGED <<root, disk, past, told, faults>>

ReadLock(p) ==
    /\ pc[p] = "rd_lock"
    /\ \/ boot = NoOne /\ boot' = p /\ Goto(p, "read") /\ UNCHANGED <<journal, op, mem, new>>
       \/ boot # NoOne /\ Stop(p)
    /\ UNCHANGED <<root, disk, past, told, faults>>

Interrupted == \E i \in Ids : disk[i].at \in Prepublication

\* It refuses any staging directory: "bootstrap state has an interrupted
\* publication; run bootstrap recovery".  inspect_prepare also refuses a
\* transaction that is not ROLLED_BACK.
Read(p) ==
    /\ pc[p] = "read"
    /\ \/ Interrupted /\ Stop(p)
       \/ ~Interrupted /\ Found # {} /\ Stop(p)
       \/ ~Interrupted /\ Found = {} /\ ReadDone(p)
    /\ UNCHANGED <<root, disk, past, told, faults>>

ReadOnly(p) == ReadList(p) \/ ReadLock(p) \/ Read(p)

-----------------------------------------------------------------------------
(* create_transaction *)

\* A transaction that appeared meanwhile is refused; otherwise an unused id is
\* reserved (ids are random tokens: which one is immaterial).
CreateChecked(p) ==
    /\ pc[p] = "cr_found"
    /\ \/ Found # {} /\ Stop(p)
       \/ \E i \in Ids :
             /\ Found = {} /\ disk[i] = Nothing
             /\ \A k \in 1..(i - 1) : disk[k] # Nothing
             /\ new' = Set(new, p, i) /\ Goto(p, "cr_mkdir")
             /\ UNCHANGED <<locks, op, mem>>
    /\ UNCHANGED <<root, disk, past, told, faults>>

\* mkdir of the staging directory, and the fsync of the root.
CreateStaging(p) ==
    /\ pc[p] = "cr_mkdir"
    /\ Change(new[p], [Nothing EXCEPT !.at = "empty"])
    /\ Goto(p, "cr_dir")
    /\ UNCHANGED <<locks, op, mem, new, faults>>

CreateTemporary(p) ==
    /\ pc[p] = "cr_temp"
    /\ Change(new[p], [Nothing EXCEPT !.at = "tmp"])
    /\ Goto(p, "cr_json")
    /\ UNCHANGED <<locks, op, mem, new, faults>>

\* The write fails: atomic_write_private_json removes its temporary file,
\* nothing removes the staging directory.
CreateFails(p) ==
    /\ pc[p] = "cr_json" /\ Fault
    /\ Change(new[p], [Nothing EXCEPT !.at = "empty"])
    /\ Stop(p)

CreateJson(p) ==
    /\ pc[p] = "cr_json"
    /\ Change(new[p], [Nothing EXCEPT !.at = "json"])
    /\ Goto(p, "cr_jsync")
    /\ UNCHANGED <<locks, op, mem, new, faults>>

CreateName(p) ==
    /\ pc[p] = "cr_name"
    /\ Change(new[p], [disk[new[p]] EXCEPT !.at = "published"])
    /\ Goto(p, "cr_sync")
    /\ UNCHANGED <<locks, op, mem, new, faults>>

CreateReturn(p) ==
    /\ pc[p] = "cr_sync"
    /\ Sync
    /\ told' = told \cup {<<new[p], <<>>>>}
    /\ mem' = Set(mem, p, [id |-> new[p], state |-> Fresh])
    /\ Goto(p, "held") /\ Release(p) /\ new' = Set(new, p, 0)
    /\ UNCHANGED <<op, faults>>

Create(p) ==
    \/ EnsureRoot(p, "cr_root", "cr_lock")
    \/ Acquire(p, "cr_lock", "cr_scan")
    \/ Scan(p, "cr_scan", "cr_scsync", "cr_found")
    \/ ScanSync(p, "cr_scsync", "cr_scan")
    \/ CreateChecked(p)
    \/ CreateStaging(p)
    \/ ScanSync(p, "cr_dir", "cr_temp")
    \/ CreateTemporary(p) \/ CreateJson(p)
    \/ ScanSync(p, "cr_jsync", "cr_name")
    \/ CreateName(p) \/ CreateReturn(p)

-----------------------------------------------------------------------------
(* transition, transition_locked and load_transaction *)

\* load_transaction: the durable state of the transaction the process holds.
Reload(p) ==
    /\ pc[p] = "held" /\ boot = NoOne
    /\ mem[p].state # disk[mem[p].id].state
    /\ mem' = Set(mem, p, [mem[p] EXCEPT !.state = disk[mem[p].id].state])
    /\ UNCHANGED <<root, disk, past, locks, pc, op, new, told, faults>>

\* transition: a terminal state or a full list of boundaries has no successor;
\* journal.lock is only ever waited for under bootstrap.lock.
TransitionLock(p) ==
    /\ pc[p] = "held"
    /\ mem[p].state.live
    /\ \/ boot = NoOne /\ boot' = p /\ Goto(p, "tr_journal")
          /\ UNCHANGED <<journal, op, mem, new>>
       \/ boot # NoOne /\ Stop(p)
    /\ UNCHANGED <<root, disk, past, told, faults>>

TransitionJournal(p) ==
    /\ pc[p] = "tr_journal" /\ journal = NoOne
    /\ journal' = p /\ Goto(p, "tr_compare")
    /\ UNCHANGED <<root, disk, past, boot, op, mem, new, told, faults>>

\* Mutant: a stale copy of the state is good enough.
TransitionCompareNothing(p) ==
    /\ pc[p] = "tr_compare"
    /\ Goto(p, "tr_replace")
    /\ UNCHANGED <<root, disk, past, locks, op, mem, new, told, faults>>

TransitionCompare(p) ==
    /\ pc[p] = "tr_compare"
    /\ \/ /\ disk[mem[p].id].state = mem[p].state
          /\ Goto(p, "tr_replace") /\ UNCHANGED <<locks, op, mem, new>>
       \/ disk[mem[p].id].state # mem[p].state /\ Stop(p)
    /\ UNCHANGED <<root, disk, past, told, faults>>

\* _updated_state appends a boundary or enters ROLLED_BACK; os.replace.
TransitionReplace(p) ==
    /\ pc[p] = "tr_replace"
    /\ \E next \in {[mem[p].state EXCEPT !.done = Append(@, p)],
                    [mem[p].state EXCEPT !.live = FALSE]} :
          /\ Len(next.done) <= MaxBoundaries
          /\ Change(mem[p].id, [disk[mem[p].id] EXCEPT !.state = next])
          /\ mem' = Set(mem, p, [mem[p] EXCEPT !.state = next])
    /\ Goto(p, "tr_sync")
    /\ UNCHANGED <<locks, op, new, faults>>

TransitionReturn(p) ==
    /\ pc[p] = "tr_sync"
    /\ Sync
    /\ told' = told \cup {<<mem[p].id, mem[p].state.done>>}
    /\ Goto(p, "held") /\ Release(p)
    /\ UNCHANGED <<op, mem, new, faults>>

\* The command has done its work, or raised outside state.py.
End(p) ==
    /\ pc[p] = "held"
    /\ Stop(p)
    /\ UNCHANGED <<root, disk, past, told, faults>>

Update(p) ==
    \/ Reload(p) \/ TransitionLock(p) \/ TransitionJournal(p)
    \/ TransitionCompare(p) \/ TransitionReplace(p) \/ TransitionReturn(p)

-----------------------------------------------------------------------------
Crash(p) ==
    /\ pc[p] # "idle" /\ Fault
    /\ Stop(p)
    /\ UNCHANGED <<root, disk, past, told>>

PowerLoss ==
    /\ Fault
    /\ disk' \in past \cup {disk} /\ past' = {}
    /\ boot' = NoOne /\ journal' = NoOne
    /\ pc'  = [p \in Procs |-> "idle"]
    /\ op'  = [p \in Procs |-> "none"]
    /\ mem' = [p \in Procs |-> NoState]
    /\ new' = [p \in Procs |-> 0]
    /\ UNCHANGED <<root, told>>

Continue(p) == Load(p) \/ ReadOnly(p) \/ Create(p) \/ Update(p) \/ End(p)

Next ==
    \/ \E p \in Procs : \/ BeginBootstrap(p) \/ BeginCheck(p) \/ Continue(p)
                        \/ CreateFails(p) \/ Crash(p)
    \/ PowerLoss

Spec == Init /\ [][Next]_vars

\* A running command goes on.  Someone keeps running ./setup bootstrap, again
\* after it was refused, and the read-only commands do not take the lock in
\* between for ever.
FairSpec ==
    /\ Spec
    /\ \A p \in Procs : WF_vars(Continue(p)) /\ SF_vars(BeginBootstrap(p))
    /\ <>[][\A p \in Procs : ~BeginCheck(p)]_vars

-----------------------------------------------------------------------------
(* Correctness *)

\* There is one unfinished transaction at most, published or recoverable from
\* its staging directory, in the disk image of every moment a power loss can
\* return to: "multiple unfinished bootstrap transactions" is never raised.
OneUnfinished ==
    \A image \in past \cup {disk}, i, k \in Ids :
        Unfinished(image, i) /\ Unfinished(image, k) => i = k

IsPrefix(s, t) == Len(s) <= Len(t) /\ s = SubSeq(t, 1, Len(s))

\* What create_transaction and transition have returned to a process stays:
\* its boundaries are a prefix of the durable ones in every image a power loss
\* can return to, whoever has written since.
ReportedStays ==
    \A image \in past \cup {disk}, t \in told :
        /\ image[t[1]].at \in {"json", "published"}
        /\ IsPrefix(t[2], image[t[1]].state.done)

\* An interrupted creation that got as far as a staging directory nothing will
\* ever fill.
Stranded ==
    \E i \in Ids : /\ disk[i].at \in {"empty", "tmp"}
                   /\ \A p \in Procs : new[p] # i

\* Whatever interrupted it, a recorded transaction is published by the next
\* ./setup bootstrap, and only a staging directory without state.json can keep
\* the read-only commands refusing.
RecoversUnlessStranded ==
    /\ \A i \in Ids : (disk[i].at = "json") ~> (disk[i].at # "json")
    /\ Interrupted ~> (~Interrupted \/ Stranded)

\* "bootstrap state has an interrupted publication; run bootstrap recovery":
\* running ./setup bootstrap again ends the interruption it is refused for.
InterruptionRecovers == Interrupted ~> ~Interrupted
=============================================================================
