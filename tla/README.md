# A TLA+ model of the Forza Motorsport Linux installer

The repository installs what the game needs on Linux: a complete Proton tool, a
private copy of a licensed DLL in the Steam prefix, and a set of runtime files
(launcher, systemd unit, Wine modules). It never edits a file in place. Every
change is a *journalled transaction*: an intent is made durable, files move by
`renameat2(RENAME_NOREPLACE)`, and after an interruption a command is run again
and infers from journal and file names what already happened. That is the part
no test enumerates, and the part this project models.

## 1. Inventory

| Component | Code | State it keeps | Operations |
|---|---|---|---|
| Composed setup (parent) | `forza_bootstrap/composed_setup.py` | `active.json`, `state.json` (phase, finish plan), private helper/bundle/stage | Prepare, Finish, Rollback, status |
| Tool publication | `composition.py`, `proton.publish_fm` | `tool-publication.json` (phase, inode), stage and public directory | publish_composed, rollback_composed |
| Licensed copy | `licensed.py` | journal status, five names in one directory | install_threading_copy, rollback_threading_copy |
| Runtime installer | `scripts/install-runtime-components` | journal state, operation, reload flag, a phase and three names per role | install, rollback, accept, restore-runtime, uninstall, status |
| Legacy coordinator | `coordinator.py`, `cli.py` | v1 bootstrap journal, snapshots | prepare, finish, resume, rollback |
| Bootstrap journal | `state.py`, `safeio.py`, `model.py` | one directory with a `state.json` per transaction, `bootstrap.lock`, `journal.lock` | create, load, transition (compare and swap), prepublication recovery, read-only load |
| Launcher | `bin/forza-linux`, `config/xodus-forza.service` | lease on `forza-linux.lock`, a pending and an active ownership token, the service | launch, refuse, clean up |
| Runtime journal selection | `scripts/install-runtime-components`, `coordinator._probe_runtime_children` | the states of all runtime transactions | which transaction a command takes, which states block |
| Inputs of Prepare | `artifacts.py`, `proton.acquire_ge` and the two tree copies, `container_build.publish_container_output` | archive, extracted tree, staged tool, source-output | download, extract, copy, publish, take back |
| Known-build patcher, user files | `scripts/patch-known-build`, `scripts/secure-user-files` | manifests, backups | patch, restore, install, uninstall |
| Container image, snapshots, contracts, doctor, tools | `container_build.py`, `snapshot.py`, `release.py`, `manifest.py`, `platform_check.py`, `bin/forza-doctor`, `tools/` | caches or none | build, capture, verify, diagnose |

How they interact. The parent holds the launcher lease (`flock` on
`forza-linux.lock`) and drives three children in a fixed order: Prepare publishes
the tool; Steam then creates the prefix; Finish installs the licensed copy by a
call and the runtime files by a *subprocess that inherits the lock descriptor*;
Rollback undoes runtime, copy and tool in reverse. Each child has its own
journal, so the parent asks the child what happened instead of remembering it.
The user can also run the runtime installer by hand. The launcher refuses to
start while the lease is held or a runtime journal is unfinished.

What is hard: exits between a rename and the journal write that records it;
a child process that outlives its parent or is killed by a 180 s time-out; other
programs that change a name between a check and the rename; an fsync or a
`systemctl daemon-reload` that fails half way; the order of three children over
several interrupted commands; recovery commands that select their work by
recorded state; a launcher that is killed while its service or its game goes on; a
power loss that takes back what no fsync has covered. `PROJECT.json` lists each hazard with its line and the
properties aimed at it.

What makes each component correct: a change is visible only while a journal owns
it; a journal that claims a final state tells the truth; no file of the user or
of another program is destroyed; and every interruption can be left by running a
command again.

## 2. Modules

| Module | Models |
|---|---|
| `OwnedChange` | what every journalled change promises (abstract) |
| `ToolPublication` | one tool transaction; two names, one journal, an inode |
| `ToolPublicationProofs` | its theorems |
| `LicensedCopy` | one copy transaction; five names |
| `LicensedCopyProofs` | its theorems |
| `RuntimeTransaction`, `MCRuntimeTransaction` | one transaction of the runtime installer; N ordered roles, three names each |
| `RuntimeTransactionProofs` | its theorems |
| `ComposedSetup` | the parent over three `OwnedChange` children, with the helper process and the lease |
| `ComposedSetupProofs` | its theorems |
| `Coordinator`, `MCCoordinator` | the legacy `./setup bootstrap`: several processes, one journal, stale copies |
| `CoordinatorProofs` | its theorems |
| `BootstrapJournal` | the journal below it: transaction directories, two locks, fsyncs, power losses |
| `BootstrapJournalProofs` | its theorems |
| `PrepareInputs` | archive, extracted tree and staged tool, in the five ways Prepare obtains them |
| `PrepareInputsProofs` | its theorems |
| `LauncherLease` | launchers, service and tokens against all commands, over all runtime journals |
| `LauncherLeaseProofs` | its theorems |

**OwnedChange.** `st` goes none, open, live, open again, undone; `shown` (does a
managed file differ from what was there?) may change only while `st` is open, and
`undone` needs `~shown` and is final. The tool, copy, runtime and composed modules have an
`INSTANCE OwnedChange` with a refinement mapping and check the abstract `Spec` as
a property. `ComposedSetup` uses the same steps for its children (`Forward`,
`Backward`), so the composition rests on what the child modules are shown to
implement. The runtime child's `shown` stands for all its files together.

**ToolPublication.** `journal` is `tool-publication.json`, `at` the directory
under the stage and the public name, `tree` whether `inspect_composed_fm` would
accept its contents, `held` the descriptor `publish_fm` keeps open. Each check and
each rename is one action; `pc` is the program point between them. Every refusal
(`Refuse`) is a raise before anything durable changed. `world` fixes, per
behaviour, what the environment may do: `alone`, `failing` (the fsync after the
publishing rename may fail), `between` (other programs act while no command
runs), `racing` (at any time). The stage lies in a mode-0700 directory of the
transaction; other programs are assumed not to rename *it* while a command runs.

**LicensedCopy.** File contents are a small alphabet in which two contents are
equal iff bytes and mode are. The plan's disposition (create, replace, keep)
follows from `before`. The journal has no phase for a rollback in progress: the
parent's ROLLING_BACK is the durable intent, which the model keeps as `withdrawn`.
Check, rename and the check after it are steps of their own (`BackUp`,
`MoveToBackup`, `BackedUp`; `RollbackHold`, `RollbackMove`, `RollbackHeld`), so that a
racing edit can make the rename take another file than the one checked.

**RuntimeTransaction.** Roles are numbered in `INSTALL_ORDER`; role 1 is the
launcher gate, `Unit` the systemd unit, `Wine` the roles `restore-runtime`
touches. `stage_transaction`, `install_record`, `rollback_records` and
`restore_record` are split at the check of the destination, at every rename and at
every journal write. `cur`,
`roles`, `loop`, `ok`, `same` are the locals of the running command and are lost
on an exit. Evidence locks, the plan and the bundle are inputs.

**ComposedSetup.** `phase` and `finish` are the parent's journal; `st` and `shown`
the children; `proc` the helper process. `LeaseFree` holds only when neither
command nor helper runs. `ParentDies` leaves the helper running; `TimeOut` kills
it first, as `subprocess.run` does. `prefix`, `bound` and `clean` are what
`_prefix` and the plan check on the host. Children do not always come back: `damage`
holds what an interruption can leave that their own recovery refuses, as the child
modules show it: parent directories that do not exist yet (`bare`, finding 2), a
runtime directory without its journal (`husk`), a tool that the failed fsync took
(`lost`, finding 1). `foreign` is a runtime transaction of another owner. That nobody
else edits the licensed copy is assumed here. One transaction is followed from its
creation to ROLLED_BACK.

**Coordinator.** `j` is the durable `BootstrapState`; `mem[p]` the copy process `p`
loaded, `pc[p]` its next step. Every write of `j` is `Swap`: it succeeds only if
`j = mem[p]` and the transition table allows it, and it may fail because another
process holds the bootstrap lock. `Raise` is where the commands differ: prepare
and finish just end, rollback marks RECOVERY_REQUIRED from the copy it holds,
resume drops the lease, loads the latest journal and marks *that*, whoever is
working on it. Finish and resume load the journal before they take the lease, as
the code does. `tree` is the whole-tree digest of `inspect_fm`; the runtime
installer and the patcher make it false, and since their stages, backups and
markers stay in the tool it never becomes true again. The copy, the installer and
the patcher are their journal states here (their protocols are modelled by
`LicensedCopy` and `RuntimeTransaction`; the patcher's has no module), those included
that their rollback refuses: a copy directory without a journal or one in
`recovery_required`, an installer without a journal (`reserved`) or without parent
directories (`bare`). The rollback waits for the installer that undoes the runtime
(`undo_wait`); it inherits the lease, may fail half way and may outlive the rollback.
The patcher replaces its targets one by one and writes its manifest last, so
`PatchStatus` can meet mixed targets, a missing backup, or no target at all once the
tool that holds two of them is gone. A prepare that
creates the tool is only possible for transactions of v0.2: `inspect_prepare` no
longer starts one with the pinned GE release, but resume and rollback still serve
them. Boundaries no command reads are merged with the next one; `plan.json` and
`prepare-plan.json` are one file.

**BootstrapJournal.** `disk` is each transaction's directory as a process sees it:
absent, under its staging name (empty, with the temporary file, with `state.json`)
or published; its contents are `completed_boundaries` (who appended what) and
whether the phase is terminal. `past` holds the images a power loss may bring
back; a change adds the image before it and an fsync empties it. `LoadSteps` are
`load_unfinished_transaction`, `ReadSteps` `load_latest_transaction_read_only`,
`CreateSteps` `create_transaction`, `UpdateSteps` `transition`; both callers of the
scan share `Scan`, which publishes a staging directory that holds `state.json` and
passes over any other. A lock that is taken ends the command, as `LOCK_NB` does.
`Coordinator` uses this journal as one compare and swap, with the transition table
that is left out here.

**PrepareInputs.** A name holds nothing, a part, a complete but unapproved copy
(`other`), the pinned contents, or an object of another program (`Foreign`; those
in `Twins` happen to have the pinned contents). `mode` is where the inputs come
from: `composed` (helper, user bundle, extracted tree, stage), `ge` (ProtonUp's
archive), `download`, `source` (a container build) or `local` (an archive on the
command line). `InPlace` tells the names that are written where they stay from
those that `download_once` and `_extract_and_publish` fill under a private name and
publish by a rename; only the latter have the steps publish, verify, sync, undo
and restore. `src` is the archive held open, so that a replaced archive is not what
is extracted. `Synced` records which copies the code makes durable before their
name is used: not the copied user bundle, the legacy stage or ProtonUp's archive. A stage
from an earlier process is inspected but not made durable again, which is why
`OnlyPinnedAppears` speaks only of a stage the process has made itself.

**LauncherLease.** A runtime transaction is its state and its recorded recovery
operation; there are any number of them, and `Matches`, `ReserveId`, `SetupProbe`
and `ReadJournals` are what each command and the launcher select or refuse.
`lease` is the lock. A launcher goes from the journals to the service, places its
pending token, starts the service (whose `ExecStartPre` turns the token into the
active one, and fails without it), captures the token, waits for the socket, plays
without giving up the lease, stops the service if it is its own and removes its
tokens. `Kill` is a SIGKILL: game and service go on, and a `systemctl start` that
was under way holds the inherited lease until it ends (`orphan`). `Signal` is an INT,
TERM or HUP at any step, after which the EXIT trap cleans up with the `started_here`
of that moment; one that ends `systemctl start` leaves its job to systemd (`boot`), as
does a start by hand. A game that Proton is
still starting has no process that the installer's probe would find. `dirs` tells
whether all parent directories exist; until a staging has made them, an interrupted
transaction's rollback raises. `seen` records which accidents happened, so that the
properties can name them: `kill`; `end` of the service; `hand` (a start by hand);
`boot` (a start job that lost its `systemctl`); `cut` (a signal before `started_here`
is set, or in the cleanup); `loose` (a signal that spares the game).

Operators whose comment starts with "Mutant:" are deliberate faults. No
specification uses them; each is put in the place of the definition it imitates to
confirm that a property notices.

## 3. Runs

| Run | Shows |
|---|---|
| `tool_publication` | In every world the journal is bound to the staged directory (`OwnsOnlyItsStage`), no directory is lost (`NothingLost`), a withdrawn tool stays withdrawn and `rolled_back` is written only with the own tool in its stage. Without races a foreign tool stays and the phase is true. Alone, it implements `OwnedChange` and reruns settle it. |
| `tool_fsync` | *violation*: see finding 1. |
| `licensed_copy` | `rolled_back` and `installed` are true when written; a kept file is never moved; no file is lost even under races; alone, rollback converges without the licensed input and the copy implements `OwnedChange`. |
| `runtime_faults` | Up to three exits, failed writes or failed reloads: whenever a managed file differs the gate is in place; the gate is released only after the reload; final states tell the truth, and `restore-runtime` touches Wine files only; recovery converges once the parent directories exist; the transaction implements `OwnedChange`. In the racing world, with edits between any two renames, no content is destroyed. |
| `runtime_parents` | *violation*: finding 2. |
| `composed_setup` | The tool is visible whenever a file that needs it is; one writer at a time; READY_TO_ATTEMPT only over three complete children; ROLLING_BACK is final; the whole implements `OwnedChange`; the setup can always be left except in the states of `Stranded`: a recorded Finish whose prefix is no longer accepted or whose runtime directory cannot be read, a runtime child accepted by hand, a lost tool, an open runtime child without parent directories. |
| `coordinator` | Two processes run any of the four commands at any time: the journal only grows and covers what is on disk, its final phases are true when written, the tool goes last, after ROLLED_BACK only a resume that loaded the journal earlier, or the installer it left behind, still changes something, and a repeated rollback completes except in the states of `Stranded`: a changed tool tree, a tool removed before the rollback of a Finish could say so, a copy without a journal or in `recovery_required`, patches applied in part, a backup over original files, an installer without parents or in `recovery_required`. Dropping any one of them makes the run fail. |
| `coordinator_rollback` | *violation*: finding 3. |
| `bootstrap_journal` | Two processes create, recover, read and advance transactions. In every image a power loss can return to there is one unfinished transaction at most, and whatever `create_transaction` or `transition` has returned is a prefix of what is recorded. A recorded transaction is published by the next bootstrap. |
| `bootstrap_staging` | *violation*: finding 4. |
| `prepare_inputs` | A name published by a rename holds pinned contents or nothing of Prepare's, through races and power losses; a failed publication takes back only its own object; repeating Prepare completes it, except over the legacy leftovers of `Wedged`. |
| `launcher_lease` | No file changes under a game or its service and no game starts over a half-changed installation, apart from named accidents; one unsettled transaction; a session leaves neither service nor token, however it ends, unless something was killed, others started or ended the service, or a signal came during `systemctl start`, before `started_here` was set or in the cleanup; the recovery commands unblock the launcher except over a directory without a journal, with two transactions to roll back, or without parent directories. |

**Bounds.** Three directories: the own one, one that can stand in its place and
one more to replace that. Three roles: gate, unit and a Wine file; the code treats
all others alike, and three give a first, a middle and a last role. Two or three
exits: the first interrupts a command, the second its recovery, the third the
recovery of the recovery; journals record nothing about earlier interruptions, so
a further one starts from a state already seen. Two or three foreign edits: a file
is replaced, and the replacement is replaced or removed. `composed_setup` allows four faults
so that an install, its own revert, and two rollbacks can each fail.
`coordinator` uses two processes (a stale copy needs one other writer), both
origins of the tool, four of the eight plans (everything; all but the copy, the
shortest way to an installer that outlives a stale resume; the patches alone, since
the runtime hides what they do to the tool; nothing) and two faults: one interrupts a command, one its recovery.
`bootstrap_journal` has two processes, two transaction ids (one interrupted, one
created after it) and one boundary, enough for a stale copy to be one write behind;
two faults are a lost write and an exit in its recovery. `prepare_inputs` has the
user's archive and two foreign objects, one with the pinned contents and one
without, so that a replacement can be replaced, and three faults. `launcher_lease`
has two launchers (one killed, one that meets what it left), one command at a time
(the lease admits no second one) with any number after it, two
transactions (the rules are about one beside another) and two faults: no named
accident takes more.
Deadlock is not checked: an operator may stop for good after any command.

**Fairness.** A running command takes its next step (a process that exits does so
by a `Crash`, which the bounds limit). The operator reruns the recovery command of
an unfinished transaction, which the error messages ask for; in
`ToolPublication` which command is left open. In `ComposedSetup` the rollback is
strongly fair because host changes may disable it in between, in `Coordinator`
because other commands take the lease. In `BootstrapJournal` `./setup bootstrap` is
repeated by each process even though it may be refused in between (strong fairness),
and the read-only commands, which never wait for the lock but hold it, are not run
for ever. In `PrepareInputs` Prepare is repeated, and a composed transaction that
keeps being refused is at some point rolled back. In `LauncherLease` games and
the service end at some point (the commands refuse while they run, and their
messages ask the user to stop them) and the user repeats both recovery commands.
Nothing is assumed of Steam, of users' other commands or of other programs.

## 4. Proofs

`ToolPublicationProofs` proves, for any set of directories, any bound on exits and
every set of worlds:

- `TypeCorrect`: `Spec => []TypeOK`;
- `Ownership`: the journal is only ever bound to the staged directory;
- `WithdrawalIsPrivate`: `rolled_back` is written only with that directory back in
  the stage, whatever races the rollback;
- `PublisherLosesNothing`: no step of the publisher loses a directory or deletes
  one that is not its own;
- `PublicationImplements`: without foreign programs and failing fsyncs the
  publication implements `OwnedChange`;
- `OthersToolStays`, `PhaseIsTrue`: without races, a tool of another program stays
  where it is, and the phases published and rolled_back are true when written;
- `WithdrawalIsForGood`: after the rollback intent nothing becomes public again.

None of them but the first is inductive. `IInv` adds what the program points know:
a running command past its first check has a journal (`Recorded`); before there is
one the stage holds the staged directory or nothing (`StageIsOurs`); the
descriptor in hand is the staged directory (`HeldIsOurs`), which is why the intent
can only bind to it; the last write of a rollback follows a check that the bound
directory is in the stage (`CommitsFromStage`), where no one else renames it; and
only the own directory was ever deleted (`OnlyOursDeleted`). The refinement also
needs that each program point fixes the journal phase (`PhaseOfStep`) and that the
directory has one name (`OnePlace`). `OthersToolStays` and `PhaseIsTrue` need
`Calm`: unless another program may race the command, what its last check found at
the two names is still there (`Public`, `Private`). The assumptions are those of
`ConstantsAssumption`: the staged directory is one of the directories and the two
"absent" values are not.

`ComposedSetupProofs` proves, for every set of dispositions, user commands and
host changes and any bound on faults:

- `ToolFirstAndLast`: a file that needs the tool is visible only while the tool is;
- `SingleWriter`: command and helper never write at the same time;
- `ReadyIsComplete`: READY_TO_ATTEMPT is written only over three complete children;
- `WithdrawalStands`: ROLLING_BACK leads only to ROLLED_BACK;
- `SetupImplementsOwnedChange`: the setup as a whole implements `OwnedChange`.

The invariant here says how far the children are in each step of the parent.
`FinishProgress` and `RollbackProgress` give, per step, the states the children
can have, also when one of them cannot be undone and the command stops there; `ToolUnderneath` ties the tool to the other two; `InstallingUnderFinish`
and `FinishRecorded` say that no child starts before its plan is durable;
`PhaseOfStep` and `ProcessOfStep` tie the running command to journal and helper;
`ShownIsOwned` excludes a visible file under a child that was never opened.

`LauncherLeaseProofs` proves, for any number of launchers, commands and
transactions and any bound on faults, from `LeaseAssumption` alone (launchers,
commands and "no one" are different):

- `Inductive`: `Spec => []IInv`, the type invariant included;
- `InstallerApart`: `GameAndInstallerApart`;
- `SingleUnsettled`: `OneUnsettled`;
- `SessionsEndClean`: `SessionLeavesNothing`.

A command looks for a service and a game once (an install twice) and then works
for a long time, and a launcher reads the journals once and then plays: each relies
on the other not getting in between. `Holder` (whoever is between its first and its
last step holds the lease) carries both. For the first, `QuietSince` keeps the
result of the check for as long as the command runs; a game it did not see was
still starting, which `GamesPlayed` and `GamesServed` trace to a killed launcher
and an ended service or to a signal that spared the game, and `BootKnown` says that a
service can appear later only from a start job that nobody waits for. `OthersGames` is needed
because a launcher stops the service it has started: nobody else's game may hang on
it. For the second, `JournalsRead`; for `OneUnsettled`, `WorksOn` (the transaction a
command works on is in the state it left it in) and `RestoredKept`. `Unbroken` says
what service and tokens are at each step of a launcher while no accident but a game
let loose has happened: at every step that a signal can end, what is there is what the
cleanup with the present `started_here` removes. Where that is not so (between the
service's start and the assignment) the signal is one of the named accidents.

`RuntimeTransactionProofs` proves, for any number of roles in any directories, any
choice of the unit and the Wine roles, any files present and any bound on exits,
failed writes, failed reloads and edits (`ConstantsAssumption`: the gate is none of
those roles, the unit is not a Wine role):

- `Inductive`: `Spec => []IInv`, the type invariant included;
- `GateAlwaysGuards`: `GateGuardsMutation`;
- `FinalStates`: `FinalStatesAreTrue`;
- `NothingLost`: `NoContentLost`, also in the racing world;
- `GateWaitsForReload`: `GateReleasedAfterReload`;
- `RuntimeImplements`: left alone, the transaction implements `OwnedChange`.

The invariant has two halves. What holds in every world is about the installer
alone: state and program point agree (`Control`), the recorded operation gives the
roles (`Recovery`), and the names a command is about to fill are free
(`FreshNames`, `Unstaging`), which is why no rename lands on a file. Where nobody
else writes, `Shape` gives the three ways the names of a role can stand under each
recorded phase: the phase is never more than one rename behind, so an interrupted
recovery starts from one of the same shapes. `Staging`, `Installing` and `Restoring`
say how many roles are through; the gate is guarded because roles are restored from
the last to the first, and everything above the current one already has its original.

`LicensedCopyProofs` proves, for any destination, any worlds and any edits and exits
(`ConstantsAssumption`): `Inductive`; `JournalIsTrue` (`JournalTellsTheTruth`);
`NothingLost` (`NoFileLost`, in every world); `CopyImplements`
(`CopyIsOwnedChange`). `NotKept` says that no command gets past its first look with a
kept file, `Prepared` that the previous file is under the backup name before the
copy is published; `Undisturbed` is what a command has seen and still holds unless it
is raced, `Alone` that the status is true between commands.

`BootstrapJournalProofs` proves, for any set of processes and any bounds
(`JournalAssumption`: "no one" is not a process):

- `NeverTwoUnfinished`: `OneUnfinished`, in every image a power loss may bring back;
- `ReturnedIsDurable`: `ReportedStays`;
- `BootstrapLockExcludes`: no two processes are between taking and releasing
  `bootstrap.lock`;
- `Inductive`, on which they rest.

`Exclusive` ties the steps under `bootstrap.lock` to its holder. `Checked` keeps what
`create_transaction` found (no unfinished transaction) until its own `state.json`
exists, `Creating` and `Holding` keep how far the new directory is and that what was
compared is what will be replaced. Both promises speak of all images, not of the
current one: each change is shown to add only images that keep them, and an fsync
only removes some.

`PrepareInputsProofs` proves, for any foreign objects and any bound on faults
(`InputsAssumption`: the user's archive has the pinned contents, foreign objects are
none of Prepare's):

- `RenamedNamesArePinned`: `OnlyPinnedAppears`;
- `ForeignSurvives`: `NothingForeignDestroyed`;
- `Inductive`, on which they rest.

`TempIsPinned` carries the first: only approved contents reach the rename, since the
archive is scanned under the identity that was hashed. `PastIsOwn` carries the
second: a power loss puts nothing back over an object that came later.
`StagedIsFinal` keeps the composed stage once it is made.

`CoordinatorProofs` proves, for any number of processes, every set of plans, both
origins and any bound on faults (`CoordinatorAssumption`):

- `RecordCovers`: `RecordCoversDisk`;
- `RecordGrows`: `RecordOnlyGrows`;
- `FinalPhases`: `FinalPhasesAreTrue`;
- `ToolGoesLast`: `ToolRemovedLast`;
- `OnlyStaleResumes`: `OnlyStaleResumeAfterRollback`;
- `Inductive`, on which they rest.

What a process does follows from a copy it loaded before it had the lease, so the
invariant says of each process what it may still rely on. `Copies`: its copy is well
formed, has a phase that fits the step, and the durable record is a later one
(`Behind`); for prepare, rollback and an installing Finish it is the copy itself, but
for a mark of RECOVERY_REQUIRED that a resume may set without the lease (`Fresh`). A
resume has only `Behind`, which is why it alone can act on a stale record. `Disk`
relates the record to what is installed, and `Established` (`Knows`) is what the holder
of the lease has found or done and nobody else can undo. `OnlyStaleResumes` also
needs `Held`: whoever has the lease is at a step that holds it.

Two proofs failed for a good reason and corrected the project. In `BootstrapJournal`,
`BeginBootstrap` went on to the lock where `load_unfinished_transaction` returns at
once because there is no state root (`state.py`). And `OnlyStaleResumeAfterRollback`
forgot the installer that outlives a stale resume: it goes on without a lease after
ROLLED_BACK, which none of the run's plans had shown; the property names it now, and
the run has a plan that reaches it.

With these, every safety property and every refinement a passing run checks is also a
theorem. Only model-checked: liveness (`IntentResolves`, `RecoversWithParents`,
`RollbackConverges`, `SettlesUnlessStranded`, `RollbackUnlessStranded`,
`RecoversUnlessStranded`, `CompletesUnlessWedged`, `UnblocksUnlessStranded`), since
fairness and ENABLED are outside the prover, and the four runs that show a violation.
Type invariants are not properties of the runs of their own: each is part of the
inductive invariant of its module and proved with it.

## 5. Findings

1. `publish_fm` deletes the published tree when the fsync after the rename fails,
   under a journal that says planned; publish and rollback then both refuse for
   ever (`tool_fsync`).
2. `restore_record` opens parent directories without creating them: an interrupted
   staging on a system without them cannot be rolled back (`runtime_parents`).
3. The legacy rollback compares the whole tool tree with the digest recorded at
   publication, but Finish installs two runtime files and two patches in that tree:
   after such a Finish no rollback can complete (`coordinator_rollback`). The tests
   that expect all four owners to be pending replace `inspect_fm` by a stub. For
   the same reason Finish fails its own next `validate_prefix` after installing the
   runtime; only a resume, which validates once at its start, gets to
   READY_TO_ATTEMPT.
4. An exit between the `mkdir` of a bootstrap staging directory and its
   `state.json` leaves a directory that nothing removes; the read-only commands and
   the inspection before every Prepare then refuse with "run bootstrap recovery",
   and that recovery does not help (`bootstrap_staging`).

Where no line of the repository promises otherwise, a limit the model met is named
inside the property instead of being reported:

- an exit between the `mkdir` of a runtime transaction and its first journal leaves
  a directory on which the launcher and every command refuse, and an interrupted
  install beside a transaction in `runtime_restored` gives `rollback` two matches, so
  that it takes neither; an install interrupted before its parent directories exist
  (finding 2) blocks the launcher as well (`Stranded` in `LauncherLease`);
- a signal that the launcher takes while `systemctl start` runs, or before
  `started_here=1`, runs the EXIT trap with `started_here=0`: service and active token
  stay, and the next launch finds a service it does not own (`SessionLeavesNothing`);
- a launcher killed while Proton is still starting the game, followed by the end of
  the service, lets an installer work beside that game, as does a HUP that ends the
  launcher and its service but not its game; a start job that nobody waits for does
  the same with the service (`GameAndInstallerApart`);
- a runtime child accepted by hand can be neither finished nor rolled back by the
  composed setup, and a replaced game with two DLLs whose names differ in case, a
  runtime directory without a journal, a runtime transaction of another owner, a tool
  lost as in finding 1 and a runtime child without parents as in finding 2 stop
  its rollback (`SettlesUnlessStranded`);
- a legacy rollback that exits after removing the tool and before ROLLED_BACK cannot
  be repeated, because the patch check of the next one misses its targets; neither
  can one over patches applied in part, or over a copy directory without a journal
  (`RollbackUnlessStranded`);
- an incomplete archive of ProtonUp, a legacy stage of an earlier run and a
  source-output that holds a failed bundle are refused by every later run and
  removed by none (`Wedged`);
- a resume that loads the legacy journal, loses the lease to a rollback and then
  publishes the tool or installs the copy over ROLLED_BACK, or exits there and leaves
  a runtime installer running (`OnlyStaleResumeAfterRollback` says that no other
  command can), and a
  second command that marks a running one RECOVERY_REQUIRED;
- the copied user bundle and a stage that a resumed Prepare found are never made
  durable by the process that uses them.

## 6. Not modelled, and plan

Not modelled: `patch-known-build` (its outcomes are in `Coordinator`; that it does
not inherit the lease and may go on beside a later command is a hazard no property
covers), `secure-user-files` and `uninstall-user` (manual, outside the
transactions), snapshots (read-only captures), parsing and validation of contracts,
manifests and PE files, building the container image, the doctor and the
development tools. They keep no state another component relies on, or only produce
inputs that the models quantify over. Within the modelled parts: the check that a
transaction bound to a composed parent is only rolled back by it, and the refusal of
`restore-runtime` for a user-only transaction, are not in `LauncherLease`; the wallet
start and the Secret Service check of the launcher only fail or pass.

Left to do: a model of `patch-known-build`, with its manifest and backups, beside
the lease it does not inherit. No safety property of the runs is left without a
theorem.
