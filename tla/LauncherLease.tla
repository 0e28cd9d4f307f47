----------------------------- MODULE LauncherLease -----------------------------
(***************************************************************************)
(* Who may change or run the installation: bin/forza-linux, the commands   *)
(* of scripts/install-runtime-components and ./setup share one lease, the  *)
(* lock on forza-linux.lock, and read each other's traces: the journals of *)
(* the runtime transactions, xodus-forza.service with the two ownership    *)
(* tokens of the launcher, and the processes of the game.                  *)
(*                                                                         *)
(* Any number of transactions may have journals.  What one of them does to *)
(* files is RuntimeTransaction's business; here a transaction is its state *)
(* and its recorded recovery operation.  Launchers are killed or take a    *)
(* signal at any step, commands exit, the service ends by itself or is     *)
(* started by hand.                                                        *)
(***************************************************************************)
EXTENDS Naturals, FiniteSets

CONSTANTS
    Launchers, Commands, \* processes
    NoOne,               \* no process
    Ids,                 \* transaction directories
    MaxFaults            \* bound on failures, kills, signals, exits and manual starts

ASSUME LeaseAssumption ==
    /\ NoOne \notin Launchers \cup Commands
    /\ Launchers \cap Commands = {} /\ MaxFaults \in Nat

VARIABLES
    lease,           \* who holds the lock on forza-linux.lock
    journal,         \* each transaction's state and recovery operation
    pc,              \* each process's next step
    job, tx,         \* each command's operation and transaction
    dirs,            \* do the parent directories of all runtime files exist?
    service,         \* is xodus-forza.service active?
    boot,            \* a start job of the service that no process here waits for
    pending, active, \* the launcher named in each token file
    own,             \* started_here of each launcher
    game,            \* each launcher's game
    restored,        \* history: transactions restore-runtime has restored
    seen,            \* history: which of Accidents have happened
    faults

session == <<service, boot, pending, active, own, game>>
vars == <<lease, journal, dirs, pc, job, tx, session, restored, seen, faults>>

Procs == Launchers \cup Commands
Jobs  == {"install", "rollback", "accept", "restore-runtime", "setup"}
Blocking  == {"prepared", "installing", "rolling_back", "recovery_required"}
Unsettled == Blocking \cup {"installed", "accepted"}
States == Unsettled \cup {"none", "reserved", "rolled_back", "runtime_restored"}
Started == {"service", "start", "orphan", "capture", "wait", "play", "stop", "tokens"}
Mutating == {"work", "undo"}

\* SIGKILL of a launcher; the service's end; a start of the service by hand; a start
\* job that goes on without the systemctl a signal has ended; a signal taken before
\* started_here is set or in the cleanup; a signal that ends the launcher and not
\* its game.
Accidents == {"kill", "end", "hand", "boot", "cut", "loose"}

Journals == [Ids -> [state : States, op : {"none", "rollback", "restore-runtime"}]]

Ranges ==
    /\ lease \in Procs \cup {NoOne}
    /\ journal \in Journals
    /\ pc \in [Procs -> {"idle", "check", "journals", "select", "prepare",
                         "stage", "check_again"} \cup Mutating \cup Started]
    /\ job \in [Commands -> Jobs \cup {"none"}]
    /\ tx \in [Commands -> Ids \cup {NoOne}]
    /\ dirs \in BOOLEAN /\ service \in BOOLEAN /\ boot \in {"none", "queued", "exec"}
    /\ pending \in Launchers \cup {NoOne} /\ active \in Launchers \cup {NoOne}
    /\ own \in [Launchers -> BOOLEAN]
    /\ game \in [Launchers -> {"none", "starting", "running"}]
    /\ restored \subseteq Ids /\ seen \subseteq Accidents

TypeOK == Ranges /\ faults \in 0..MaxFaults

Init ==
    /\ lease = NoOne
    /\ journal = [t \in Ids |-> [state |-> "none", op |-> "none"]]
    /\ pc = [p \in Procs |-> "idle"]
    /\ job = [c \in Commands |-> "none"] /\ tx = [c \in Commands |-> NoOne]
    /\ dirs \in BOOLEAN
    /\ service = FALSE /\ boot = "none" /\ pending = NoOne /\ active = NoOne
    /\ own = [l \in Launchers |-> FALSE]
    /\ game = [l \in Launchers |-> "none"]
    /\ restored = {} /\ seen = {} /\ faults = 0

-----------------------------------------------------------------------------
Goto(p, step) == pc' = [pc EXCEPT ![p] = step]
Is(t, states) == journal[t].state \in states
Fault == faults < MaxFaults /\ faults' = faults + 1

\* LOCK_EX | LOCK_NB, in the launcher, the installer and ./setup: a process that
\* does not get it at once exits.
Lease(p) == pc[p] = "idle" /\ lease = NoOne /\ lease' = p

\* The process closes its descriptor.
Leave(p) == Goto(p, "idle") /\ lease' = NoOne

-----------------------------------------------------------------------------
(* bin/forza-linux *)

Launch(l) ==
    /\ Lease(l) /\ Goto(l, "journals")
    /\ UNCHANGED <<journal, dirs, job, tx, session, restored, seen, faults>>

\* Mutant: a transaction that is being rolled back does not block the game.
ReadJournalsLenient(l) ==
    /\ pc[l] = "journals"
    /\ \/ (\E t \in Ids : Is(t, {"reserved", "prepared", "installing"})) /\ Leave(l)
       \/ /\ ~\E t \in Ids : Is(t, {"reserved", "prepared", "installing"})
          /\ Goto(l, "service") /\ UNCHANGED lease
    /\ UNCHANGED <<journal, dirs, job, tx, session, restored, seen, faults>>

\* A directory without a journal cannot be validated and blocks as well.
ReadJournals(l) ==
    /\ pc[l] = "journals"
    /\ \/ (\E t \in Ids : Is(t, Blocking \cup {"reserved"})) /\ Leave(l)
       \/ /\ ~\E t \in Ids : Is(t, Blocking \cup {"reserved"})
          /\ Goto(l, "service") /\ UNCHANGED lease
    /\ UNCHANGED <<journal, dirs, job, tx, session, restored, seen, faults>>

\* An active service is used as it is.  Otherwise stale tokens are removed and
\* the launcher's own is placed.
Reserve(l) ==
    /\ pc[l] = "service"
    /\ \/ service /\ Goto(l, "wait") /\ UNCHANGED <<pending, active>>
       \/ ~service /\ Goto(l, "start") /\ pending' = l /\ active' = NoOne
    /\ UNCHANGED <<lease, journal, dirs, job, tx, service, boot, own, game, restored, seen,
                   faults>>

\* "became active during ownership reservation".
ReserveLost(l) ==
    /\ pc[l] = "start" /\ service
    /\ Goto(l, "stop")
    /\ UNCHANGED <<lease, journal, dirs, job, tx, session, restored, seen, faults>>

\* The unit's ExecStartPre needs the pending token and turns it into the active
\* one; a service that is active, or whose ExecStart is under way, needs no other.
UpAlready == service \/ boot = "exec"
TokenReady == pending # NoOne /\ active = NoOne

\* systemctl start joins the job that is queued, if there is one, and waits for it.
Starts(l, next, failed) ==
    /\ \/ UpAlready /\ Goto(l, next) /\ service' = TRUE /\ UNCHANGED <<pending, active>>
       \/ /\ ~UpAlready /\ TokenReady
          /\ Goto(l, next)
          /\ service' = TRUE /\ active' = pending /\ pending' = NoOne
       \/ /\ ~UpAlready /\ ~TokenReady
          /\ Goto(l, failed) /\ UNCHANGED <<service, pending, active>>
    /\ boot' = "none"
    /\ UNCHANGED <<journal, dirs, job, tx, own, game, restored, seen, faults>>

StartService(l) == pc[l] = "start" /\ Starts(l, "capture", "stop") /\ UNCHANGED lease

StartFails(l) ==
    /\ pc[l] = "start" /\ Fault /\ Goto(l, "stop")
    /\ UNCHANGED <<lease, journal, dirs, job, tx, session, restored, seen>>

\* systemctl inherits the lease: the start of a killed launcher still ends under it.
OrphanStarts(l) == pc[l] = "orphan" /\ Starts(l, "idle", "idle") /\ lease' = NoOne

Capture(l) ==
    /\ pc[l] = "capture"
    /\ own' = [own EXCEPT ![l] = (active = l)]
    /\ Goto(l, IF active = l THEN "wait" ELSE "stop")
    /\ UNCHANGED <<lease, journal, dirs, job, tx, service, boot, pending, active, game,
                   restored, seen, faults>>

\* The socket listens in time and the service is active: the game starts, without
\* the lease.  Otherwise the launcher gives up after 4.8 seconds.
StartGame(l) ==
    /\ pc[l] = "wait" /\ service /\ game[l] = "none"
    /\ game' = [game EXCEPT ![l] = "starting"] /\ Goto(l, "play")
    /\ UNCHANGED <<lease, journal, dirs, job, tx, service, boot, pending, active, own,
                   restored, seen, faults>>

TimeOut(l) ==
    /\ pc[l] = "wait" /\ Goto(l, "stop")
    /\ UNCHANGED <<lease, journal, dirs, job, tx, session, restored, seen, faults>>

\* wait_for_game returns, or forward_signal has ended the game.
GameOver(l) ==
    /\ pc[l] = "play" /\ game[l] = "none" /\ Goto(l, "stop")
    /\ UNCHANGED <<lease, journal, dirs, job, tx, session, restored, seen, faults>>

\* Mutant: the launcher leaves the service it has started running.
StopServiceNever(l) ==
    /\ pc[l] = "stop"
    /\ Goto(l, "tokens") /\ UNCHANGED service
    /\ UNCHANGED <<lease, journal, dirs, job, tx, boot, pending, active, own, game,
                   restored, seen, faults>>

\* cleanup: the service is stopped by the launcher that started it, if it is still
\* active and the token still the launcher's own.
StopService(l) ==
    /\ pc[l] = "stop"
    /\ LET mine == own[l] /\ service /\ active = l
       IN  service' = (service /\ ~mine) /\ own' = [own EXCEPT ![l] = mine]
    /\ Goto(l, "tokens")
    /\ UNCHANGED <<lease, journal, dirs, job, tx, boot, pending, active, game,
                   restored, seen, faults>>

\* The active token goes with the service that was stopped; the pending one goes
\* when no service has taken it.
RemoveTokens(l) ==
    /\ pc[l] = "tokens"
    /\ active' = IF own[l] /\ active = l /\ ~service THEN NoOne ELSE active
    /\ pending' = IF pending = l /\ ~service /\ active' = NoOne THEN NoOne ELSE pending
    /\ own' = [own EXCEPT ![l] = FALSE]
    /\ Leave(l)
    /\ UNCHANGED <<journal, dirs, job, tx, service, boot, game, restored, seen, faults>>

\* INT and TERM run forward_signal and then the EXIT trap, HUP the EXIT trap alone,
\* once the command in the foreground has ended.  During "wait" that is TimeOut, and
\* INT or TERM during the game is GameOver.  A signal to the whole group ends
\* systemctl while its job goes on; one that comes before started_here is set leaves
\* the service to nobody, a second one ends the cleanup, and HUP, or INT before
\* game_pid is set, does not reach the game.
Signal(l) ==
    /\ Fault
    /\ \/ pc[l] \in {"journals", "service"} /\ Leave(l) /\ UNCHANGED <<own, boot, seen>>
       \/ /\ pc[l] = "start" /\ Goto(l, "stop")
          /\ \/ UNCHANGED <<boot, seen>>
             \/ ~service /\ boot = "none" /\ boot' = "queued" /\ seen' = seen \cup {"boot"}
          /\ UNCHANGED <<lease, own>>
       \/ /\ pc[l] = "capture" /\ Goto(l, "stop") /\ seen' = seen \cup {"cut"}
          /\ UNCHANGED <<lease, own, boot>>
       \/ /\ pc[l] \in {"stop", "tokens"} /\ Leave(l) /\ seen' = seen \cup {"cut"}
          /\ own' = [own EXCEPT ![l] = FALSE] /\ UNCHANGED boot
       \/ /\ pc[l] = "play" /\ game[l] # "none" /\ Goto(l, "stop")
          /\ seen' = seen \cup {"loose"} /\ UNCHANGED <<lease, own, boot>>
    /\ UNCHANGED <<journal, dirs, job, tx, service, pending, active, game, restored>>

Launcher(l) ==
    \/ ReadJournals(l) \/ Reserve(l) \/ ReserveLost(l) \/ StartService(l)
    \/ OrphanStarts(l) \/ Capture(l) \/ StartGame(l) \/ TimeOut(l) \/ GameOver(l)
    \/ StopService(l) \/ RemoveTokens(l)

-----------------------------------------------------------------------------
(* scripts/install-runtime-components, and ./setup *)

Command(c, operation) ==
    /\ Lease(c) /\ Goto(c, "check")
    /\ operation = "install" => \E t \in Ids : Is(t, {"none"}) \* bound
    /\ job' = [job EXCEPT ![c] = operation]
    /\ UNCHANGED <<journal, dirs, tx, session, restored, seen, faults>>

Finish(c) ==
    /\ Leave(c)
    /\ job' = [job EXCEPT ![c] = "none"] /\ tx' = [tx EXCEPT ![c] = NoOne]

Write(t, state, op) == journal' = [journal EXCEPT ![t] = [state |-> state, op |-> op]]

\* require_service_and_game_inactive, _probe_xodus_service and
\* _probe_forza_processes: a game that Proton is still starting has no process
\* of that name yet.
Quiet == ~service /\ \A l \in Launchers : game[l] # "running"

\* Mutant: only the processes are looked for.
CheckGameOnly(c) ==
    /\ pc[c] = "check"
    /\ IF \A l \in Launchers : game[l] # "running"
       THEN Goto(c, "select") /\ UNCHANGED <<lease, job, tx>> ELSE Finish(c)
    /\ UNCHANGED <<journal, dirs, session, restored, seen, faults>>

Check(c) ==
    /\ pc[c] = "check"
    /\ IF Quiet THEN Goto(c, "select") /\ UNCHANGED <<lease, job, tx>> ELSE Finish(c)
    /\ UNCHANGED <<journal, dirs, session, restored, seen, faults>>

\* transaction_journals and _probe_runtime_children raise over a directory that
\* has no journal.
Unreadable == \E t \in Ids : Is(t, {"reserved"})

\* The journals each recovery command may choose from.
RollbackMatches(t) ==
    \/ Is(t, {"prepared", "installed", "installing", "runtime_restored"})
    \/ Is(t, {"rolling_back", "recovery_required"}) /\ journal[t].op = "rollback"

\* Mutant: an interrupted restore-runtime is nobody's.
RestoreMatchesAccepted(t) == Is(t, {"accepted"})

RestoreMatches(t) ==
    \/ Is(t, {"accepted"})
    \/ Is(t, {"rolling_back", "recovery_required"}) /\ journal[t].op = "restore-runtime"

Matches(operation) ==
    {t \in Ids : CASE operation = "rollback"        -> RollbackMatches(t)
                   [] operation = "restore-runtime" -> RestoreMatches(t)
                   [] operation = "accept"          -> Is(t, {"installed"})}

\* select_transaction wants exactly one.
Select(c) ==
    /\ pc[c] = "select" /\ job[c] \in {"rollback", "restore-runtime", "accept"}
    /\ \/ /\ Unreadable \/ Cardinality(Matches(job[c])) # 1
          /\ Finish(c) /\ UNCHANGED journal
       \/ \E t \in Ids :
             /\ ~Unreadable /\ Matches(job[c]) = {t}
             /\ \/ job[c] = "accept" /\ Write(t, "accepted", "none") /\ Finish(c)
                \/ /\ job[c] # "accept" /\ Write(t, "rolling_back", job[c])
                   /\ tx' = [tx EXCEPT ![c] = t]
                   /\ Goto(c, "undo") /\ UNCHANGED <<lease, job>>
    /\ UNCHANGED <<dirs, session, restored, seen, faults>>

\* Mutant: an accepted transaction does not stand in the way of another.
ReserveIdBesideAccepted(c) ==
    /\ pc[c] = "select" /\ job[c] = "install"
    /\ \/ /\ \E t \in Ids : Is(t, {"reserved"} \cup (Unsettled \ {"accepted"}))
          /\ Finish(c) /\ UNCHANGED journal
       \/ \E t \in Ids :
             /\ ~\E u \in Ids : Is(u, {"reserved"} \cup (Unsettled \ {"accepted"}))
             /\ Is(t, {"none"})
             /\ Write(t, "reserved", "none") /\ tx' = [tx EXCEPT ![c] = t]
             /\ Goto(c, "prepare") /\ UNCHANGED <<lease, job>>
    /\ UNCHANGED <<dirs, session, restored, seen, faults>>

\* stage_transaction refuses next to an unfinished transaction, then makes the
\* directory.
ReserveId(c) ==
    /\ pc[c] = "select" /\ job[c] = "install"
    /\ \/ (\E t \in Ids : Is(t, {"reserved"} \cup Unsettled)) /\ Finish(c) /\ UNCHANGED journal
       \/ \E t \in Ids :
             /\ ~\E u \in Ids : Is(u, {"reserved"} \cup Unsettled)
             /\ Is(t, {"none"})
             /\ Write(t, "reserved", "none") /\ tx' = [tx EXCEPT ![c] = t]
             /\ Goto(c, "prepare") /\ UNCHANGED <<lease, job>>
    /\ UNCHANGED <<dirs, session, restored, seen, faults>>

\* The first journal.
Prepare(c) ==
    /\ pc[c] = "prepare"
    /\ Write(tx[c], "prepared", "none") /\ Goto(c, "stage")
    /\ UNCHANGED <<lease, dirs, job, tx, session, restored, seen, faults>>

\* The staging makes the parent directories that are missing.
Stage(c) ==
    /\ pc[c] = "stage"
    /\ dirs' = TRUE /\ Goto(c, "check_again")
    /\ UNCHANGED <<lease, journal, job, tx, session, restored, seen, faults>>

CheckAgain(c) ==
    /\ pc[c] = "check_again"
    /\ IF Quiet THEN Write(tx[c], "installing", "none") /\ Goto(c, "work")
       ELSE Write(tx[c], "rolling_back", "rollback") /\ Goto(c, "undo")
    /\ UNCHANGED <<lease, dirs, job, tx, session, restored, seen, faults>>

Installed(c) ==
    /\ pc[c] = "work" /\ job[c] = "install"
    /\ Write(tx[c], "installed", "none") /\ Finish(c)
    /\ UNCHANGED <<dirs, session, restored, seen, faults>>

InstallFails(c) ==
    /\ pc[c] \in {"prepare", "stage", "check_again", "work"} /\ job[c] = "install" /\ Fault
    /\ Write(tx[c], "rolling_back", "rollback") /\ Goto(c, "undo")
    /\ UNCHANGED <<lease, dirs, job, tx, session, restored, seen>>

\* rollback_records, complete: an installation's own rollback, or a command.
Undone(c) ==
    /\ pc[c] = "undo" /\ dirs
    /\ Write(tx[c], IF job[c] = "restore-runtime" THEN "runtime_restored" ELSE "rolled_back",
             journal[tx[c]].op)
    /\ restored' = IF job[c] = "restore-runtime" THEN restored \cup {tx[c]} ELSE restored
    /\ Finish(c)
    /\ UNCHANGED <<dirs, session, seen, faults>>

\* restore_record opens the parent of every role and raises over a missing one.
UndoRaises(c) ==
    /\ pc[c] = "undo" /\ ~dirs /\ Finish(c)
    /\ UNCHANGED <<journal, dirs, session, restored, seen, faults>>

UndoFails(c) ==
    /\ pc[c] = "undo" /\ dirs /\ Fault
    /\ Write(tx[c], "recovery_required", journal[tx[c]].op) /\ Finish(c)
    /\ UNCHANGED <<dirs, session, restored, seen>>

\* _probe_runtime_children: ./setup begins with settled children only.
SetupProbe(c) ==
    /\ pc[c] = "select" /\ job[c] = "setup"
    /\ IF \E t \in Ids : Is(t, {"reserved", "installed"} \cup Blocking)
       THEN Finish(c) ELSE Goto(c, "work") /\ UNCHANGED <<lease, job, tx>>
    /\ UNCHANGED <<journal, dirs, session, restored, seen, faults>>

SetupDone(c) ==
    /\ pc[c] = "work" /\ job[c] = "setup"
    /\ Finish(c)
    /\ UNCHANGED <<journal, dirs, session, restored, seen, faults>>

Continue(c) ==
    \/ Check(c) \/ Select(c) \/ ReserveId(c) \/ Prepare(c) \/ Stage(c) \/ CheckAgain(c)
    \/ Installed(c) \/ Undone(c) \/ UndoRaises(c) \/ SetupProbe(c) \/ SetupDone(c)

-----------------------------------------------------------------------------
(* The environment *)

GameBoots(l) ==
    /\ game[l] = "starting" /\ game' = [game EXCEPT ![l] = "running"]
    /\ UNCHANGED <<lease, journal, dirs, pc, job, tx, service, boot, pending, active, own,
                   restored, seen, faults>>

GameEnds(l) ==
    /\ game[l] # "none" /\ game' = [game EXCEPT ![l] = "none"]
    /\ UNCHANGED <<lease, journal, dirs, pc, job, tx, service, boot, pending, active, own,
                   restored, seen, faults>>

\* SIGKILL of the launcher: no cleanup, the game goes on.
Kill(l) ==
    /\ pc[l] \in {"journals"} \cup (Started \ {"orphan"}) /\ Fault
    /\ IF pc[l] = "start" THEN Goto(l, "orphan") /\ UNCHANGED lease ELSE Leave(l)
    /\ own' = [own EXCEPT ![l] = FALSE]
    /\ seen' = seen \cup {"kill"}
    /\ UNCHANGED <<journal, dirs, job, tx, service, boot, pending, active, game, restored>>

\* A command exits between any two of its steps.
Exits(c) ==
    /\ pc[c] # "idle" /\ Fault /\ Finish(c)
    /\ UNCHANGED <<journal, dirs, session, restored, seen>>

\* The service ends by itself, or is stopped by hand.
ServiceEnds ==
    /\ service /\ service' = FALSE
    /\ seen' = seen \cup {"end"}
    /\ UNCHANGED <<lease, journal, dirs, pc, job, tx, boot, pending, active, own, game, restored,
                   faults>>

\* systemctl --user start by hand.
ManualStart ==
    /\ ~service /\ boot = "none" /\ Fault
    /\ boot' = "queued" /\ seen' = seen \cup {"hand"}
    /\ UNCHANGED <<lease, journal, dirs, pc, job, tx, service, pending, active, own, game,
                   restored>>

\* systemd runs the job: ExecStartPre fails without a pending token.  Until ExecStart
\* has run, is-active says that the unit is not active.
BootPre ==
    /\ boot = "queued"
    /\ IF TokenReady THEN boot' = "exec" /\ active' = pending /\ pending' = NoOne
       ELSE boot' = "none" /\ UNCHANGED <<pending, active>>
    /\ UNCHANGED <<lease, journal, dirs, pc, job, tx, service, own, game, restored, seen,
                   faults>>

BootExec ==
    /\ boot = "exec"
    /\ boot' = "none" /\ service' = TRUE
    /\ UNCHANGED <<lease, journal, dirs, pc, job, tx, pending, active, own, game, restored, seen,
                   faults>>

Next ==
    \/ \E l \in Launchers : \/ Launch(l) \/ Launcher(l) \/ StartFails(l)
                            \/ Signal(l) \/ Kill(l) \/ GameBoots(l) \/ GameEnds(l)
    \/ \E c \in Commands : \/ \E o \in Jobs : Command(c, o)
                           \/ Continue(c) \/ InstallFails(c) \/ UndoFails(c) \/ Exits(c)
    \/ ServiceEnds \/ ManualStart \/ BootPre \/ BootExec

Spec == Init /\ [][Next]_vars

\* A process that runs goes on, games end, a service that a command refuses for
\* is stopped, and someone keeps trying the two recovery commands.
FairSpec ==
    /\ Spec
    /\ WF_vars(ServiceEnds)
    /\ \A l \in Launchers : WF_vars(Launcher(l)) /\ WF_vars(GameEnds(l))
    /\ \A c \in Commands :
          /\ WF_vars(Continue(c))
          /\ \A o \in {"rollback", "restore-runtime"} : SF_vars(Command(c, o))

-----------------------------------------------------------------------------
(* Correctness *)

\* Files are never changed under a game or its service, and a game is never
\* started over a half-changed installation.  For a game beside an installer it
\* takes a launcher killed while Proton was still starting the game and the end of
\* the service as well, or a signal that ended the launcher, its service and not its
\* game; for the service, a start job that nobody who holds the lease waits for.
GameAndInstallerApart ==
    /\ (\E c \in Commands : pc[c] \in Mutating) =>
          /\ \A l \in Launchers :
                game[l] # "none" => {"kill", "end"} \subseteq seen \/ "loose" \in seen
          /\ service => "hand" \in seen \/ "boot" \in seen
    /\ (\E l \in Launchers : pc[l] \in Started) =>
          \A t \in Ids : ~Is(t, Blocking \cup {"reserved"})

\* There is one transaction at most whose files are installed or in between,
\* however often commands were interrupted; the exception is one that
\* restore-runtime has already taken its files from.
OneUnsettled ==
    \A t, u \in Ids \ restored :
        Is(t, {"reserved"} \cup Unsettled) /\ Is(u, {"reserved"} \cup Unsettled) => t = u

\* After every session the service is down and no token is left, whichever way the
\* launcher ended (a failed start, a time-out, the game's end, a signal) and even if
\* its game goes on, as long as nothing was killed, nobody else started or stopped the
\* service, and no signal came while systemctl start ran, before started_here was
\* set, or in the cleanup itself: each of those does leave something.
SessionLeavesNothing ==
    lease = NoOne /\ seen \subseteq {"loose"} => ~service /\ pending = NoOne /\ active = NoOne

Blocked == \E t \in Ids : Is(t, Blocking)

\* What no command can recover: a directory without a journal; a transaction next to
\* one in runtime_restored, since rollback then finds two; and one whose staging
\* stopped before all parent directories existed, since its rollback raises.
Stranded ==
    \/ Unreadable
    \/ \E t, u \in Ids : t # u /\ {t, u} \subseteq Matches("rollback")
    \/ ~dirs

\* Whatever interrupts an install or a recovery, repeating rollback and
\* restore-runtime unblocks the launcher, unless it is stuck for ever in one of the
\* three cases above.
UnblocksUnlessStranded == [](Blocked => <>(~Blocked \/ []Stranded))
=============================================================================
