------------------------- MODULE LauncherLeaseProofs -------------------------
(***************************************************************************)
(* Proofs about LauncherLease for any number of launchers, commands and    *)
(* transactions and any bound on faults.                                   *)
(***************************************************************************)
EXTENDS LauncherLease, TLAPS

-----------------------------------------------------------------------------
(* The invariant *)

\* Whoever is between its first and its last step holds the lease.
Holder == \A p \in Procs : pc[p] # "idle" => lease = p

\* What a command knows of the transaction it works on.
WorksOn == \A c \in Commands :
    /\ pc[c] = "prepare" => tx[c] \in Ids /\ Is(tx[c], {"reserved"})
    /\ pc[c] \in {"stage", "check_again"} => tx[c] \in Ids /\ Is(tx[c], {"prepared"})
    /\ pc[c] = "work" /\ job[c] = "install" => tx[c] \in Ids /\ Is(tx[c], {"installing"})
    /\ pc[c] = "undo" => tx[c] \in Ids /\ Is(tx[c], {"rolling_back"})

\* runtime_restored is only written by restore-runtime.
RestoredKept == \A t \in Ids : Is(t, {"runtime_restored"}) => t \in restored

JournalInv == Holder /\ WorksOn /\ RestoredKept /\ OneUnsettled

\* A launcher past its check of the journals has found none in the way.
JournalsRead ==
    (\E l \in Launchers : pc[l] \in Started) => \A t \in Ids : ~Is(t,
    Blocking \cup {"reserved"})

\* A command past its check for the service and the game.
Past == {"select", "prepare", "stage", "check_again"} \cup Mutating

QuietSince ==
    (\E c \in Commands : pc[c] \in Past) =>
        /\ \A l \in Launchers :
              game[l] # "none" => {"kill", "end"} \subseteq seen \/ "loose" \in seen
        /\ service => "hand" \in seen \/ "boot" \in seen

\* A game runs with its launcher, and with the service.
GamesPlayed ==
    \A l \in Launchers : game[l] # "none" => pc[l] = "play" \/ "kill" \in seen \/ "loose" \in seen
GamesServed ==
    \A l \in Launchers : game[l] # "none" => service \/ "end" \in seen \/ "loose" \in seen

\* The launcher that starts a service, and may stop it, found none: games of
\* earlier sessions have lost theirs.
OwnStep == \A l \in Launchers : own[l] => pc[l] \in {"wait", "play", "stop", "tokens"}
OthersGames ==
    \A l, m \in Launchers :
        /\ pc[l] \in {"start", "orphan", "capture"} \/ own[l]
        /\ game[m] # "none"
        => "end" \in seen \/ "loose" \in seen \/ (m = l /\ pc[l] = "play")

\* A start job that nobody waits for is somebody's.
BootKnown == boot # "none" => "hand" \in seen \/ "boot" \in seen

\* While no accident but a game let loose has happened, service and tokens follow
\* the one launcher at work.
Clean == ~service /\ pending = NoOne /\ active = NoOne
Reserved(l) == ~service /\ pending = l /\ active = NoOne
Serving(l)  == service /\ pending = NoOne /\ active = l

Unbroken ==
    seen \subseteq {"loose"} =>
        /\ (\A l \in Launchers : pc[l] \notin Started \ {"service"}) => Clean
        /\ \A l \in Launchers :
              /\ pc[l] # "orphan"
              /\ pc[l] = "start" => Reserved(l)
              /\ pc[l] = "capture" => Serving(l)
              /\ pc[l] \in {"wait", "play"} => Serving(l) /\ own[l]
              /\ pc[l] = "stop" => Reserved(l) \/ (Serving(l) /\ own[l])
              /\ pc[l] = "tokens" =>
                    Reserved(l) \/ (~service /\ own[l] /\ active = l /\ pending = NoOne)

SessionInv ==
    /\ JournalsRead /\ QuietSince /\ GamesPlayed /\ GamesServed
    /\ OwnStep /\ OthersGames /\ BootKnown

IInv == TypeOK /\ JournalInv /\ SessionInv /\ Unbroken

-----------------------------------------------------------------------------
\* The invariant holds before the first launch.
LEMMA InitInv == Init => IInv
<1> SUFFICES ASSUME Init PROVE IInv
  OBVIOUS
<1> USE LeaseAssumption DEF Init, Is
<1>1. TypeOK
  <2>1. Ranges
    BY DEF Ranges, Journals, States, Unsettled, Blocking
  <2> QED BY <2>1 DEF TypeOK
<1>2. JournalInv
  BY DEF JournalInv, Holder, WorksOn, RestoredKept, OneUnsettled, Procs, Unsettled, Blocking
<1>3. SessionInv
  BY DEF SessionInv, JournalsRead, QuietSince, GamesPlayed, GamesServed, OwnStep, OthersGames,
         BootKnown, Procs, Started, Past, Mutating
<1>4. Unbroken
  BY DEF Unbroken, Clean, Procs, Started
<1> QED BY <1>1, <1>2, <1>3, <1>4 DEF IInv

\* Every variable stays in its range, whatever happens.
LEMMA TypeStep == ASSUME TypeOK, WorksOn, [Next]_vars PROVE TypeOK'
<1>1. faults' \in 0..MaxFaults
  <2> SUFFICES UNCHANGED faults \/ Fault
    BY LeaseAssumption DEF TypeOK, Fault
  <2> QED
    BY DEF Next, vars, Launch, Launcher, ReadJournals, Reserve, ReserveLost, StartService,
       OrphanStarts, Starts, Capture, StartGame, TimeOut, GameOver, StopService, RemoveTokens,
       StartFails, Signal, Kill, GameBoots, GameEnds, Command, Continue, Check, Select,
       ReserveId,
       Prepare, Stage, CheckAgain, Installed, Undone, UndoRaises, SetupProbe, SetupDone,
       InstallFails, UndoFails,
       Exits, ServiceEnds, ManualStart, BootPre, BootExec
<1>2. Ranges'
  <2> Ranges
    BY DEF TypeOK
  <2> USE LeaseAssumption DEF Ranges, Procs
  <2>1. ASSUME NEW l \in Launchers, Launch(l) \/ Launcher(l) \/ StartFails(l) \/ Signal(l)
        PROVE  Ranges'
    <3>1. CASE Launch(l) \/ ReadJournals(l)
      BY <3>1 DEF Launch, ReadJournals, Goto, Lease, Leave, Started, session
    <3>2. CASE Reserve(l) \/ ReserveLost(l) \/ StartFails(l)
      BY <3>2 DEF Reserve, ReserveLost, StartFails, Goto, Started, session
    <3>3. CASE StartService(l) \/ OrphanStarts(l)
      BY <3>3 DEF StartService, OrphanStarts, Starts, Goto, Started
    <3>4. CASE Capture(l)
      BY <3>4 DEF Capture, Goto, Started
    <3>5. CASE StartGame(l) \/ TimeOut(l) \/ GameOver(l)
      BY <3>5 DEF StartGame, TimeOut, GameOver, Goto, Started, session
    <3>6. CASE StopService(l)
      BY <3>6 DEF StopService, Goto, Started
    <3>7. CASE RemoveTokens(l)
      BY <3>7 DEF RemoveTokens, Leave, Goto
    <3>8. CASE Signal(l)
      BY <3>8, ZenonT(60) DEF Signal, Leave, Goto, Started, Accidents
    <3> QED BY <2>1, <3>1, <3>2, <3>3, <3>4, <3>5, <3>6, <3>7, <3>8 DEF Launcher
  <2>2. ASSUME NEW l \in Launchers, Kill(l) \/ GameBoots(l) \/ GameEnds(l) PROVE Ranges'
    <3>1. CASE Kill(l)
      BY <3>1 DEF Kill, Goto, Leave, Started, Accidents
    <3>2. CASE GameBoots(l) \/ GameEnds(l)
      BY <3>2 DEF GameBoots, GameEnds
    <3> QED BY <2>2, <3>1, <3>2
  <2>3. ASSUME NEW c \in Commands, NEW o \in Jobs, Command(c, o) PROVE Ranges'
    BY <2>3 DEF Command, Lease, Goto, session
  <2>4. ASSUME NEW c \in Commands, Continue(c) PROVE Ranges'
    <3>1. CASE Check(c) \/ UndoRaises(c) \/ SetupProbe(c) \/ SetupDone(c)
      BY <3>1 DEF Check, UndoRaises, SetupProbe, SetupDone, Finish, Leave, Goto, session,
           Mutating
    <3>2. CASE Select(c) \/ ReserveId(c)
      <4>1. journal' \in Journals
        BY <3>2 DEF Select, ReserveId, Write, Journals, States, Unsettled, Blocking
      <4>2. CASE Select(c)
        BY <4>1, <4>2 DEF Select, Finish, Leave, Goto, session, Mutating
      <4>3. CASE ReserveId(c)
        BY <4>1, <4>3 DEF ReserveId, Finish, Leave, Goto, session
      <4> QED BY <3>2, <4>2, <4>3
    <3>3. CASE Prepare(c) \/ Stage(c) \/ CheckAgain(c)
      <4>1. journal' \in Journals
        BY <3>3 DEF Prepare, Stage, CheckAgain, Write, Journals, States, Unsettled, Blocking
      <4> QED BY <3>3, <4>1 DEF Prepare, Stage, CheckAgain, Goto, session, Mutating
    <3>4. CASE Installed(c) \/ Undone(c)
      <4>1. journal' \in Journals
        BY <3>4 DEF Installed, Undone, Write, Journals, States, Unsettled, Blocking
      <4>2. CASE Installed(c)
        BY <4>1, <4>2 DEF Installed, Finish, Leave, Goto, session
      <4>3. CASE Undone(c)
        <5>1. restored' \subseteq Ids
          BY <4>3 DEF WorksOn, Undone
        <5> QED BY <4>1, <4>3, <5>1 DEF Undone, Finish, Leave, Goto, session
      <4> QED BY <3>4, <4>2, <4>3
    <3> QED BY <2>4, <3>1, <3>2, <3>3, <3>4 DEF Continue
  <2>5. ASSUME NEW c \in Commands, InstallFails(c) \/ UndoFails(c) \/ Exits(c) PROVE Ranges'
    <3>1. journal' \in Journals
      BY <2>5 DEF InstallFails, UndoFails, Exits, Write, Journals, States, Unsettled, Blocking
    <3> QED BY <2>5, <3>1 DEF InstallFails, UndoFails, Exits, Finish, Leave, Goto, session,
               Mutating
  <2>6. ASSUME ServiceEnds \/ ManualStart \/ BootPre \/ BootExec PROVE Ranges'
    BY <2>6 DEF ServiceEnds, ManualStart, BootPre, BootExec, Accidents
  <2>7. ASSUME UNCHANGED vars PROVE Ranges'
    BY <2>7 DEF vars, session
  <2> QED BY <2>1, <2>2, <2>3, <2>4, <2>5, <2>6, <2>7 DEF Next
<1> QED BY <1>1, <1>2 DEF TypeOK

\* Nobody takes a step of its own without the lease, and only the holder frees it.
LEMMA HolderStep == ASSUME TypeOK, Holder, [Next]_vars PROVE Holder'
<1> USE LeaseAssumption DEF TypeOK, Ranges, Holder, Procs
<1>1. ASSUME NEW l \in Launchers,
             Launch(l) \/ Launcher(l) \/ StartFails(l) \/ Signal(l) \/ Kill(l)
      PROVE  Holder'
  BY <1>1 DEF Launch, Launcher, ReadJournals, Reserve, ReserveLost, StartService,
     OrphanStarts, Starts, Capture, StartGame, TimeOut, GameOver, StopService, RemoveTokens,
     StartFails, Signal, Kill, Goto, Lease, Leave, Started
<1>2. ASSUME NEW c \in Commands, NEW o \in Jobs, Command(c, o) PROVE Holder'
  BY <1>2 DEF Command, Lease, Goto
<1>3. ASSUME NEW c \in Commands, Continue(c) PROVE Holder'
  BY <1>3 DEF Continue, Check, Select, ReserveId, Prepare, Stage, CheckAgain, Installed,
       Undone, UndoRaises,
     SetupProbe, SetupDone, Finish, Leave, Goto
<1>4. ASSUME NEW c \in Commands, InstallFails(c) \/ UndoFails(c) \/ Exits(c) PROVE Holder'
  BY <1>4 DEF InstallFails, UndoFails, Exits, Finish, Leave, Goto
<1>5. ASSUME UNCHANGED <<pc, lease>> PROVE Holder'
  BY <1>5
<1> QED
  BY <1>1, <1>2, <1>3, <1>4, <1>5 DEF Next, GameBoots, GameEnds, ServiceEnds, ManualStart,
       BootPre, BootExec, vars

\* A launcher leaves journals and commands alone.
LEMMA LaunchersReadOnly ==
  ASSUME TypeOK, NEW l \in Launchers,
         \/ Launch(l) \/ Launcher(l) \/ StartFails(l) \/ Signal(l) \/ Kill(l)
         \/ GameBoots(l) \/ GameEnds(l)
  PROVE  UNCHANGED <<journal, job, tx, restored>> /\ \A c \in Commands : pc'[c] = pc[c]
BY LeaseAssumption DEF TypeOK, Ranges, Procs, Launch, Launcher, ReadJournals, Reserve,
   ReserveLost, StartService, OrphanStarts, Starts, Capture, StartGame, TimeOut, GameOver,
   StopService, RemoveTokens, StartFails, Signal, Kill, GameBoots, GameEnds, Goto, Lease,
   Leave, session

\* One write of a journal: an unsettled transaction is the one that was unsettled
\* before, or one that restore-runtime has restored, or there was none.
LEMMA WriteKeeps ==
  ASSUME TypeOK, JournalInv, NEW t \in Ids, NEW s, NEW o, Write(t, s, o),
         \/ /\ s \in Unsettled \cup {"reserved"} /\ restored' = restored
            /\ \/ t \in restored \/ Is(t, {"reserved"} \cup Unsettled)
               \/ \A u \in Ids : ~Is(u, {"reserved"} \cup Unsettled)
         \/ s = "rolled_back" /\ restored' = restored
         \/ s = "runtime_restored" /\ restored' = restored \cup {t}
  PROVE  RestoredKept' /\ OneUnsettled'
<1> USE DEF JournalInv, Is
<1>1. \A u \in Ids : journal'[u].state = IF u = t THEN s ELSE journal[u].state
  BY DEF TypeOK, Ranges, Journals, Write
<1>2. RestoredKept'
  BY <1>1 DEF RestoredKept, Unsettled, Blocking
<1>3. OneUnsettled'
  BY <1>1 DEF OneUnsettled, Unsettled, Blocking
<1> QED BY <1>2, <1>3

\* The journal part of the invariant: what a command does to its transaction.
LEMMA JournalStep == ASSUME TypeOK, JournalInv, [Next]_vars PROVE JournalInv'
<1>1. Holder'
  BY HolderStep DEF JournalInv
<1>2. ASSUME UNCHANGED <<journal, job, tx, restored>>, \A c \in Commands : pc'[c] = pc[c]
      PROVE  JournalInv'
  BY <1>1, <1>2 DEF JournalInv, WorksOn, RestoredKept, OneUnsettled, Is
<1>3. ASSUME NEW c \in Commands, NEW o \in Jobs, Command(c, o) PROVE JournalInv'
  BY <1>1, <1>3, LeaseAssumption DEF JournalInv, TypeOK, Ranges, Procs, WorksOn, RestoredKept,
     OneUnsettled, Command, Lease, Goto, Is
<1>4. ASSUME NEW c \in Commands, pc[c] # "idle",
             Continue(c) \/ InstallFails(c) \/ UndoFails(c) \/ Exits(c)
      PROVE  JournalInv'
  <2>1. \A d \in Commands : d # c => pc[d] = "idle"
    BY <1>4 DEF JournalInv, Holder, Procs
  <2> USE DEF JournalInv
  <2>2. WorksOn'
    <3> USE <2>1, LeaseAssumption DEF TypeOK, Ranges, Journals, Procs, WorksOn, Is, Finish,
         Leave,
            Goto, Write
    <3>1. CASE Check(c) \/ UndoRaises(c) \/ SetupProbe(c) \/ SetupDone(c) \/ Exits(c)
      BY <3>1 DEF Check, UndoRaises, SetupProbe, SetupDone, Exits
    <3>2. CASE Select(c) \/ ReserveId(c)
      BY <3>2 DEF Select, ReserveId
    <3>3. CASE Prepare(c) \/ Stage(c) \/ CheckAgain(c) \/ InstallFails(c)
      BY <3>3 DEF Prepare, Stage, CheckAgain, InstallFails
    <3>4. CASE Installed(c) \/ Undone(c) \/ UndoFails(c)
      BY <3>4 DEF Installed, Undone, UndoFails
    <3> QED BY <1>4, <3>1, <3>2, <3>3, <3>4 DEF Continue
  <2>3. RestoredKept' /\ OneUnsettled'
    <3>1. CASE UNCHANGED <<journal, restored>>
      BY <3>1 DEF RestoredKept, OneUnsettled, Is
    <3>2. CASE Select(c) /\ ~UNCHANGED journal
      <4>1. PICK t \in Ids : /\ Matches(job[c]) = {t}
                             /\ Write(t, "accepted", "none") \/ Write(t, "rolling_back", job[c])
        BY <3>2 DEF Select
      <4>2. t \in restored \/ Is(t, {"reserved"} \cup Unsettled)
        <5>1. t \in Matches(job[c]) /\ job[c] \in {"rollback", "restore-runtime", "accept"}
          BY <3>2, <4>1 DEF Select
        <5> QED BY <5>1 DEF Matches, RollbackMatches, RestoreMatches, RestoredKept, Is,
                   Unsettled, Blocking
      <4>3. restored' = restored
        BY <3>2 DEF Select
      <4> QED BY <4>1, <4>2, <4>3, WriteKeeps DEF Unsettled, Blocking
    <3>3. CASE ReserveId(c) /\ ~UNCHANGED journal
      BY <3>3, WriteKeeps DEF ReserveId
    <3>4. CASE Prepare(c) \/ CheckAgain(c) \/ Installed(c) \/ InstallFails(c)
      <4>1. tx[c] \in Ids /\ Is(tx[c], {"reserved"} \cup Unsettled)
        BY <3>4 DEF WorksOn, Prepare, CheckAgain, Installed, InstallFails, Is, Unsettled,
             Blocking
      <4> QED BY <3>4, <4>1, WriteKeeps DEF Prepare, CheckAgain, Installed, InstallFails,
                 Unsettled, Blocking
    <3>5. CASE Undone(c) \/ UndoFails(c)
      <4>1. tx[c] \in Ids /\ Is(tx[c], {"reserved"} \cup Unsettled)
        BY <3>5 DEF WorksOn, Undone, UndoFails, Is, Unsettled, Blocking
      <4> QED BY <3>5, <4>1, WriteKeeps DEF Undone, UndoFails, Unsettled, Blocking
    <3> QED
      BY <1>4, <3>1, <3>2, <3>3, <3>4, <3>5
         DEF Continue, Check, Stage, UndoRaises, SetupProbe, SetupDone, Exits, Select, ReserveId
  <2> QED BY <1>1, <2>2, <2>3
<1>5. ASSUME NEW c \in Commands, Continue(c) \/ InstallFails(c) \/ UndoFails(c) \/ Exits(c)
      PROVE  pc[c] # "idle"
  BY <1>5 DEF Continue, Check, Select, ReserveId, Prepare, Stage, CheckAgain, Installed,
       Undone, UndoRaises,
     SetupProbe, SetupDone, InstallFails, UndoFails, Exits
<1>6. CASE ServiceEnds \/ ManualStart \/ BootPre \/ BootExec \/ UNCHANGED vars
  BY <1>2, <1>6 DEF ServiceEnds, ManualStart, BootPre, BootExec, vars
<1> QED BY <1>2, <1>3, <1>4, <1>5, <1>6, LaunchersReadOnly DEF Next

\* One process works at a time.
LEMMA Alone == ASSUME Holder, NEW p \in Procs, pc[p] # "idle"
               PROVE  \A q \in Procs : q # p => pc[q] = "idle"
BY DEF Holder

\* The session part of the invariant: launchers, service, tokens and games.
LEMMA SessionStep == ASSUME TypeOK, JournalInv, SessionInv, [Next]_vars PROVE SessionInv'
<1> USE LeaseAssumption DEF TypeOK, Ranges, Procs, SessionInv, JournalsRead, QuietSince,
        GamesPlayed, GamesServed, OwnStep, OthersGames, BootKnown
<1>1. ASSUME NEW l \in Launchers, Launch(l) PROVE SessionInv'
  <2>1. \A q \in Procs : pc[q] = "idle"
    BY <1>1 DEF Launch, Lease, JournalInv, Holder
  <2> QED BY <1>1, <2>1 DEF Launch, Lease, Goto, session, Past, Mutating, Started, Is
<1>2. ASSUME NEW l \in Launchers, pc[l] # "idle",
             Launcher(l) \/ StartFails(l) \/ Signal(l) \/ Kill(l)
      PROVE  SessionInv'
  <2>1. \A q \in Procs : q # l => pc[q] = "idle"
    BY <1>2, Alone DEF JournalInv
  <2> USE <1>2, <2>1 DEF Goto, Leave, Past, Mutating, Started, Is
  <2>2. CASE ReadJournals(l)
    BY <2>2 DEF ReadJournals, session
  <2>3. CASE Reserve(l)
    BY <2>3 DEF Reserve
  <2>4. CASE ReserveLost(l) \/ StartFails(l)
    BY <2>4 DEF ReserveLost, StartFails, session
  <2>5. CASE StartService(l)
    BY <2>5 DEF StartService, Starts
  <2>6. CASE OrphanStarts(l)
    BY <2>6 DEF OrphanStarts, Starts
  <2>7. CASE Capture(l)
    BY <2>7 DEF Capture
  <2>8. CASE StartGame(l)
    BY <2>8 DEF StartGame
  <2>9. CASE TimeOut(l) \/ GameOver(l)
    BY <2>9 DEF TimeOut, GameOver, session
  <2>10. CASE StopService(l)
    BY <2>10 DEF StopService
  <2>11. CASE RemoveTokens(l)
    BY <2>11 DEF RemoveTokens
  <2>12. CASE Kill(l)
    BY <2>12 DEF Kill
  <2>13. CASE Signal(l)
    BY <2>13 DEF Signal
  <2> QED BY <2>2, <2>3, <2>4, <2>5, <2>6, <2>7, <2>8, <2>9, <2>10, <2>11, <2>12, <2>13
          DEF Launcher
<1>3. ASSUME NEW l \in Launchers, GameBoots(l) \/ GameEnds(l) PROVE SessionInv'
  BY <1>3 DEF GameBoots, GameEnds, Is
<1>4. ASSUME NEW c \in Commands, NEW o \in Jobs, Command(c, o) PROVE SessionInv'
  <2>1. \A q \in Procs : pc[q] = "idle"
    BY <1>4 DEF Command, Lease, JournalInv, Holder
  <2> QED BY <1>4, <2>1 DEF Command, Lease, Goto, session, Past, Mutating, Started, Is
<1>5. ASSUME NEW c \in Commands, pc[c] # "idle",
             Continue(c) \/ InstallFails(c) \/ UndoFails(c) \/ Exits(c)
      PROVE  SessionInv'
  <2>1. \A q \in Procs : q # c => pc[q] = "idle"
    BY <1>5, Alone DEF JournalInv
  <2>2. UNCHANGED <<session, seen>> /\ \A q \in Procs : q # c => pc'[q] = "idle"
    BY <1>5, <2>1 DEF Continue, Check, Select, ReserveId, Prepare, Stage, CheckAgain,
         Installed, Undone,
       UndoRaises, SetupProbe, SetupDone, InstallFails, UndoFails, Exits, Finish, Leave, Goto
  <2>3. pc'[c] \in Past => Quiet \/ pc[c] \in Past
    BY <1>5 DEF Continue, Check, Select, ReserveId, Prepare, Stage, CheckAgain, Installed,
         Undone,
       UndoRaises, SetupProbe, SetupDone, InstallFails, UndoFails, Exits, Finish, Leave, Goto,
       Past, Mutating
  <2>4. QuietSince'
    BY <2>1, <2>2, <2>3 DEF Quiet, session, Past, Mutating
  <2> QED BY <2>1, <2>2, <2>4 DEF session, Started
<1>6. CASE ServiceEnds
  BY <1>6 DEF ServiceEnds, Is
<1>7. CASE ManualStart \/ BootPre \/ BootExec
  BY <1>7 DEF ManualStart, BootPre, BootExec, Is
<1>8. CASE UNCHANGED vars
  BY <1>8 DEF vars, session, Is
<1> QED
  <2>1. \A l \in Launchers : Launcher(l) \/ StartFails(l) \/ Signal(l) \/ Kill(l) => pc[l] # "idle"
    BY DEF Launcher, ReadJournals, Reserve, ReserveLost, StartService, OrphanStarts, Capture,
       StartGame, TimeOut, GameOver, StopService, RemoveTokens, StartFails, Signal, Kill,
       Started
  <2>2. \A c \in Commands :
            Continue(c) \/ InstallFails(c) \/ UndoFails(c) \/ Exits(c) => pc[c] # "idle"
    BY DEF Continue, Check, Select, ReserveId, Prepare, Stage, CheckAgain, Installed, Undone,
       UndoRaises, SetupProbe, SetupDone, InstallFails, UndoFails, Exits
  <2> QED BY <1>1, <1>2, <1>3, <1>4, <1>5, <1>6, <1>7, <1>8, <2>1, <2>2 DEF Next

\* An undisturbed session: the launcher's own steps carry the token from pending to
\* active and out of the way again.
LEMMA UnbrokenStep == ASSUME TypeOK, JournalInv, BootKnown, Unbroken,
[Next]_vars PROVE Unbroken'
<1> USE LeaseAssumption DEF TypeOK, Ranges, Procs, Unbroken, Clean, Reserved, Serving
<1>1. ASSUME NEW l \in Launchers, Launch(l) PROVE Unbroken'
  <2>1. \A q \in Procs : pc[q] = "idle"
    BY <1>1 DEF Launch, Lease, JournalInv, Holder
  <2> QED BY <1>1, <2>1 DEF Launch, Lease, Goto, session, Started
<1>2. ASSUME NEW l \in Launchers, pc[l] # "idle", Launcher(l) \/ StartFails(l) \/ Signal(l)
      PROVE  Unbroken'
  <2>1. \A q \in Procs : q # l => pc[q] = "idle"
    BY <1>2, Alone DEF JournalInv
  <2> USE <1>2, <2>1 DEF Goto, Leave, Started
  <2>2. CASE ReadJournals(l) \/ Reserve(l) \/ ReserveLost(l) \/ StartFails(l)
    BY <2>2, ZenonT(60) DEF ReadJournals, Reserve, ReserveLost, StartFails, session
  <2>3. CASE StartService(l) \/ OrphanStarts(l)
    <3> SUFFICES ASSUME seen' \subseteq {"loose"} PROVE Unbroken'
      OBVIOUS
    <3>1. seen' = seen
      BY <2>3 DEF StartService, OrphanStarts, Starts
    <3>2. boot = "none" /\ pc[l] # "orphan"
      BY <3>1 DEF BootKnown
    <3>3. Starts(l, "capture", "stop") /\ pc[l] = "start" /\ Reserved(l)
      BY <2>3, <3>1, <3>2 DEF StartService, OrphanStarts
    <3>4. Goto(l, "capture") /\ service' = TRUE /\ active' = l /\ pending' = NoOne
      BY <3>2, <3>3 DEF Starts, UpAlready, TokenReady
    <3> QED BY <3>4
  <2>4. CASE Capture(l)
    <3> SUFFICES ASSUME seen' \subseteq {"loose"} PROVE Unbroken'
      OBVIOUS
    <3>1. Serving(l) /\ UNCHANGED <<service, pending, active>>
      BY <2>4 DEF Capture
    <3>2. pc' = [pc EXCEPT ![l] = "wait"] /\ own' = [own EXCEPT ![l] = TRUE]
      BY <2>4, <3>1 DEF Capture
    <3> QED BY <3>1, <3>2
  <2>5. CASE StartGame(l) \/ TimeOut(l) \/ GameOver(l)
    <3> SUFFICES ASSUME seen' \subseteq {"loose"} PROVE Unbroken'
      OBVIOUS
    <3>1. Serving(l) /\ own[l] /\ UNCHANGED <<service, pending, active, own>>
      BY <2>5 DEF StartGame, TimeOut, GameOver, session
    <3>2. \E next \in {"play", "stop"} : pc' = [pc EXCEPT ![l] = next]
      BY <2>5 DEF StartGame, TimeOut, GameOver
    <3> QED BY <3>1, <3>2
  <2>6. CASE StopService(l)
    BY <2>6 DEF StopService
  <2>7. CASE RemoveTokens(l)
    BY <2>7 DEF RemoveTokens
  <2>8. CASE Signal(l)
    <3> SUFFICES ASSUME seen' \subseteq {"loose"} PROVE Unbroken'
      OBVIOUS
    <3>1. seen \subseteq {"loose"} /\ UNCHANGED <<service, pending, active>>
      BY <2>8 DEF Signal
    <3>2. \/ pc[l] \in {"journals", "service"} /\ pc' = [pc EXCEPT ![l] = "idle"]
          \/ pc[l] \in {"start", "play"} /\ pc' = [pc EXCEPT ![l] = "stop"] /\ own' = own
      BY <2>8 DEF Signal
    <3> QED BY <3>1, <3>2
  <2> QED BY <2>2, <2>3, <2>4, <2>5, <2>6, <2>7, <2>8 DEF Launcher
<1>3. CASE ~(seen' \subseteq {"loose"})
  BY <1>3
<1>4. ASSUME UNCHANGED <<service, pending, active, own, seen>>,
             \A l \in Launchers : pc'[l] = pc[l]
      PROVE  Unbroken'
  BY <1>4
<1>5. ASSUME NEW c \in Commands,
             \/ \E o \in Jobs : Command(c, o)
             \/ Continue(c) \/ InstallFails(c) \/ UndoFails(c) \/ Exits(c)
      PROVE  UNCHANGED <<session, seen>> /\ \A l \in Launchers : pc'[l] = pc[l]
  BY <1>5 DEF Command, Lease, Continue, Check, Select, ReserveId, Prepare, Stage, CheckAgain,
       Installed,
     Undone, UndoRaises, SetupProbe, SetupDone, InstallFails, UndoFails, Exits, Finish, Leave,
     Goto
<1> QED
  <2>1. \A l \in Launchers : Launcher(l) \/ StartFails(l) \/ Signal(l) => pc[l] # "idle"
    BY DEF Launcher, ReadJournals, Reserve, ReserveLost, StartService, OrphanStarts, Capture,
       StartGame, TimeOut, GameOver, StopService, RemoveTokens, StartFails, Signal
  <2>2. ServiceEnds \/ ManualStart \/ BootPre \/ BootExec \/ (\E l \in Launchers : Kill(l))
        => ~(seen' \subseteq {"loose"})
    BY DEF ServiceEnds, ManualStart, BootPre, BootExec, BootKnown, Kill
  <2>3. UNCHANGED vars \/ (\E l \in Launchers : GameBoots(l) \/ GameEnds(l)) => Unbroken'
    BY <1>4 DEF vars, session, GameBoots, GameEnds
  <2>4. (\E c \in Commands : \/ \E o \in Jobs : Command(c, o)
                             \/ Continue(c) \/ InstallFails(c) \/ UndoFails(c) \/ Exits(c))
        => Unbroken'
    BY <1>4, <1>5 DEF session
  <2> QED BY <1>1, <1>2, <1>3, <2>1, <2>2, <2>3, <2>4 DEF Next

-----------------------------------------------------------------------------
\* Who runs, who changes files, and what journals and tokens say of it: the
\* inductive invariant holds for any number of processes and transactions.
THEOREM Inductive == Spec => []IInv
<1>1. IInv /\ [Next]_vars => IInv'
  <2> SUFFICES ASSUME IInv, [Next]_vars PROVE IInv'
    OBVIOUS
  <2>1. TypeOK'
    BY TypeStep DEF IInv, JournalInv
  <2>2. JournalInv'
    BY JournalStep DEF IInv
  <2>3. SessionInv'
    BY SessionStep DEF IInv
  <2>4. Unbroken'
    BY UnbrokenStep DEF IInv, SessionInv
  <2> QED BY <2>1, <2>2, <2>3, <2>4 DEF IInv
<1> QED BY <1>1, InitInv, PTL DEF Spec

\* No command changes files under a game or its service, and no game starts over a
\* half-changed installation: the lease of forza-linux.lock, the service and the
\* journals together keep bin/forza-linux and the installers apart, but for the
\* accidents that GameAndInstallerApart names.
THEOREM InstallerApart == Spec => []GameAndInstallerApart
<1>1. IInv => GameAndInstallerApart
  BY DEF IInv, SessionInv, QuietSince, JournalsRead, Past, GameAndInstallerApart
<1> QED BY <1>1, Inductive, PTL

\* stage_transaction never begins a second installation: one transaction at most
\* is unsettled, however its commands and their recoveries were interrupted.
THEOREM SingleUnsettled == Spec => []OneUnsettled
<1>1. IInv => OneUnsettled
  BY DEF IInv, JournalInv
<1> QED BY <1>1, Inductive, PTL

\* cleanup of bin/forza-linux: a session leaves no service and no token, whichever way
\* it ended, unless something was killed, somebody else started or stopped the service,
\* or a signal came between systemctl start and started_here=1 or in the cleanup.
THEOREM SessionsEndClean == Spec => []SessionLeavesNothing
<1>1. IInv => SessionLeavesNothing
  BY LeaseAssumption DEF IInv, JournalInv, Holder, Unbroken, Clean, SessionLeavesNothing, Procs,
     Started
<1> QED BY <1>1, Inductive, PTL
=============================================================================
