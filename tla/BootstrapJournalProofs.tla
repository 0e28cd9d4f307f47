------------------------ MODULE BootstrapJournalProofs ------------------------
(***************************************************************************)
(* Proofs about BootstrapJournal for any set of processes, any number of   *)
(* transactions and any bounds on checkpoints, exits and power losses.     *)
(***************************************************************************)
EXTENDS BootstrapJournal, TLAPS

\* The steps a process takes under bootstrap.lock.
Locked == {"scan", "sc_sync", "found", "read", "tr_journal", "tr_compare", "tr_replace", "tr_sync"}
          \cup (CreateSteps \ {"cr_root", "cr_lock"})

\* create_transaction has found every transaction terminal, and nobody else can
\* write one before its own state.json is there.
Checked(p) ==
    /\ pc[p] \in {"found", "cr_found"} => \A i \in Ids : disk[i].at # "json"
    /\ pc[p] \in {"cr_mkdir", "cr_dir", "cr_temp", "cr_json"} =>
          \A i \in Ids : ~Unfinished(disk, i)

\* How far the directory that is being created has come.
Creating(p) ==
    /\ pc[p] \in {"cr_mkdir", "cr_dir", "cr_temp", "cr_json", "cr_jsync", "cr_name", "cr_sync"} =>
          new[p] \in Ids
    /\ pc[p] = "cr_mkdir" => disk[new[p]].at = "none"
    /\ pc[p] \in {"cr_dir", "cr_temp"} => disk[new[p]].at = "empty"
    /\ pc[p] = "cr_json" => disk[new[p]].at = "tmp"
    /\ pc[p] \in {"cr_jsync", "cr_name"} => disk[new[p]].at = "json"
    /\ pc[p] = "cr_sync" => disk[new[p]].at = "published"

\* A process holds a published transaction; what it has compared under the lock
\* is still what the disk holds.
Holding(p) ==
    /\ pc[p] \in UpdateSteps => mem[p].id \in Ids /\ disk[mem[p].id].at = "published"
    /\ pc[p] \in {"tr_journal", "tr_compare", "tr_replace"} => mem[p].state.live
    /\ pc[p] \in {"tr_replace", "tr_sync"} => disk[mem[p].id].state = mem[p].state

Exclusive(p) == pc[p] \in Locked => boot = p

Safe(p) == Exclusive(p) /\ Checked(p) /\ Creating(p) /\ Holding(p)

IInv ==
    /\ TypeOK
    /\ \A p \in Procs : Safe(p)
    /\ OneUnfinished /\ ReportedStays

-----------------------------------------------------------------------------
\* Nobody has run ./setup yet.
LEMMA InitInv == Init => IInv
<1> SUFFICES ASSUME Init PROVE IInv
  OBVIOUS
<1>1. Fresh \in Contents
  BY DEF Fresh, Contents
<1>2. TypeOK
  BY <1>1, JournalAssumption DEF Init, TypeOK, Images, Nothing, NoState, Places, LoadSteps,
       ReadSteps,
     CreateSteps, UpdateSteps, Ids
<1>3. \A p \in Procs : Safe(p)
  BY DEF Init, Safe, Exclusive, Checked, Creating, Holding, Locked, CreateSteps, UpdateSteps
<1>4. OneUnfinished /\ ReportedStays
  BY DEF Init, OneUnfinished, ReportedStays, Unfinished, Nothing
<1> QED BY <1>2, <1>3, <1>4 DEF IInv

-----------------------------------------------------------------------------
(* What the steps of one process leave alone *)

\* One process's step.
Step(p) == BeginBootstrap(p) \/ BeginCheck(p) \/ Continue(p) \/ CreateFails(p) \/ Crash(p)

\* What another process still has after a step of p.
Undisturbed(p, q) ==
    /\ pc'[q] = pc[q] /\ mem'[q] = mem[q] /\ new'[q] = new[q]
    /\ boot = q => boot' = q

\* A process writes its own variables only, and takes or gives up only its own
\* lock.
LEMMA OthersKept ==
  ASSUME TypeOK, NEW p \in Procs, Step(p), NEW q \in Procs, q # p
  PROVE  Undisturbed(p, q)
<1> USE DEF TypeOK, Undisturbed, Set, Goto, Stop, Release, locks
<1>1. q # NoOne
  BY JournalAssumption
<1> USE <1>1
<1>2. CASE BeginBootstrap(p) \/ BeginCheck(p)
  BY <1>2 DEF BeginBootstrap, BeginCheck
<1>3. CASE End(p) \/ CreateFails(p) \/ Crash(p)
  BY <1>3 DEF End, CreateFails, Crash
<1>4. ASSUME NEW s, NEW n, EnsureRoot(p, s, n) PROVE Undisturbed(p, q)
  BY <1>4 DEF EnsureRoot
<1>5. ASSUME NEW s, NEW n, Acquire(p, s, n) PROVE Undisturbed(p, q)
  BY <1>5 DEF Acquire
<1>6. ASSUME NEW s, NEW y, NEW n, Scan(p, s, y, n) PROVE Undisturbed(p, q)
  BY <1>6 DEF Scan
<1>7. ASSUME NEW s, NEW n, ScanSync(p, s, n) PROVE Undisturbed(p, q)
  BY <1>7 DEF ScanSync
<1>8. CASE Loaded(p)
  BY <1>8 DEF Loaded
<1>9. CASE Load(p)
  BY <1>4, <1>5, <1>6, <1>7, <1>8, <1>9 DEF Load
<1>10. CASE ReadOnly(p)
  BY <1>10 DEF ReadOnly, ReadList, ReadLock, Read, ReadDone
<1>11. CASE CreateChecked(p) \/ CreateStaging(p) \/ CreateTemporary(p) \/ CreateJson(p)
            \/ CreateName(p) \/ CreateReturn(p)
  BY <1>11 DEF CreateChecked, CreateStaging, CreateTemporary, CreateJson, CreateName, CreateReturn
<1>12. CASE Create(p)
  BY <1>4, <1>5, <1>6, <1>7, <1>11, <1>12 DEF Create
<1>13. CASE Reload(p) \/ TransitionLock(p) \/ TransitionJournal(p)
  BY <1>13 DEF Reload, TransitionLock, TransitionJournal
<1>14. CASE TransitionCompare(p) \/ TransitionReplace(p) \/ TransitionReturn(p)
  BY <1>14 DEF TransitionCompare, TransitionReplace, TransitionReturn
<1> QED BY <1>2, <1>3, <1>9, <1>10, <1>12, <1>13, <1>14 DEF Step, Continue, Update

-----------------------------------------------------------------------------
(* What a step does to the disk *)

\* Only a process that holds bootstrap.lock changes the disk, in one of these ways.
LEMMA DiskSteps ==
  ASSUME NEW p \in Procs, Step(p)
  PROVE  \/ UNCHANGED <<disk, past, told>>
         \/ UNCHANGED <<disk, told>> /\ past' = {}
         \/ CreateReturn(p) \/ TransitionReturn(p)
         \/ /\ pc[p] \in {"scan", "cr_scan"}
            /\ \E i \in Ids : /\ disk[i].at = "json"
                              /\ Change(i, [disk[i] EXCEPT !.at = "published"])
         \/ CreateStaging(p) \/ CreateTemporary(p) \/ CreateJson(p) \/ CreateFails(p)
         \/ CreateName(p) \/ TransitionReplace(p)
<1> USE DEF Sync
<1>1. CASE BeginBootstrap(p) \/ BeginCheck(p) \/ End(p) \/ Crash(p)
  BY <1>1 DEF BeginBootstrap, BeginCheck, End, Crash
<1>2. CASE Load(p)
  BY <1>2 DEF Load, EnsureRoot, Acquire, Scan, ScanSync, Loaded
<1>3. CASE ReadOnly(p)
  BY <1>3 DEF ReadOnly, ReadList, ReadLock, Read
<1>4. CASE Create(p)
  BY <1>4 DEF Create, EnsureRoot, Acquire, Scan, ScanSync, CreateChecked
<1>5. CASE Update(p)
  BY <1>5 DEF Update, Reload, TransitionLock, TransitionJournal, TransitionCompare
<1> QED BY <1>1, <1>2, <1>3, <1>4, <1>5 DEF Step, Continue

\* An appended boundary leaves the earlier ones a prefix.
LEMMA PrefixOfAppend ==
  ASSUME NEW s \in Seq(Procs), NEW t \in Seq(Procs), NEW x \in Procs, IsPrefix(s, t)
  PROVE  IsPrefix(s, t) /\ IsPrefix(s, Append(t, x)) /\ IsPrefix(t, t) /\ IsPrefix(<<>>, t)
BY DEF IsPrefix

\* A changed directory keeps both promises about the images of the disk, if it
\* was unfinished already or nothing is, and if it keeps what was returned.
LEMMA ChangeKeeps ==
  ASSUME TypeOK, OneUnfinished, ReportedStays, NEW i \in Ids, NEW e, Change(i, e),
         e.at \in {"json", "published"} /\ e.state.live =>
            Unfinished(disk, i) \/ \A k \in Ids : ~Unfinished(disk, k),
         \A t \in told : t[1] = i => e.at \in {"json", "published"} /\ IsPrefix(t[2], e.state.done)
  PROVE  OneUnfinished' /\ ReportedStays'
<1>1. /\ disk \in [Ids -> [at : Places, state : Contents]]
      /\ disk' = [disk EXCEPT ![i] = e] /\ past' = past \cup {disk} /\ told' = told
  BY DEF TypeOK, Images, Change
<1>2. told \subseteq Ids \X Seq(Procs)
  BY DEF TypeOK
<1>3. OneUnfinished'
  <2> SUFFICES ASSUME NEW image \in past' \cup {disk'}, NEW j \in Ids, NEW k \in Ids,
                      Unfinished(image, j), Unfinished(image, k)
               PROVE  j = k
    BY DEF OneUnfinished, Unfinished
  <2>1. CASE image \in past \cup {disk}
    BY <2>1 DEF OneUnfinished
  <2>2. CASE image = disk'
    <3>1. \A m \in Ids : Unfinished(image, m) => m = i \/ Unfinished(disk, m)
      BY <1>1, <2>2 DEF Unfinished
    <3>2. Unfinished(image, i) => Unfinished(disk, i) \/ \A m \in Ids : ~Unfinished(disk, m)
      BY <1>1, <2>2 DEF Unfinished
    <3> QED BY <3>1, <3>2 DEF OneUnfinished
  <2> QED BY <1>1, <2>1, <2>2
<1>4. ReportedStays'
  <2> SUFFICES ASSUME NEW image \in past' \cup {disk'}, NEW t \in told'
               PROVE  image[t[1]].at \in {"json", "published"} /\ IsPrefix(t[2],
               image[t[1]].state.done)
    BY DEF ReportedStays, IsPrefix
  <2>1. CASE image \in past \cup {disk}
    BY <1>1, <2>1 DEF ReportedStays
  <2>2. CASE image = disk'
    <3>1. t \in told /\ t[1] \in Ids
      BY <1>1, <1>2
    <3>2. CASE t[1] = i
      BY <1>1, <2>2, <3>1, <3>2
    <3>3. CASE t[1] # i
      BY <1>1, <2>2, <3>1, <3>3 DEF ReportedStays
    <3> QED BY <3>2, <3>3
  <2> QED BY <1>1, <2>1, <2>2
<1> QED BY <1>3, <1>4

\* Whatever a process does, both promises about the images of the disk stay.
LEMMA PromisesStep ==
  ASSUME IInv, NEW p \in Procs, Step(p) PROVE OneUnfinished' /\ ReportedStays'
<1>1. TypeOK /\ OneUnfinished /\ ReportedStays /\ Safe(p)
  BY DEF IInv
<1>2. /\ disk \in [Ids -> [at : Places, state : Contents]] /\ told \subseteq Ids \X Seq(Procs)
      /\ mem \in [Procs -> [id : Ids \cup {0}, state : Contents]]
  BY <1>1 DEF TypeOK, Images
<1>3. CASE UNCHANGED <<disk, past, told>>
  BY <1>1, <1>3 DEF OneUnfinished, ReportedStays, Unfinished, IsPrefix
<1>4. CASE UNCHANGED <<disk, told>> /\ past' = {}
  BY <1>1, <1>4 DEF OneUnfinished, ReportedStays, Unfinished, IsPrefix
<1>5. ASSUME NEW i \in Ids, NEW s \in Seq(Procs), told' = told \cup {<<i, s>>},
             UNCHANGED disk, past' = {}, disk[i].at = "published",
             disk[i].state.done = s \/ s = <<>>
      PROVE  OneUnfinished' /\ ReportedStays'
  <2>1. OneUnfinished'
    BY <1>1, <1>5 DEF OneUnfinished, Unfinished
  <2>2. disk[i].state.done \in Seq(Procs)
    BY <1>2 DEF Contents
  <2>3. IsPrefix(s, disk[i].state.done)
    BY <1>5, <2>2 DEF IsPrefix
  <2>4. ASSUME NEW t \in told'
        PROVE  disk'[t[1]].at \in {"json", "published"} /\ IsPrefix(t[2], disk'[t[1]].state.done)
    BY <1>1, <1>5, <2>3 DEF ReportedStays
  <2> QED BY <1>5, <2>1, <2>4 DEF ReportedStays, IsPrefix
<1>6. CASE CreateReturn(p)
  <2>1. new[p] \in Ids /\ disk[new[p]].at = "published" /\ <<>> \in Seq(Procs)
    BY <1>1, <1>6 DEF CreateReturn, Safe, Creating
  <2> QED BY <1>5, <1>6, <2>1 DEF CreateReturn, Sync
<1>7. CASE TransitionReturn(p)
  <2>1. /\ mem[p].id \in Ids /\ disk[mem[p].id].at = "published"
        /\ disk[mem[p].id].state = mem[p].state
    BY <1>1, <1>7 DEF TransitionReturn, Safe, Holding, UpdateSteps
  <2>2. mem[p].state.done \in Seq(Procs)
    BY <1>2 DEF Contents
  <2> QED BY <1>5, <1>7, <2>1, <2>2 DEF TransitionReturn, Sync
<1>8. ASSUME NEW i \in Ids, disk[i].at = "json", Change(i, [disk[i] EXCEPT !.at = "published"])
      PROVE  OneUnfinished' /\ ReportedStays'
  BY <1>1, <1>2, <1>8, ChangeKeeps DEF Unfinished, ReportedStays
<1>9. ASSUME NEW i \in Ids, disk[i].at \in {"none", "empty", "tmp"}, NEW e, Change(i, e),
             e.at \in {"empty", "tmp"} \/ \A k \in Ids : ~Unfinished(disk, k)
      PROVE  OneUnfinished' /\ ReportedStays'
  BY <1>1, <1>9, ChangeKeeps DEF ReportedStays
<1>10. CASE CreateStaging(p) \/ CreateTemporary(p) \/ CreateFails(p)
  BY <1>1, <1>9, <1>10 DEF CreateStaging, CreateTemporary, CreateFails, Safe, Creating, Nothing
<1>11. CASE CreateJson(p)
  BY <1>1, <1>9, <1>11 DEF CreateJson, Safe, Creating, Checked
<1>12. CASE CreateName(p)
  BY <1>1, <1>8, <1>12 DEF CreateName, Safe, Creating
<1>13. CASE TransitionReplace(p)
  <2>1. /\ mem[p].id \in Ids /\ disk[mem[p].id].at = "published" /\ mem[p].state.live
        /\ disk[mem[p].id].state = mem[p].state
    BY <1>1, <1>13 DEF TransitionReplace, Safe, Holding, UpdateSteps
  <2>2. PICK n \in {[mem[p].state EXCEPT !.done = Append(@, p)],
       [mem[p].state EXCEPT !.live = FALSE]} :
             Change(mem[p].id, [disk[mem[p].id] EXCEPT !.state = n])
    BY <1>13 DEF TransitionReplace
  <2> DEFINE e == [disk[mem[p].id] EXCEPT !.state = n]
             done == disk[mem[p].id].state.done
  <2>3. e.at = "published" /\ e.state = n /\ Unfinished(disk, mem[p].id)
    BY <1>2, <2>1 DEF Unfinished
  <2>4. done \in Seq(Procs) /\ n.done \in {done, Append(done, p)}
    BY <1>2, <2>1, <2>2 DEF Contents
  <2>5. ASSUME NEW t \in told, t[1] = mem[p].id PROVE IsPrefix(t[2], n.done)
    <3>1. t[2] \in Seq(Procs) /\ IsPrefix(t[2], done)
      BY <1>1, <1>2, <2>5 DEF ReportedStays
    <3> QED BY <2>4, <3>1, PrefixOfAppend
  <2>6. Change(mem[p].id, e)
    BY <2>2
  <2> HIDE DEF e
  <2> QED BY <1>1, <2>1, <2>3, <2>5, <2>6, ChangeKeeps
<1> QED BY <1>3, <1>4, <1>6, <1>7, <1>8, <1>10, <1>11, <1>12, <1>13, DiskSteps

-----------------------------------------------------------------------------
\* _updated_state returns a state.
LEMMA UpdatedTypes ==
  ASSUME NEW s \in Contents, NEW p \in Procs,
         NEW n \in {[s EXCEPT !.done = Append(@, p)], [s EXCEPT !.live = FALSE]}
  PROVE  n \in Contents
<1>1. s.done \in Seq(Procs) /\ s.live \in BOOLEAN
  BY DEF Contents
<1>2. Append(s.done, p) \in Seq(Procs)
  BY <1>1
<1>3. [s EXCEPT !.done = Append(@, p)] \in Contents
  BY <1>2 DEF Contents
<1>4. FALSE \in BOOLEAN
  OBVIOUS
<1>5. ASSUME NEW b \in BOOLEAN PROVE [s EXCEPT !.live = b] \in Contents
  BY <1>1 DEF Contents
<1>6. [s EXCEPT !.live = FALSE] \in Contents
  BY <1>4, <1>5
<1> QED BY <1>3, <1>6

\* The disk, its images and what was returned keep their types.
LEMMA DiskTypes ==
  ASSUME IInv, NEW p \in Procs, Step(p)
  PROVE  disk' \in Images /\ past' \subseteq Images /\ told' \subseteq Ids \X Seq(Procs)
<1>1. TypeOK /\ Safe(p)
  BY DEF IInv
<1>2. /\ disk \in Images /\ past \subseteq Images /\ told \subseteq Ids \X Seq(Procs)
      /\ mem \in [Procs -> [id : Ids \cup {0}, state : Contents]]
  BY <1>1 DEF TypeOK
<1>3. ASSUME NEW i, NEW e \in [at : Places, state : Contents], Change(i, e)
      PROVE  disk' \in Images /\ past' \subseteq Images /\ told' = told
  BY <1>2, <1>3 DEF Change, Images
<1>4. Fresh \in Contents
  BY DEF Fresh, Contents
<1>5. ASSUME NEW i \in Ids, NEW a \in Places PROVE [disk[i] EXCEPT !.at = a] \in [at : Places,
     state : Contents]
  BY <1>2 DEF Images
<1>6. ASSUME NEW a \in Places PROVE [Nothing EXCEPT !.at = a] \in [at : Places, state : Contents]
  BY <1>4 DEF Nothing, Places
<1>7. CASE \E i \in Ids : Change(i, [disk[i] EXCEPT !.at = "published"])
  BY <1>2, <1>3, <1>5, <1>7 DEF Places
<1>8. CASE CreateStaging(p) \/ CreateTemporary(p) \/ CreateJson(p) \/ CreateFails(p)
  BY <1>2, <1>3, <1>6, <1>8 DEF CreateStaging, CreateTemporary, CreateJson, CreateFails, Places
<1>9. CASE CreateName(p)
  BY <1>1, <1>7, <1>9 DEF CreateName, Safe, Creating
<1>10. CASE TransitionReplace(p)
  <2>1. mem[p].id \in Ids /\ mem[p].state \in Contents
    BY <1>1, <1>2, <1>10 DEF TransitionReplace, Safe, Holding, UpdateSteps
  <2>2. PICK n \in {[mem[p].state EXCEPT !.done = Append(@, p)],
       [mem[p].state EXCEPT !.live = FALSE]} :
             Change(mem[p].id, [disk[mem[p].id] EXCEPT !.state = n])
    BY <1>10 DEF TransitionReplace
  <2>3. n \in Contents
    BY <2>1, UpdatedTypes
  <2>4. [disk[mem[p].id] EXCEPT !.state = n] \in [at : Places, state : Contents]
    BY <1>2, <2>1, <2>3 DEF Images
  <2> QED BY <1>2, <1>3, <2>2, <2>4
<1>11. CASE CreateReturn(p)
  <2>1. new[p] \in Ids /\ <<>> \in Seq(Procs)
    BY <1>1, <1>11 DEF CreateReturn, Safe, Creating
  <2>2. <<new[p], <<>>>> \in Ids \X Seq(Procs)
    BY <2>1
  <2> QED BY <1>2, <1>11, <2>2 DEF CreateReturn, Sync
<1>12. CASE TransitionReturn(p)
  <2>1. mem[p].id \in Ids /\ mem[p].state.done \in Seq(Procs)
    BY <1>1, <1>2, <1>12 DEF TransitionReturn, Safe, Holding, UpdateSteps, Contents
  <2> QED BY <1>2, <1>12, <2>1 DEF TransitionReturn, Sync
<1>13. CASE UNCHANGED <<disk, told>> /\ (past' = {} \/ UNCHANGED past)
  BY <1>2, <1>13
<1> QED BY <1>7, <1>8, <1>9, <1>10, <1>11, <1>12, <1>13, DiskSteps

\* A process's own variables keep their types.
LEMMA ProcessTypes ==
  ASSUME IInv, NEW p \in Procs, Step(p)
  PROVE  /\ pc' \in [Procs -> {"idle"} \cup LoadSteps \cup ReadSteps \cup CreateSteps \cup UpdateSteps]
         /\ op' \in [Procs -> {"none", "bootstrap", "check"}]
         /\ mem' \in [Procs -> [id : Ids \cup {0}, state : Contents]]
         /\ new' \in [Procs -> Ids \cup {0}]
<1>1. TypeOK /\ Safe(p)
  BY DEF IInv
<1>2. /\ pc \in [Procs -> {"idle"} \cup LoadSteps \cup ReadSteps \cup CreateSteps \cup UpdateSteps]
      /\ op \in [Procs -> {"none", "bootstrap", "check"}]
      /\ mem \in [Procs -> [id : Ids \cup {0}, state : Contents]]
      /\ new \in [Procs -> Ids \cup {0}]
      /\ disk \in [Ids -> [at : Places, state : Contents]]
  BY <1>1 DEF TypeOK, Images
<1>3. Fresh \in Contents /\ NoState \in [id : Ids \cup {0}, state : Contents]
  BY DEF Fresh, Contents, NoState
<1>4. CASE Reload(p)
  <2>1. mem[p].id \in Ids
    BY <1>1, <1>4 DEF Reload, Safe, Holding, UpdateSteps
  <2> QED BY <1>2, <1>4, <2>1 DEF Reload, Set
<1>5. ASSUME TransitionReplace(p) PROVE mem' \in [Procs -> [id : Ids \cup {0}, state : Contents]]
  <2>1. PICK n \in {[mem[p].state EXCEPT !.done = Append(@, p)],
       [mem[p].state EXCEPT !.live = FALSE]} :
             mem' = Set(mem, p, [mem[p] EXCEPT !.state = n])
    BY <1>5 DEF TransitionReplace
  <2>2. mem[p].state \in Contents
    BY <1>2
  <2>3. n \in Contents
    BY <2>2, UpdatedTypes
  <2> QED BY <1>2, <2>1, <2>3 DEF Set
<1> USE <1>2 DEF Set, Goto, LoadSteps, ReadSteps, CreateSteps, UpdateSteps
<1>6. CASE Stop(p)
  BY <1>3, <1>6 DEF Stop
<1>7. CASE BeginBootstrap(p) \/ BeginCheck(p)
  BY <1>7 DEF BeginBootstrap, BeginCheck
<1>8. CASE Load(p)
  <2>1. CASE Loaded(p)
    BY <1>6, <2>1 DEF Loaded
  <2> QED BY <1>6, <1>8, <2>1 DEF Load, EnsureRoot, Acquire, Scan, ScanSync
<1>9. CASE ReadOnly(p)
  BY <1>6, <1>9 DEF ReadOnly, ReadList, ReadLock, Read, ReadDone
<1>10. CASE Create(p)
  <2>1. CASE CreateChecked(p)
    BY <1>6, <2>1 DEF CreateChecked
  <2>2. CASE CreateReturn(p)
    <3>1. [id |-> new[p], state |-> Fresh] \in [id : Ids \cup {0}, state : Contents]
      BY <1>3
    <3> QED BY <2>2, <3>1 DEF CreateReturn
  <2> QED BY <1>6, <1>10, <2>1, <2>2 DEF Create, EnsureRoot, Acquire, Scan, ScanSync, CreateStaging,
          CreateTemporary, CreateJson, CreateName
<1>11. CASE Reload(p) \/ TransitionReplace(p)
  BY <1>11, <1>4, <1>5 DEF Reload, TransitionReplace
<1>12. CASE TransitionLock(p) \/ TransitionJournal(p) \/ TransitionCompare(p) \/ TransitionReturn(p)
  BY <1>6, <1>12 DEF TransitionLock, TransitionJournal, TransitionCompare, TransitionReturn
<1>13. CASE End(p) \/ CreateFails(p) \/ Crash(p)
  BY <1>6, <1>13 DEF End, CreateFails, Crash
<1> QED BY <1>7, <1>8, <1>9, <1>10, <1>11, <1>12, <1>13 DEF Step, Continue, Update

\* So do the locks, the state root and the count of faults.
LEMMA SharedTypes ==
  ASSUME IInv, NEW p \in Procs, Step(p)
  PROVE  /\ root' \in {"absent", "empty", "used"} /\ faults' \in 0..MaxFaults
         /\ boot' \in Procs \cup {NoOne} /\ journal' \in Procs \cup {NoOne}
<1>1. TypeOK
  BY DEF IInv
<1>2. /\ root \in {"absent", "empty", "used"} /\ faults \in 0..MaxFaults
      /\ boot \in Procs \cup {NoOne} /\ journal \in Procs \cup {NoOne}
  BY <1>1 DEF TypeOK
<1>3. UNCHANGED faults \/ Fault
  BY DEF Step, BeginBootstrap, BeginCheck, Continue, Load, ReadOnly, Create, Update, End,
     CreateFails, Crash, EnsureRoot, Acquire, Scan, ScanSync, Loaded, ReadList, ReadLock, Read,
     CreateChecked, CreateStaging, CreateTemporary, CreateJson, CreateName, CreateReturn, Reload,
     TransitionLock, TransitionJournal, TransitionCompare, TransitionReplace, TransitionReturn
<1>4. faults' \in 0..MaxFaults
  BY <1>2, <1>3, JournalAssumption DEF Fault
<1>5. \/ UNCHANGED root \/ root' = "used" \/ root' = IF root = "absent" THEN "empty" ELSE root
  BY DEF Step, BeginBootstrap, BeginCheck, Continue, Load, ReadOnly, Create, Update, End,
     CreateFails, Crash, EnsureRoot, Acquire, Scan, ScanSync, Loaded, ReadList, ReadLock, Read,
     CreateChecked, CreateStaging, CreateTemporary, CreateJson, CreateName, CreateReturn, Reload,
     TransitionLock, TransitionJournal, TransitionCompare, TransitionReplace, TransitionReturn,
     Change, Sync
<1>6. boot' \in {boot, p, NoOne} /\ journal' \in {journal, p, NoOne}
  BY DEF Step, BeginBootstrap, BeginCheck, Continue, Load, ReadOnly, Create, Update, End,
     CreateFails, Crash, EnsureRoot, Acquire, Scan, ScanSync, Loaded, ReadList, ReadLock, Read,
     ReadDone, CreateChecked, CreateStaging, CreateTemporary, CreateJson, CreateName, CreateReturn,
     Reload, TransitionLock, TransitionJournal, TransitionCompare, TransitionReplace,
     TransitionReturn, Stop, Release, locks
<1> QED BY <1>2, <1>4, <1>5, <1>6

-----------------------------------------------------------------------------
\* What the lock protects in the other processes stays: at most "held" is outside
\* the lock, and a published transaction stays published.
LEMMA OthersSafe ==
  ASSUME IInv, NEW p \in Procs, Step(p), NEW q \in Procs, q # p PROVE Safe(q)'
<1>1. TypeOK /\ Safe(p) /\ Safe(q)
  BY DEF IInv
<1>2. Undisturbed(p, q)
  BY <1>1, OthersKept
<1>3. Exclusive(q)'
  BY <1>1, <1>2 DEF Safe, Exclusive, Undisturbed
<1>4. CASE UNCHANGED disk
  <2>1. (Checked(q) /\ Creating(q) /\ Holding(q))'
    BY <1>1, <1>2, <1>4 DEF Undisturbed, Safe, Checked, Creating, Holding, Unfinished
  <2> QED BY <1>3, <2>1 DEF Safe
<1>5. ASSUME pc[p] \in Locked, \A i \in Ids : disk[i].at = "published" => disk'[i].at = "published"
      PROVE  Safe(q)'
  <2>1. pc[q] \notin Locked
    BY <1>1, <1>5 DEF Safe, Exclusive
  <2>2. (Checked(q) /\ Creating(q))'
    BY <1>2, <2>1 DEF Undisturbed, Checked, Creating, Locked, CreateSteps
  <2>3. Holding(q)'
    BY <1>1, <1>2, <1>5, <2>1 DEF Undisturbed, Safe, Holding, Locked, UpdateSteps
  <2> QED BY <1>3, <2>2, <2>3 DEF Safe
<1>6. disk \in [Ids -> [at : Places, state : Contents]]
  BY <1>1 DEF TypeOK, Images
<1> USE <1>6 DEF Change, Locked, CreateSteps
<1>7. ASSUME NEW i \in Ids, pc[p] \in {"scan", "cr_scan"}, disk[i].at = "json",
             Change(i, [disk[i] EXCEPT !.at = "published"])
      PROVE  Safe(q)'
  BY <1>5, <1>7
<1>8. CASE CreateStaging(p) \/ CreateTemporary(p) \/ CreateJson(p) \/ CreateFails(p) \/ CreateName(p)
  BY <1>1, <1>5, <1>8 DEF CreateStaging, CreateTemporary, CreateJson, CreateFails, CreateName,
     Safe, Creating
<1>9. CASE TransitionReplace(p)
  BY <1>5, <1>9 DEF TransitionReplace
<1>10. CASE CreateReturn(p) \/ TransitionReturn(p)
  BY <1>4, <1>10 DEF CreateReturn, TransitionReturn, Sync
<1> QED BY <1>4, <1>7, <1>8, <1>9, <1>10, DiskSteps

\* A process keeps its own part of the invariant: it works under the lock on what
\* it has checked under the lock.
LEMMA SelfSafe == ASSUME IInv, NEW p \in Procs, Step(p) PROVE Safe(p)'
<1>1. TypeOK /\ Safe(p)
  BY DEF IInv
<1>2. /\ pc \in [Procs -> {"idle"} \cup LoadSteps \cup ReadSteps \cup CreateSteps \cup UpdateSteps]
      /\ mem \in [Procs -> [id : Ids \cup {0}, state : Contents]]
      /\ new \in [Procs -> Ids \cup {0}]
      /\ disk \in [Ids -> [at : Places, state : Contents]]
  BY <1>1 DEF TypeOK, Images
<1> USE <1>1, <1>2 DEF Safe, Exclusive, Checked, Creating, Holding, Locked, CreateSteps,
     UpdateSteps,
        Set, Goto, Release
<1>3. CASE Stop(p)
  BY <1>3 DEF Stop
<1>4. CASE BeginBootstrap(p) \/ BeginCheck(p)
  BY <1>4 DEF BeginBootstrap, BeginCheck
<1>5. CASE EnsureRoot(p, "root", "lock") \/ EnsureRoot(p, "cr_root", "cr_lock")
  BY <1>5 DEF EnsureRoot
<1>6. CASE Acquire(p, "lock", "scan") \/ Acquire(p, "cr_lock", "cr_scan")
  BY <1>3, <1>6 DEF Acquire
<1>7. CASE Scan(p, "scan", "sc_sync", "found") \/ Scan(p, "cr_scan", "cr_scsync", "cr_found")
  BY <1>7 DEF Scan, locks
<1>8. CASE ScanSync(p, "sc_sync", "scan") \/ ScanSync(p, "cr_scsync", "cr_scan")
  BY <1>8 DEF ScanSync, locks
<1>9. CASE ScanSync(p, "cr_dir", "cr_temp") \/ ScanSync(p, "cr_jsync", "cr_name")
  BY <1>9 DEF ScanSync, locks, Sync, Unfinished
<1>10. CASE Loaded(p)
  BY <1>3, <1>10 DEF Loaded, Found
<1>11. CASE ReadOnly(p)
  BY <1>3, <1>11 DEF ReadOnly, ReadList, ReadLock, Read, ReadDone
<1>12. CASE CreateChecked(p)
  BY <1>3, <1>12 DEF CreateChecked, Found, Unfinished, Nothing, locks
<1>13. CASE CreateStaging(p) \/ CreateTemporary(p)
  BY <1>13 DEF CreateStaging, CreateTemporary, Change, Nothing, Unfinished, locks
<1>14. CASE CreateJson(p) \/ CreateName(p)
  BY <1>14 DEF CreateJson, CreateName, Change, Nothing, locks
<1>15. CASE CreateReturn(p)
  BY <1>15 DEF CreateReturn, Sync
<1>16. CASE Reload(p) \/ TransitionLock(p) \/ TransitionJournal(p)
  BY <1>3, <1>16 DEF Reload, TransitionLock, TransitionJournal, locks
<1>17. CASE TransitionCompare(p) \/ TransitionReturn(p)
  BY <1>3, <1>17 DEF TransitionCompare, TransitionReturn, Sync, locks
<1>18. CASE TransitionReplace(p)
  BY <1>18 DEF TransitionReplace, Change, locks
<1>19. CASE End(p) \/ CreateFails(p) \/ Crash(p)
  BY <1>3, <1>19 DEF End, CreateFails, Crash
<1> QED BY <1>4, <1>5, <1>6, <1>7, <1>8, <1>9, <1>10, <1>11, <1>12, <1>13, <1>14, <1>15, <1>16,
         <1>17, <1>18, <1>19 DEF Step, Continue, Load, Create, Update

\* A power loss brings back an image that keeps both promises, and no process.
LEMMA PowerLossInv == ASSUME IInv, PowerLoss PROVE IInv'
<1>1. TypeOK /\ OneUnfinished /\ ReportedStays
  BY DEF IInv
<1>2. disk' \in past \cup {disk} /\ past' = {} /\ told' = told
  BY DEF PowerLoss
<1>3. TypeOK'
  <2>1. NoState \in [id : Ids \cup {0}, state : Contents]
    BY DEF NoState, Fresh, Contents
  <2>2. disk' \in Images /\ past' \subseteq Images
    BY <1>1, <1>2 DEF TypeOK
  <2> QED BY <1>1, <2>1, <2>2, JournalAssumption DEF TypeOK, PowerLoss, Fault
<1>4. \A p \in Procs : Safe(p)'
  BY DEF PowerLoss, Safe, Exclusive, Checked, Creating, Holding, Locked, CreateSteps, UpdateSteps
<1>5. OneUnfinished' /\ ReportedStays'
  BY <1>1, <1>2 DEF OneUnfinished, ReportedStays, Unfinished, IsPrefix
<1> QED BY <1>3, <1>4, <1>5 DEF IInv

-----------------------------------------------------------------------------
(* The theorems *)

\* The invariant holds through every race, exit and power loss.
THEOREM Inductive == Spec => []IInv
<1>1. ASSUME IInv, [Next]_vars PROVE IInv'
  <2>1. CASE UNCHANGED vars
    BY <1>1, <2>1 DEF vars, locks, process, IInv, TypeOK, Safe, Exclusive, Checked, Creating,
         Holding,
       OneUnfinished, ReportedStays, Unfinished, IsPrefix
  <2>2. CASE PowerLoss
    BY <1>1, <2>2, PowerLossInv
  <2>3. ASSUME NEW p \in Procs, Step(p) PROVE IInv'
    <3>1. TypeOK'
      BY <1>1, <2>3, DiskTypes, ProcessTypes, SharedTypes DEF TypeOK
    <3>2. \A q \in Procs : Safe(q)'
      BY <1>1, <2>3, SelfSafe, OthersSafe
    <3>3. OneUnfinished' /\ ReportedStays'
      BY <1>1, <2>3, PromisesStep
    <3> QED BY <3>1, <3>2, <3>3 DEF IInv
  <2> QED BY <1>1, <2>1, <2>2, <2>3 DEF Next, Step
<1> QED BY InitInv, <1>1, PTL DEF Spec

\* Two processes never leave two unfinished transactions, in no image of the disk
\* that a power loss can bring back.
THEOREM NeverTwoUnfinished == Spec => []OneUnfinished
<1>1. IInv => OneUnfinished
  BY DEF IInv
<1> QED BY <1>1, Inductive, PTL

\* What create_transaction and transition returned survives every later exit,
\* power loss and write of another process.
THEOREM ReturnedIsDurable == Spec => []ReportedStays
<1>1. IInv => ReportedStays
  BY DEF IInv
<1> QED BY <1>1, Inductive, PTL

\* bootstrap.lock: two processes are never both between its acquisition and its
\* release, so a compare and the replace that follows it are not interleaved.
THEOREM BootstrapLockExcludes ==
  Spec => [](\A p, q \in Procs : pc[p] \in Locked /\ pc[q] \in Locked => p = q)
<1>1. IInv => \A p, q \in Procs : pc[p] \in Locked /\ pc[q] \in Locked => p = q
  BY DEF IInv, Safe, Exclusive
<1> QED BY <1>1, Inductive, PTL
=============================================================================
