-------------------------- MODULE PrepareInputsProofs --------------------------
(***************************************************************************)
(* Proofs about PrepareInputs, for any set of files of other programs and  *)
(* any number of faults: what Prepare's own objects are where a name is    *)
(* published by a rename, and that no other program's object is destroyed. *)
(***************************************************************************)
EXTENDS PrepareInputs, TLAPS

Working == step \notin {"idle", "done"}
Renaming == {"publish", "verify", "sync", "undo", "restore"}

\* A name is being obtained exactly while the process works; only a renamed name
\* goes through the steps of a rename; only "restore" holds a moved object.
Control ==
    /\ at = "none" <=> step \in {"idle", "done"}
    /\ step \in Renaming => ~InPlace(at)
    /\ step = "check" => InPlace(at)
    /\ step # "restore" => held = "absent"

\* A name that is written in place holds what the process wrote, and nothing else.
InPlaceIsOwn ==
    InPlace(at) =>
        /\ step = "make" => has[at] = "absent"
        /\ step = "fill" => has[at] = "partial"
        /\ step = "check" => has[at] \in Written

\* A power loss never puts anything back over another program's object.
PastIsOwn ==
    /\ \A n \in Names : past[n] # {} => has[n] \notin Foreign
    /\ step = "restore" => past[at] = {}

\* What is renamed has the pinned contents: an archive is scanned under the
\* identity that was hashed, and only approved contents reach the rename.
TempIsPinned ==
    /\ at = "tree" /\ step \in {"make", "fill"} => Pinned(src)
    /\ step = "publish" => temp = "pinned"
    /\ step = "restore" => held \notin {"partial", "other"}

\* A composed stage the process has made is durable and approved, and its last.
StagedIsFinal ==
    mode = "composed" /\ "stage" \in made =>
        step = "done" /\ past["stage"] = {} /\ Pinned(has["stage"])

RenamedIsPinned ==
    \A n \in Shared : ~InPlace(n) => Images(n) \cap {"partial", "other"} = {}

IInv ==
    /\ TypeOK /\ Control /\ InPlaceIsOwn /\ PastIsOwn /\ TempIsPinned
    /\ StagedIsFinal /\ RenamedIsPinned /\ NothingForeignDestroyed

-----------------------------------------------------------------------------
(* Where the process goes next *)

\* The order in which Prepare obtains its names has a first name, names only
\* names, and ends with the stage of a composed setup.
LEMMA OrderFact ==
    ASSUME mode \in Modes
    PROVE  /\ Order[1] \in Names
           /\ Len(Order) \in Nat
           /\ \A i \in DOMAIN Order : i \in Nat /\ (i < Len(Order) => Order[i + 1] \in Names)
           /\ mode = "composed" => \A i \in DOMAIN Order : Order[i] = "stage" => i = Len(Order)
  <1>1. CASE mode = "composed"
    BY <1>1 DEF Order, Names
  <1>2. CASE mode = "ge"
    BY <1>2 DEF Order, Names
  <1>3. CASE mode \in {"download", "source"}
    BY <1>3 DEF Order, Names
  <1>4. CASE mode = "local"
    BY <1>4 DEF Order, Names
  <1> QED BY <1>1, <1>2, <1>3, <1>4 DEF Modes

\* Advance ends the work or turns to another name; a composed stage is the last.
LEMMA AdvanceFact ==
    ASSUME mode \in Modes, Advance
    PROVE  /\ temp' = "absent" /\ src' = "absent" /\ held' = "absent"
           /\ \/ at' = "none" /\ step' = "done"
              \/ at' \in Names /\ step' \in {"look", "inspect"}
           /\ mode = "composed" /\ at = "stage" => step' = "done"
  BY OrderFact DEF Advance, Names

\* A moment's work leaves a process that holds nothing, whatever the name was.
Quiet == /\ temp' = "absent" /\ src' = "absent" /\ held' = "absent"
         /\ \/ at' = "none" /\ step' \in {"idle", "done"}
            \/ at' \in Names /\ step' \in {"look", "inspect"}

\* A process that stops or turns to another name keeps every part of the
\* invariant that is about its own work.
LEMMA QuietKeeps ==
    ASSUME TypeOK, Quiet
    PROVE  /\ temp' \in Written \cup {"absent"} /\ src' \in Objects /\ held' \in Objects
           /\ at' \in Names \cup {"none"} /\ step' \in Steps
           /\ Control' /\ InPlaceIsOwn' /\ TempIsPinned'
           /\ step' # "restore"
  BY DEF TypeOK, Quiet, Written, Objects, Names, Steps, Control, Renaming, InPlaceIsOwn,
         TempIsPinned, InPlace

\* Stop is such a step, and so is Advance.
LEMMA StopIsQuiet == Stop => Quiet /\ made' = {} /\ step' = "idle"
  BY DEF Stop, Quiet

\* Advance ends the process's work on its name; it finishes over a composed stage.
LEMMA AdvanceIsQuiet ==
    TypeOK /\ Advance =>
        Quiet /\ step' # "idle" /\ (mode = "composed" /\ at = "stage" => step' = "done")
  BY AdvanceFact DEF TypeOK, Quiet

\* While no file changes, what is known of the files stays; the objects of other
\* programs that the process held are only given up under a recovery name.
LEMMA FilesKept ==
    ASSUME IInv, UNCHANGED <<mode, has, past, placed>>, step' # "restore",
           aside \subseteq aside', step = "restore" => held \in aside'
    PROVE  PastIsOwn' /\ RenamedIsPinned' /\ NothingForeignDestroyed'
  <1>1. PastIsOwn'
    BY DEF IInv, PastIsOwn
  <1>2. RenamedIsPinned'
    BY DEF IInv, RenamedIsPinned, Images, InPlace
  <1>3. NothingForeignDestroyed'
    <2>1. held = "absent" \/ held \in aside'
      BY DEF IInv, Control
    <2>2. "absent" \notin placed
      BY InputsAssumption DEF IInv, TypeOK
    <2> QED BY <2>1, <2>2 DEF IInv, NothingForeignDestroyed
  <1> QED BY <1>1, <1>2, <1>3

-----------------------------------------------------------------------------
(* Every action preserves the invariant *)

\* The invariant holds before Prepare has run.
LEMMA InitInv == Init => IInv
  <1> SUFFICES ASSUME Init PROVE IInv
    OBVIOUS
  <1>1. TypeOK
    <2>1. litter \in BOOLEAN
      BY Zenon DEF Init
    <2> QED BY <2>1, InputsAssumption
            DEF Init, TypeOK, Given, Modes, Names, Steps, Objects, Written
  <1>2. Control /\ InPlaceIsOwn /\ PastIsOwn /\ TempIsPinned /\ StagedIsFinal
    BY DEF Init, Control, Renaming, InPlaceIsOwn, PastIsOwn, TempIsPinned, StagedIsFinal, Names
  <1>3. RenamedIsPinned
    BY InputsAssumption DEF Init, RenamedIsPinned, Images, Shared, Names
  <1>4. NothingForeignDestroyed
    BY DEF Init, NothingForeignDestroyed, Names, Given
  <1> QED BY <1>1, <1>2, <1>3, <1>4 DEF IInv

\* Prepare starts with its first name.
LEMMA BeginInv == IInv /\ Begin => IInv'
  <1> SUFFICES ASSUME IInv, Begin PROVE IInv'
    OBVIOUS
  <1>1. Order[1] \in Names
    BY OrderFact DEF IInv, TypeOK
  <1>2. held = "absent" /\ temp' = temp /\ src' = src /\ held' = held
    BY DEF IInv, Control, Begin
  <1>3. TypeOK'
    BY <1>1 DEF IInv, TypeOK, Begin, files, Steps
  <1>4. Control' /\ InPlaceIsOwn' /\ TempIsPinned'
    BY <1>1, <1>2 DEF Begin, Control, Renaming, InPlaceIsOwn, TempIsPinned, Names
  <1>5. StagedIsFinal'
    BY DEF IInv, StagedIsFinal, Begin, files
  <1>6. PastIsOwn' /\ RenamedIsPinned' /\ NothingForeignDestroyed'
    BY FilesKept DEF Begin, files
  <1> QED BY <1>3, <1>4, <1>5, <1>6 DEF IInv

\* An archive is hashed under the descriptor that is scanned later on.
LEMMA LookInv == IInv /\ Look => IInv'
  <1> SUFFICES ASSUME IInv, Look PROVE IInv'
    OBVIOUS
  <1>1. UNCHANGED <<mode, world, has, past, litter, aside, placed, faults>> /\ step = "look"
    BY DEF Look, files
  <1>2. CASE Stop
    <2>1. Quiet /\ made' = {}
      BY <1>2, StopIsQuiet
    <2>2. TypeOK' /\ Control' /\ InPlaceIsOwn' /\ TempIsPinned' /\ step' # "restore"
      BY <1>1, <2>1, QuietKeeps DEF IInv, TypeOK
    <2> QED BY <1>1, <2>1, <2>2, FilesKept DEF IInv, StagedIsFinal
  <1>3. CASE /\ Ready /\ src' = Input
             /\ step' = (IF has[at] = "absent" THEN "make" ELSE "inspect")
             /\ UNCHANGED <<temp, held, at, made>>
    <2>1. at \in Names /\ held' = "absent"
      BY <1>1, <1>3 DEF IInv, TypeOK, Control
    <2>2. Input \in Objects
      BY DEF IInv, TypeOK, Input, Objects, Written, Names
    <2>3. TypeOK'
      BY <1>1, <1>3, <2>2 DEF IInv, TypeOK, Steps
    <2>4. Control' /\ InPlaceIsOwn'
      BY <1>1, <1>3, <2>1 DEF Control, Renaming, InPlaceIsOwn, Names, InPlace
    <2>5. TempIsPinned'
      BY <1>1, <1>3 DEF TempIsPinned, Ready, Pinned
    <2>6. StagedIsFinal'
      BY <1>1, <1>3 DEF IInv, StagedIsFinal
    <2> QED BY <1>1, <1>3, <2>3, <2>4, <2>5, <2>6, FilesKept DEF IInv
  <1> QED BY <1>2, <1>3 DEF Look

\* What is there already is accepted or refused, never changed.
LEMMA InspectInv == IInv /\ Inspect => IInv'
  <1> SUFFICES ASSUME IInv, Inspect PROVE IInv'
    OBVIOUS
  <1>1. UNCHANGED <<mode, world, has, past, litter, aside, placed, faults>> /\ step = "inspect"
    BY DEF Inspect, files
  <1>2. (Advance /\ UNCHANGED made) \/ Stop
    BY DEF Inspect
  <1>3. Quiet /\ (UNCHANGED made \/ made' = {})
    BY <1>2, StopIsQuiet, AdvanceIsQuiet DEF IInv
  <1>4. TypeOK' /\ Control' /\ InPlaceIsOwn' /\ TempIsPinned' /\ step' # "restore"
    BY <1>1, <1>3, QuietKeeps DEF IInv, TypeOK
  <1>5. StagedIsFinal'
    BY <1>1, <1>3 DEF IInv, StagedIsFinal
  <1> QED BY <1>1, <1>4, <1>5, FilesKept DEF IInv

\* Writing something of Prepare's own over something of its own, at the name the
\* process obtains, disturbs no other program and no renamed name but with pinned
\* contents.
LEMMA PutKeeps ==
    ASSUME IInv, NEW o \in Written \cup {"absent"}, Put(at, o), at \in Names,
           has[at] \in Written \cup {"absent"},
           InPlace(at) \/ (o = "pinned" /\ has[at] = "absent"),
           UNCHANGED <<mode, placed>>, aside \subseteq aside', step # "restore",
           step' # "restore"
    PROVE  /\ has' \in [Names -> Objects]
           /\ past' \in [Names -> SUBSET (Written \cup {"absent"})]
           /\ PastIsOwn' /\ RenamedIsPinned' /\ NothingForeignDestroyed'
  <1>1. has' = [has EXCEPT ![at] = o] /\ past' = [past EXCEPT ![at] = @ \cup {has[at]}]
    BY DEF Put
  <1>2. has \in [Names -> Objects] /\ past \in [Names -> SUBSET (Written \cup {"absent"})]
    BY DEF IInv, TypeOK
  <1>3. /\ has' \in [Names -> Objects]
        /\ past' \in [Names -> SUBSET (Written \cup {"absent"})]
    BY <1>1, <1>2 DEF Objects
  <1>4. Written \cap Foreign = {} /\ "absent" \notin Foreign
    BY InputsAssumption DEF Written
  <1>5. PastIsOwn'
    BY <1>1, <1>2, <1>4 DEF IInv, PastIsOwn
  <1>6. RenamedIsPinned'
    <2> SUFFICES ASSUME NEW n \in Shared, ~InPlace(n)
                 PROVE  Images(n)' \cap {"partial", "other"} = {}
      BY DEF RenamedIsPinned, InPlace
    <2>1. n \in Names /\ Images(n) \cap {"partial", "other"} = {}
      BY DEF IInv, RenamedIsPinned, Shared, Names
    <2>2. CASE n # at
      BY <1>1, <1>2, <2>1, <2>2 DEF Images
    <2>3. CASE n = at
      BY <1>1, <1>2, <2>1, <2>3 DEF Images
    <2> QED BY <2>2, <2>3
  <1>7. NothingForeignDestroyed'
    <2> SUFFICES ASSUME NEW f \in placed
                 PROVE  f \in aside' \cup {held'} \cup {has'[n] : n \in Names}
      BY DEF NothingForeignDestroyed
    <2>1. f \in Foreign /\ held = "absent"
      BY DEF IInv, TypeOK, Control
    <2>2. f \in aside \/ \E n \in Names : f = has[n]
      BY <1>4, <2>1 DEF IInv, NothingForeignDestroyed
    <2>3. ASSUME NEW n \in Names, f = has[n] PROVE has'[n] = f
      BY <1>1, <1>2, <1>4, <2>1, <2>3
    <2> QED BY <2>2, <2>3
  <1> QED BY <1>3, <1>5, <1>6, <1>7

\* A copy in place starts over nothing.
LEMMA CopyBeginsInv == IInv /\ CopyBegins => IInv'
  <1> SUFFICES ASSUME IInv, CopyBegins PROVE IInv'
    OBVIOUS
  <1>1. /\ step = "make" /\ InPlace(at) /\ Put(at, "partial") /\ step' = "fill"
        /\ UNCHANGED <<temp, src, held, at, made, mode, world, litter, aside, placed, faults>>
    BY DEF CopyBegins, Goto
  <1>2. at \in Names /\ has[at] = "absent"
    BY <1>1 DEF IInv, TypeOK, Control, InPlaceIsOwn
  <1>3. /\ has' \in [Names -> Objects]
        /\ past' \in [Names -> SUBSET (Written \cup {"absent"})]
        /\ PastIsOwn' /\ RenamedIsPinned' /\ NothingForeignDestroyed'
    BY <1>1, <1>2, PutKeeps DEF Written
  <1>4. TypeOK'
    BY <1>1, <1>3 DEF IInv, TypeOK, Steps
  <1>5. Control' /\ InPlaceIsOwn'
    BY <1>1, <1>2 DEF IInv, TypeOK, Control, Renaming, InPlaceIsOwn, Put, InPlace
  <1>6. TempIsPinned' /\ StagedIsFinal'
    BY <1>1 DEF IInv, TempIsPinned, StagedIsFinal, InPlace, Pinned
  <1> QED BY <1>3, <1>4, <1>5, <1>6 DEF IInv

\* A copy in place ends over its own part.
LEMMA CopyEndsInv == IInv /\ CopyEnds => IInv'
  <1> SUFFICES ASSUME IInv, CopyEnds PROVE IInv'
    OBVIOUS
  <1>1. /\ step = "fill" /\ InPlace(at) /\ step' = "check"
        /\ UNCHANGED <<temp, src, held, at, made, mode, world, litter, aside, placed>>
        /\ faults' \in 0..MaxFaults
    BY InputsAssumption DEF IInv, TypeOK, CopyEnds, Goto, Fault
  <1>2. at \in Names /\ has[at] = "partial"
    BY <1>1 DEF IInv, TypeOK, Control, InPlaceIsOwn
  <1>3. PICK o \in Written : Put(at, o)
    BY DEF CopyEnds, Copied, Scan, Written
  <1>4. /\ has' \in [Names -> Objects]
        /\ past' \in [Names -> SUBSET (Written \cup {"absent"})]
        /\ PastIsOwn' /\ RenamedIsPinned' /\ NothingForeignDestroyed'
    BY <1>1, <1>2, <1>3, PutKeeps DEF Written
  <1>5. TypeOK'
    BY <1>1, <1>4 DEF IInv, TypeOK, Steps
  <1>6. Control' /\ InPlaceIsOwn'
    BY <1>1, <1>2, <1>3 DEF IInv, TypeOK, Control, Renaming, InPlaceIsOwn, Put, InPlace
  <1>7. TempIsPinned' /\ StagedIsFinal'
    BY <1>1 DEF IInv, TempIsPinned, StagedIsFinal
  <1> QED BY <1>4, <1>5, <1>6, <1>7 DEF IInv

\* What has been checked or synced is durable: forgetting what a power loss may put
\* back disturbs nothing.
LEMMA SyncKeeps ==
    ASSUME IInv, UNCHANGED <<mode, has, placed, aside>>, step # "restore", step' # "restore",
           \/ UNCHANGED past
           \/ past' = [past EXCEPT ![at] = {}]
    PROVE  /\ past' \in [Names -> SUBSET (Written \cup {"absent"})]
           /\ PastIsOwn' /\ RenamedIsPinned' /\ NothingForeignDestroyed'
  <1>1. past' \in [Names -> SUBSET (Written \cup {"absent"})]
    BY DEF IInv, TypeOK
  <1>2. \A n \in Names : past'[n] \subseteq past[n]
    BY DEF IInv, TypeOK
  <1>3. PastIsOwn'
    BY <1>2 DEF IInv, PastIsOwn
  <1>4. RenamedIsPinned'
    BY <1>2 DEF IInv, RenamedIsPinned, Images, InPlace, Shared, Names
  <1>5. NothingForeignDestroyed'
    BY InputsAssumption DEF IInv, TypeOK, Control, NothingForeignDestroyed
  <1> QED BY <1>1, <1>3, <1>4, <1>5

\* The checks after a copy; a composed stage is durable from here on.
LEMMA CheckInv == IInv /\ Check => IInv'
  <1> SUFFICES ASSUME IInv, Check PROVE IInv'
    OBVIOUS
  <1>1. step = "check" /\ UNCHANGED <<mode, world, has, litter, aside, placed, faults>>
    BY DEF Check
  <1>2. at \in Names
    BY <1>1 DEF IInv, TypeOK, Control
  <1>3. \/ /\ Advance /\ made' = made \cup {at}
           /\ mode = "composed" /\ at = "stage" => Pinned(has[at]) /\ past' = [past EXCEPT ![at] = {}]
           /\ \/ UNCHANGED past
              \/ past' = [past EXCEPT ![at] = {}]
        \/ Stop /\ UNCHANGED past
    BY DEF Check, Synced
  <1>4. Quiet /\ made' \subseteq Names
    BY <1>2, <1>3, StopIsQuiet, AdvanceIsQuiet DEF IInv, TypeOK
  <1>5. /\ temp' \in Written \cup {"absent"} /\ src' \in Objects /\ held' \in Objects
        /\ at' \in Names \cup {"none"} /\ step' \in Steps /\ step' # "restore"
        /\ Control' /\ InPlaceIsOwn' /\ TempIsPinned'
    BY <1>4, QuietKeeps DEF IInv
  <1>6. /\ past' \in [Names -> SUBSET (Written \cup {"absent"})]
        /\ PastIsOwn' /\ RenamedIsPinned' /\ NothingForeignDestroyed'
    BY <1>1, <1>3, <1>5, SyncKeeps
  <1>7. TypeOK'
    BY <1>1, <1>4, <1>5, <1>6 DEF IInv, TypeOK
  <1>8. StagedIsFinal'
    <2> SUFFICES ASSUME mode = "composed", "stage" \in made'
                 PROVE  step' = "done" /\ past'["stage"] = {} /\ Pinned(has["stage"])
      BY <1>1 DEF StagedIsFinal, Pinned
    <2>1. "stage" \notin made
      BY <1>1 DEF IInv, StagedIsFinal
    <2>2. at = "stage" /\ Advance /\ Pinned(has[at]) /\ past' = [past EXCEPT ![at] = {}]
      BY <1>3, <2>1, StopIsQuiet
    <2> QED BY <2>2, AdvanceIsQuiet DEF IInv, TypeOK, Names
  <1> QED BY <1>5, <1>6, <1>7, <1>8 DEF IInv

\* A failed bundle of a source build leaves its name.
LEMMA PreserveFailedInv == IInv /\ PreserveFailed => IInv'
  <1> SUFFICES ASSUME IInv, PreserveFailed PROVE IInv'
    OBVIOUS
  <1>1. /\ mode = "source" /\ at = "archive" /\ step \in {"fill", "check"} /\ Stop
        /\ Put(at, "absent") /\ UNCHANGED <<mode, world, aside, placed>>
        /\ faults' \in 0..MaxFaults
    BY InputsAssumption DEF IInv, TypeOK, PreserveFailed, Fault
  <1>2. litter' \in BOOLEAN
    BY Zenon DEF PreserveFailed
  <1>3. InPlace(at) /\ at \in Names /\ has[at] \in Written
    BY <1>1 DEF IInv, InPlaceIsOwn, InPlace, Names, Written
  <1>4. Quiet /\ made' = {} /\ step' = "idle"
    BY <1>1, StopIsQuiet
  <1>5. /\ temp' \in Written \cup {"absent"} /\ src' \in Objects /\ held' \in Objects
        /\ at' \in Names \cup {"none"} /\ step' \in Steps
        /\ Control' /\ InPlaceIsOwn' /\ TempIsPinned'
    BY <1>4, QuietKeeps DEF IInv
  <1>6. /\ has' \in [Names -> Objects]
        /\ past' \in [Names -> SUBSET (Written \cup {"absent"})]
        /\ PastIsOwn' /\ RenamedIsPinned' /\ NothingForeignDestroyed'
    BY <1>1, <1>3, <1>4, PutKeeps
  <1>7. TypeOK'
    BY <1>1, <1>2, <1>4, <1>5, <1>6 DEF IInv, TypeOK
  <1> QED BY <1>4, <1>5, <1>6, <1>7 DEF IInv, StagedIsFinal

-----------------------------------------------------------------------------
(* Published by a rename *)

\* The private file or directory of a download or an extraction.
LEMMA ReserveInv == IInv /\ Reserve => IInv'
  <1> SUFFICES ASSUME IInv, Reserve PROVE IInv'
    OBVIOUS
  <1>1. /\ step = "make" /\ ~InPlace(at) /\ temp' = "partial" /\ step' = "fill"
        /\ UNCHANGED <<mode, world, has, past, litter, src, held, at, aside, made, placed, faults>>
    BY DEF Reserve, files
  <1>2. TypeOK'
    BY <1>1 DEF IInv, TypeOK, Steps, Written
  <1>3. Control' /\ InPlaceIsOwn'
    BY <1>1 DEF IInv, Control, Renaming, InPlaceIsOwn, InPlace
  <1>4. TempIsPinned' /\ StagedIsFinal'
    BY <1>1 DEF IInv, TempIsPinned, StagedIsFinal, Pinned
  <1> QED BY <1>1, <1>2, <1>3, <1>4, FilesKept DEF IInv

\* What is downloaded or extracted has the pinned contents.
LEMMA FillInv == IInv /\ Fill => IInv'
  <1> SUFFICES ASSUME IInv, Fill PROVE IInv'
    OBVIOUS
  <1>1. /\ step = "fill" /\ ~InPlace(at) /\ step' = "publish"
        /\ temp' = (IF at = "archive" THEN "pinned" ELSE Scan(src))
        /\ UNCHANGED <<mode, world, has, past, litter, src, held, at, aside, made, placed, faults>>
    BY DEF Fill, files
  <1>2. temp' = "pinned"
    BY <1>1 DEF IInv, TempIsPinned, InPlace, Scan
  <1>3. TypeOK'
    BY <1>1, <1>2 DEF IInv, TypeOK, Steps, Written
  <1>4. Control' /\ InPlaceIsOwn'
    BY <1>1 DEF IInv, Control, Renaming, InPlaceIsOwn, InPlace
  <1>5. TempIsPinned' /\ StagedIsFinal'
    BY <1>1, <1>2 DEF IInv, TempIsPinned, StagedIsFinal
  <1> QED BY <1>1, <1>3, <1>4, <1>5, FilesKept DEF IInv

\* rename_noreplace puts pinned contents at a free name.
LEMMA PublishInv == IInv /\ Publish => IInv'
  <1> SUFFICES ASSUME IInv, Publish PROVE IInv'
    OBVIOUS
  <1>1. step = "publish" /\ UNCHANGED <<mode, world, litter, aside, placed, faults>>
    BY DEF Publish
  <1>2. at \in Names /\ temp = "pinned" /\ ~InPlace(at)
    BY <1>1 DEF IInv, TypeOK, Control, Renaming, TempIsPinned
  <1>3. CASE has[at] = "absent" /\ Put(at, temp) /\ Goto("verify")
    <2>1. step' = "verify" /\ UNCHANGED <<temp, src, held, at, made>>
      BY <1>3 DEF Goto
    <2>2. /\ has' \in [Names -> Objects]
          /\ past' \in [Names -> SUBSET (Written \cup {"absent"})]
          /\ PastIsOwn' /\ RenamedIsPinned' /\ NothingForeignDestroyed'
      BY <1>1, <1>2, <1>3, <2>1, PutKeeps DEF Written
    <2>3. TypeOK'
      BY <1>1, <2>1, <2>2 DEF IInv, TypeOK, Steps
    <2>4. Control' /\ InPlaceIsOwn'
      BY <1>1, <1>2, <2>1 DEF IInv, Control, Renaming, InPlaceIsOwn, InPlace
    <2>5. TempIsPinned' /\ StagedIsFinal'
      BY <1>1, <2>1 DEF IInv, TempIsPinned, StagedIsFinal
    <2> QED BY <2>2, <2>3, <2>4, <2>5 DEF IInv
  <1>4. CASE Stop /\ UNCHANGED <<has, past>>
    <2>1. Quiet /\ made' = {}
      BY <1>4, StopIsQuiet
    <2>2. TypeOK' /\ Control' /\ InPlaceIsOwn' /\ TempIsPinned' /\ step' # "restore"
      BY <1>1, <1>4, <2>1, QuietKeeps DEF IInv, TypeOK
    <2> QED BY <1>1, <1>4, <2>1, <2>2, FilesKept DEF IInv, StagedIsFinal
  <1> QED BY <1>3, <1>4 DEF Publish

\* From the rename on, a step that only goes on to check, sync or take the name
\* back keeps the invariant.
LEMMA OnwardKeeps ==
    ASSUME IInv, step \in {"verify", "sync"}, NEW s \in {"sync", "undo"}, Goto(s),
           UNCHANGED <<mode, world, has, past, litter, aside, placed>>,
           faults' \in 0..MaxFaults
    PROVE  IInv'
  <1>1. step' = s /\ UNCHANGED <<temp, src, held, at, made>>
    BY DEF Goto
  <1>2. TypeOK'
    BY <1>1 DEF IInv, TypeOK, Steps
  <1>3. Control' /\ InPlaceIsOwn'
    BY <1>1 DEF IInv, Control, Renaming, InPlaceIsOwn, InPlace
  <1>4. TempIsPinned' /\ StagedIsFinal'
    BY <1>1 DEF IInv, TempIsPinned, StagedIsFinal
  <1> QED BY <1>1, <1>2, <1>3, <1>4, FilesKept DEF IInv

\* The public name is compared with what the process holds.
LEMMA VerifyInv == IInv /\ Verify => IInv'
  <1> SUFFICES ASSUME IInv, Verify PROVE IInv'
    OBVIOUS
  <1>1. /\ step = "verify" /\ UNCHANGED <<mode, world, has, past, litter, aside, placed>>
        /\ faults' \in 0..MaxFaults
    BY DEF IInv, TypeOK, Verify, files
  <1>2. Goto("sync") \/ Goto("undo")
    BY DEF Verify
  <1> QED BY <1>1, <1>2, OnwardKeeps

\* The rename is made durable.
LEMMA SyncInv == IInv /\ Sync => IInv'
  <1> SUFFICES ASSUME IInv, Sync PROVE IInv'
    OBVIOUS
  <1>1. /\ step = "sync" /\ past' = [past EXCEPT ![at] = {}] /\ made' = made \cup {at}
        /\ UNCHANGED <<mode, world, has, litter, aside, placed, faults>>
    BY DEF Sync
  <1>2. Quiet /\ at \in Names /\ at # "stage"
    BY <1>1, AdvanceIsQuiet DEF IInv, TypeOK, Sync, Control, Renaming, InPlace
  <1>3. /\ temp' \in Written \cup {"absent"} /\ src' \in Objects /\ held' \in Objects
        /\ at' \in Names \cup {"none"} /\ step' \in Steps /\ step' # "restore"
        /\ Control' /\ InPlaceIsOwn' /\ TempIsPinned'
    BY <1>2, QuietKeeps DEF IInv
  <1>4. /\ past' \in [Names -> SUBSET (Written \cup {"absent"})]
        /\ PastIsOwn' /\ RenamedIsPinned' /\ NothingForeignDestroyed'
    BY <1>1, <1>3, SyncKeeps
  <1>5. TypeOK'
    BY <1>1, <1>2, <1>3, <1>4 DEF IInv, TypeOK
  <1>6. StagedIsFinal'
    BY <1>1, <1>2 DEF IInv, StagedIsFinal
  <1> QED BY <1>3, <1>4, <1>5, <1>6 DEF IInv

\* _quarantine_public_name moves whatever the name shows, and holds it.
LEMMA UndoInv == IInv /\ Undo => IInv'
  <1> SUFFICES ASSUME IInv, Undo PROVE IInv'
    OBVIOUS
  <1>1. step = "undo" /\ UNCHANGED <<mode, world, litter, aside, placed, faults>>
    BY DEF Undo
  <1>2. at \in Shared /\ at \in Names /\ ~InPlace(at) /\ held = "absent"
    BY <1>1 DEF IInv, TypeOK, Control, Renaming, InPlace, Shared
  <1>3. CASE Stop /\ UNCHANGED <<has, past>>
    <2>1. Quiet /\ made' = {}
      BY <1>3, StopIsQuiet
    <2>2. TypeOK' /\ Control' /\ InPlaceIsOwn' /\ TempIsPinned' /\ step' # "restore"
      BY <1>1, <1>3, <2>1, QuietKeeps DEF IInv, TypeOK
    <2> QED BY <1>1, <1>3, <2>1, <2>2, FilesKept DEF IInv, StagedIsFinal
  <1>4. CASE /\ held' = has[at] /\ has' = [has EXCEPT ![at] = "absent"]
             /\ past' = [past EXCEPT ![at] = {}]
             /\ step' = "restore" /\ UNCHANGED <<temp, src, at, made>>
    <2>1. has \in [Names -> Objects] /\ past \in [Names -> SUBSET (Written \cup {"absent"})]
      BY DEF IInv, TypeOK
    <2>2. TypeOK'
      BY <1>1, <1>2, <1>4 DEF IInv, TypeOK, Steps, Objects
    <2>3. Control' /\ InPlaceIsOwn'
      BY <1>1, <1>2, <1>4 DEF IInv, Control, Renaming, InPlaceIsOwn, InPlace
    <2>4. PastIsOwn'
      BY <1>2, <1>4, <2>1, InputsAssumption DEF IInv, PastIsOwn
    <2>5. TempIsPinned' /\ StagedIsFinal'
      BY <1>1, <1>2, <1>4 DEF IInv, TempIsPinned, StagedIsFinal, RenamedIsPinned, Images
    <2>6. RenamedIsPinned'
      BY <1>1, <1>2, <1>4, <2>1 DEF IInv, RenamedIsPinned, Images, InPlace, Shared, Names
    <2>7. NothingForeignDestroyed'
      <3> SUFFICES ASSUME NEW f \in placed
                   PROVE  f \in aside \cup {held'} \cup {has'[n] : n \in Names}
        BY <1>1 DEF NothingForeignDestroyed
      <3>1. f # "absent"
        BY InputsAssumption DEF IInv, TypeOK
      <3>2. f \in aside \/ \E n \in Names : f = has[n]
        BY <1>2, <3>1 DEF IInv, NothingForeignDestroyed
      <3>3. ASSUME NEW n \in Names, f = has[n] PROVE f = held' \/ f = has'[n]
        BY <1>4, <2>1, <3>3
      <3> QED BY <3>2, <3>3
    <2> QED BY <2>2, <2>3, <2>4, <2>5, <2>6, <2>7 DEF IInv
  <1> QED BY <1>3, <1>4 DEF Undo

\* Only the process's own object is deleted after a failed publication.
LEMMA RestoreInv == IInv /\ Restore => IInv'
  <1> SUFFICES ASSUME IInv, Restore PROVE IInv'
    OBVIOUS
  <1>1. step = "restore" /\ Stop /\ UNCHANGED <<mode, world, litter, placed, faults>>
    BY DEF Restore
  <1>2. /\ at \in Shared /\ at \in Names /\ ~InPlace(at)
        /\ past[at] = {} /\ held \notin {"partial", "other"}
    BY <1>1 DEF IInv, TypeOK, Control, Renaming, InPlace, Shared, PastIsOwn, TempIsPinned
  <1>3. Quiet /\ made' = {} /\ step' = "idle"
    BY <1>1, StopIsQuiet
  <1>4. /\ temp' \in Written \cup {"absent"} /\ src' \in Objects /\ held' \in Objects
        /\ at' \in Names \cup {"none"} /\ step' \in Steps
        /\ Control' /\ InPlaceIsOwn' /\ TempIsPinned' /\ StagedIsFinal'
    BY <1>3, QuietKeeps DEF IInv, StagedIsFinal
  <1>5. has \in [Names -> Objects] /\ held \in Objects /\ aside \subseteq Objects
    BY DEF IInv, TypeOK
  <1>6. CASE has[at] = "absent" /\ has' = [has EXCEPT ![at] = held] /\ UNCHANGED <<past, aside>>
    <2>1. TypeOK'
      BY <1>1, <1>3, <1>4, <1>5, <1>6 DEF IInv, TypeOK
    <2>2. PastIsOwn'
      BY <1>2, <1>3, <1>5, <1>6 DEF IInv, PastIsOwn
    <2>3. RenamedIsPinned'
      BY <1>1, <1>2, <1>5, <1>6 DEF IInv, RenamedIsPinned, Images, InPlace, Shared, Names
    <2>4. NothingForeignDestroyed'
      <3> SUFFICES ASSUME NEW f \in placed
                   PROVE  f \in aside \cup {has'[n] : n \in Names}
        BY <1>1, <1>6 DEF NothingForeignDestroyed
      <3>1. f # "absent"
        BY InputsAssumption DEF IInv, TypeOK
      <3>2. f \in aside \/ f = held \/ \E n \in Names : f = has[n]
        BY DEF IInv, NothingForeignDestroyed
      <3>3. held = has'[at]
        BY <1>2, <1>5, <1>6
      <3>4. ASSUME NEW n \in Names, f = has[n] PROVE f = has'[n]
        BY <1>5, <1>6, <3>1, <3>4
      <3> QED BY <1>2, <3>2, <3>3, <3>4
    <2> QED BY <1>4, <2>1, <2>2, <2>3, <2>4 DEF IInv
  <1>7. CASE /\ UNCHANGED <<has, past>>
             /\ (held = temp /\ aside' = aside) \/ aside' = aside \cup {held}
    <2>1. TypeOK'
      BY <1>1, <1>3, <1>4, <1>5, <1>7 DEF IInv, TypeOK
    <2>2. PastIsOwn'
      BY <1>3, <1>7 DEF IInv, PastIsOwn
    <2>3. RenamedIsPinned'
      BY <1>1, <1>7 DEF IInv, RenamedIsPinned, Images, InPlace
    <2>4. NothingForeignDestroyed'
      <3>1. temp \notin placed
        BY InputsAssumption DEF IInv, TypeOK, Written
      <3> QED BY <1>1, <1>7, <3>1 DEF IInv, NothingForeignDestroyed
    <2> QED BY <1>4, <2>1, <2>2, <2>3, <2>4 DEF IInv
  <1> QED BY <1>6, <1>7 DEF Restore

-----------------------------------------------------------------------------
(* Faults and other programs *)

\* A fault that stops the process leaves what it has moved under a recovery name.
LEMMA StopsInv ==
    ASSUME IInv, Stop, UNCHANGED <<mode, world, has, past, litter, placed>>,
           aside' = IF step = "restore" THEN aside \cup {held} ELSE aside,
           faults' \in 0..MaxFaults
    PROVE  IInv'
  <1>1. Quiet /\ made' = {}
    BY StopIsQuiet
  <1>2. Control' /\ InPlaceIsOwn' /\ TempIsPinned' /\ step' # "restore"
    BY <1>1, QuietKeeps DEF IInv
  <1>3. TypeOK'
    BY <1>1, QuietKeeps DEF IInv, TypeOK
  <1> QED BY <1>1, <1>2, <1>3, FilesKept DEF IInv, StagedIsFinal

\* A failed step or an exit, anywhere.
LEMMA FailsInv == IInv /\ (Fails \/ Exits) => IInv'
  <1> SUFFICES ASSUME IInv, Fails \/ Exits PROVE IInv'
    OBVIOUS
  <1>1. /\ UNCHANGED <<mode, world, has, past, litter, placed>>
        /\ aside' = IF step = "restore" THEN aside \cup {held} ELSE aside
        /\ faults' \in 0..MaxFaults
    BY InputsAssumption DEF IInv, TypeOK, Fails, Exits, Fault, files
  <1>2. Stop \/ (step \in {"verify", "sync"} /\ Goto("undo"))
    BY DEF Fails, Exits
  <1>3. CASE Stop
    BY <1>1, <1>3, StopsInv
  <1>4. CASE step \in {"verify", "sync"} /\ Goto("undo")
    BY <1>1, <1>4, OnwardKeeps
  <1> QED BY <1>2, <1>3, <1>4

\* A power loss puts back only what Prepare had at a name.
LEMMA PowerLossInv == IInv /\ PowerLoss => IInv'
  <1> SUFFICES ASSUME IInv, PowerLoss PROVE IInv'
    OBVIOUS
  <1>1. /\ UNCHANGED <<mode, world, litter, placed>> /\ past' = [n \in Names |-> {}]
        /\ aside' = IF step = "restore" THEN aside \cup {held} ELSE aside
        /\ faults' \in 0..MaxFaults
    BY InputsAssumption DEF IInv, TypeOK, PowerLoss, Fault
  <1>2. has \in [Names -> Objects] /\ past \in [Names -> SUBSET (Written \cup {"absent"})]
    BY DEF IInv, TypeOK
  <1>3. /\ has' \in [Names -> Objects]
        /\ \A n \in Names : has'[n] = has[n] \/ has'[n] \in past[n]
    <2>1. PICK lost \in [{n \in Names : past[n] # {}} -> Written \cup {"absent", "none"}] :
             /\ \A n \in DOMAIN lost : lost[n] \in past[n] \cup {"none"}
             /\ has' = [n \in Names |-> IF n \in DOMAIN lost /\ lost[n] # "none"
                                        THEN lost[n] ELSE has[n]]
      BY DEF PowerLoss
    <2>2. \A n \in Names : has'[n] = has[n] \/ has'[n] \in past[n]
      BY <2>1
    <2>3. \A n \in Names : has'[n] \in Objects
      BY <1>2, <2>2 DEF Objects
    <2> QED BY <2>1, <2>2, <2>3
  <1>4. /\ temp' \in Written \cup {"absent"} /\ src' \in Objects /\ held' \in Objects
        /\ at' \in Names \cup {"none"} /\ step' \in Steps /\ made' \subseteq Names
        /\ Control' /\ InPlaceIsOwn' /\ TempIsPinned' /\ step' # "restore"
        /\ "stage" \in made' => "stage" \in made /\ step' = step
    <2>1. CASE step = "done" /\ UNCHANGED <<process, made>>
      <3>1. UNCHANGED <<temp, src, held, at, step, made>>
        BY <2>1 DEF process
      <3> QED BY <1>1, <2>1, <3>1 DEF IInv, TypeOK, Control, Renaming, InPlaceIsOwn,
                                      TempIsPinned, InPlace
    <2>2. CASE Stop
      BY <2>2, StopIsQuiet, QuietKeeps DEF IInv
    <2> QED BY <2>1, <2>2 DEF PowerLoss
  <1>5. TypeOK'
    BY <1>1, <1>2, <1>3, <1>4 DEF IInv, TypeOK, Objects
  <1>6. PastIsOwn'
    BY <1>1, <1>4 DEF PastIsOwn
  <1>7. StagedIsFinal'
    BY <1>1, <1>3, <1>4 DEF IInv, StagedIsFinal, Names, Pinned
  <1>8. RenamedIsPinned'
    BY <1>1, <1>3 DEF IInv, RenamedIsPinned, Images, InPlace, Shared, Names
  <1>9. NothingForeignDestroyed'
    <2> SUFFICES ASSUME NEW f \in placed
                 PROVE  f \in aside' \cup {has'[n] : n \in Names}
      BY <1>1 DEF NothingForeignDestroyed
    <2>1. f \in Foreign /\ f # "absent"
      BY InputsAssumption DEF IInv, TypeOK
    <2>2. f \in aside' \/ \E n \in Names : f = has[n]
      BY <1>1, <2>1 DEF IInv, NothingForeignDestroyed, Control
    <2>3. ASSUME NEW n \in Names, f = has[n] PROVE f = has'[n]
      BY <1>3, <2>1, <2>3 DEF IInv, PastIsOwn
    <2> QED BY <2>2, <2>3
  <1> QED BY <1>4, <1>5, <1>6, <1>7, <1>8, <1>9 DEF IInv

\* Another program replaces or removes an archive or a tree.
LEMMA ForeignEditInv ==
    ASSUME IInv, NEW n \in Shared, NEW o \in Foreign \cup {"absent"}, ForeignEdit(n, o)
    PROVE  IInv'
  <1>1. /\ (InPlace(n) => at # n) /\ n \in Names
        /\ has' = [has EXCEPT ![n] = o] /\ past' = [past EXCEPT ![n] = {}]
        /\ placed' = (placed \ {has[n]}) \cup ({o} \cap Foreign)
        /\ UNCHANGED <<mode, world, litter, temp, src, held, at, step, aside, made, faults>>
    BY DEF ForeignEdit, process, Shared, Names
  <1>2. has \in [Names -> Objects] /\ past \in [Names -> SUBSET (Written \cup {"absent"})]
    BY DEF IInv, TypeOK
  <1>3. TypeOK'
    BY <1>1, <1>2 DEF IInv, TypeOK, Objects
  <1>4. Control' /\ TempIsPinned'
    BY <1>1 DEF IInv, Control, TempIsPinned, InPlace, Pinned
  <1>5. InPlaceIsOwn'
    BY <1>1, <1>2 DEF IInv, InPlaceIsOwn, InPlace
  <1>6. PastIsOwn'
    BY <1>1, <1>2 DEF IInv, TypeOK, Control, PastIsOwn
  <1>7. StagedIsFinal'
    BY <1>1, <1>2 DEF IInv, StagedIsFinal, Shared, Names, Pinned
  <1>8. RenamedIsPinned'
    BY <1>1, <1>2, InputsAssumption DEF IInv, RenamedIsPinned, Images, InPlace, Shared, Names
  <1>9. NothingForeignDestroyed'
    <2> SUFFICES ASSUME NEW f \in placed'
                 PROVE  f \in aside \cup {held} \cup {has'[m] : m \in Names}
      BY <1>1 DEF NothingForeignDestroyed
    <2>1. CASE f = o
      BY <1>1, <1>2, <2>1
    <2>2. CASE f \in placed /\ f # has[n]
      <3>1. f \in aside \cup {held} \/ \E m \in Names : f = has[m] /\ m # n
        BY <2>2 DEF IInv, NothingForeignDestroyed
      <3> QED BY <1>1, <1>2, <3>1
    <2> QED BY <1>1, <2>1, <2>2
  <1> QED BY <1>3, <1>4, <1>5, <1>6, <1>7, <1>8, <1>9 DEF IInv

\* A composed transaction is rolled back, and its names with it.
LEMMA RollbackInv == IInv /\ Rollback => IInv'
  <1> SUFFICES ASSUME IInv, Rollback PROVE IInv'
    OBVIOUS
  <1>1. /\ step = "idle"
        /\ has' = [n \in Names |-> IF n = "archive" THEN has[n] ELSE "absent"]
        /\ past' = [n \in Names |-> {}] /\ placed' = placed \cap {has["archive"]}
        /\ UNCHANGED <<mode, world, litter, temp, src, held, at, step, aside, made, faults>>
    BY DEF Rollback, process
  <1>2. TypeOK'
    BY <1>1 DEF IInv, TypeOK, Objects, Names
  <1>3. Control' /\ TempIsPinned' /\ InPlaceIsOwn' /\ StagedIsFinal'
    BY <1>1 DEF IInv, Control, Renaming, TempIsPinned, InPlaceIsOwn, StagedIsFinal
  <1>4. PastIsOwn'
    BY <1>1 DEF PastIsOwn
  <1>5. RenamedIsPinned'
    BY <1>1 DEF IInv, RenamedIsPinned, Images, InPlace, Shared, Names
  <1>6. NothingForeignDestroyed'
    BY <1>1 DEF NothingForeignDestroyed, Names
  <1> QED BY <1>2, <1>3, <1>4, <1>5, <1>6 DEF IInv

-----------------------------------------------------------------------------
(* Theorems *)

\* The inductive invariant of Prepare's inputs holds in every behaviour, whatever
\* other programs do to the archive and the tree, and through any number of failed
\* steps, exits and power losses.
THEOREM Inductive == Spec => []IInv
  <1>1. IInv /\ UNCHANGED vars => IInv'
    BY DEF IInv, vars, files, process, TypeOK, Control, InPlaceIsOwn, PastIsOwn, TempIsPinned,
           StagedIsFinal, RenamedIsPinned, NothingForeignDestroyed, Images, InPlace, Pinned
  <1>2. IInv /\ Next => IInv'
    <2>1. IInv /\ Continue => IInv'
      BY LookInv, InspectInv, CopyBeginsInv, CopyEndsInv, CheckInv, ReserveInv, FillInv,
         PublishInv, VerifyInv, SyncInv, UndoInv, RestoreInv
         DEF Continue, Download, Extract, Rename
    <2> QED BY <2>1, BeginInv, PreserveFailedInv, FailsInv, PowerLossInv, RollbackInv,
               ForeignEditInv DEF Next
  <1> QED BY <1>1, <1>2, InitInv, PTL DEF Spec

\* A name that is published by a rename never holds anything of Prepare's but the
\* pinned contents, also after a power loss and whoever replaces the archive; a
\* composed tool that was staged by the process keeps its approved contents.
THEOREM RenamedNamesArePinned == Spec => []OnlyPinnedAppears
  <1>1. IInv => OnlyPinnedAppears
    BY DEF IInv, OnlyPinnedAppears, RenamedIsPinned, StagedIsFinal, Images
  <1> QED BY <1>1, Inductive, PTL

\* No object of another program is destroyed by download_once or
\* _extract_and_publish, by the clean-up of a failed publication, or by a power
\* loss in the middle of it.
THEOREM ForeignSurvives == Spec => []NothingForeignDestroyed
  <1>1. IInv => NothingForeignDestroyed
    BY DEF IInv
  <1> QED BY <1>1, Inductive, PTL
=============================================================================
