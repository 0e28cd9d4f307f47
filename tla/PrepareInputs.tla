----------------------------- MODULE PrepareInputs -----------------------------
(***************************************************************************)
(* How Prepare obtains its inputs: artifacts.py (download_once and         *)
(* _extract_and_publish), proton.py (acquire_ge, prepare_fm_tree,          *)
(* prepare_composed_fm_tree), container_build.publish_container_output and *)
(* their callers in coordinator.py and composed_setup._prepare_locked.     *)
(*                                                                         *)
(* An archive becomes an extracted tree and the tree a staged tool.  Some  *)
(* names are filled under a private random name and published by a rename  *)
(* that replaces nothing; others are written in place.  One process works  *)
(* at a time (the lease); it exits anywhere, its steps fail, the power     *)
(* fails, and in the "racing" world another program replaces or removes    *)
(* the archive and the tree.                                               *)
(***************************************************************************)
EXTENDS Naturals, Sequences

CONSTANTS
    Foreign,     \* files and trees of other programs
    UserArchive, \* the archive given on the command line, one of Foreign
    Twins,       \* those of Foreign that have the pinned contents
    MaxFaults    \* bound on failed steps, exits and power losses

\* What another program wrote is not what Prepare writes, nor the lack of a file.
ASSUME InputsAssumption ==
    /\ UserArchive \in Twins /\ Twins \subseteq Foreign /\ MaxFaults \in Nat
    /\ Foreign \cap {"partial", "other", "pinned", "absent"} = {}

VARIABLES
    mode,     \* where the inputs come from
    world,    \* "alone", or "racing" with another program
    has,      \* what each name holds
    past,     \* what a power loss may put back at each name
    temp,     \* the private file or directory of the download or extraction
    src,      \* the archive or tree the process holds open
    held,     \* what the process has moved to a recovery name
    aside,    \* what stays under recovery names
    litter,   \* source-output holds a file other than the bundle
    at, step, \* the name being obtained, and the next step
    made,     \* the names this process has made itself
    placed,   \* history: other programs' objects they have not removed
    faults

files   == <<has, past, litter>>
process == <<temp, src, held, at, step>>
vars == <<mode, world, files, process, aside, made, placed, faults>>

Modes  == {"composed", "ge", "download", "source", "local"}
Names  == {"archive", "helper", "bundle", "tree", "stage"}
Shared == {"archive", "tree"}
Steps  == {"idle", "look", "inspect", "make", "fill", "check", "publish",
           "verify", "sync", "undo", "restore", "done"}

\* What Prepare itself writes: a part, a complete copy of something unapproved,
\* or the pinned contents.
Written == {"partial", "other", "pinned"}
Objects == Written \cup {"absent"} \cup Foreign

TypeOK ==
    /\ mode \in Modes /\ world \in {"alone", "racing"}
    /\ has \in [Names -> Objects]
    /\ past \in [Names -> SUBSET (Written \cup {"absent"})]
    /\ temp \in Written \cup {"absent"}
    /\ src \in Objects /\ held \in Objects
    /\ aside \subseteq Objects /\ litter \in BOOLEAN
    /\ at \in Names \cup {"none"} /\ step \in Steps
    /\ made \subseteq Names /\ placed \subseteq Foreign
    /\ faults \in 0..MaxFaults

\* The user's archive is there from the start, in the modes that read one.
Given == mode \in {"composed", "local"}

Init ==
    /\ mode \in Modes /\ world \in {"alone", "racing"}
    /\ has = [n \in Names |->
                IF n = "archive" /\ Given THEN UserArchive ELSE "absent"]
    /\ past = [n \in Names |-> {}]
    /\ temp = "absent" /\ src = "absent" /\ held = "absent" /\ aside = {}
    /\ litter = FALSE
    /\ at = "none" /\ step = "idle" /\ made = {}
    /\ placed = IF Given THEN {UserArchive} ELSE {}
    /\ faults = 0

-----------------------------------------------------------------------------
\* _prepare_locked, and acquire_ge with prepare_fm_tree, and _acquire_bundle.
Order ==
    CASE mode = "composed" -> <<"helper", "bundle", "tree", "stage">>
      [] mode = "ge"       -> <<"archive", "tree", "stage">>
      [] mode \in {"download", "source"} -> <<"archive", "tree">>
      [] mode = "local"    -> <<"tree">>

\* Written where they stay: the composed copies, the legacy stage, ProtonUp's
\* archive and the archive of a source build.
InPlace(n) == n \notin {"archive", "tree"} \/ (n = "archive" /\ mode # "download")

\* verify_cached_file, verify_bundle_root, inspect_composed_fm, the helper's
\* checksum: the contents the release pins.
Pinned(o) == o = "pinned" \/ o \in Twins

\* _scan_archive: what an archive unpacks to.
Scan(o) == IF Pinned(o) THEN "pinned" ELSE "other"

\* _verify_extracted_tree: the members, modes and contents of one scan.
TreeMatches(o, scan) == o \notin {"absent", "partial"} /\ Scan(o) = scan

\* What is made durable before its name is used: not the copy of the user bundle,
\* nor the files of the legacy stage, nor what ProtonUp writes.
Synced(n) == ~(n = "bundle" \/ (mode = "ge" /\ n \in {"archive", "stage"}))

Put(n, o) ==
    /\ has' = [has EXCEPT ![n] = o]
    /\ past' = [past EXCEPT ![n] = @ \cup {has[n]}]

\* A BootstrapError, or the process exits: an object it has moved to a recovery
\* name stays there.
Stop ==
    /\ at' = "none" /\ step' = "idle"
    /\ temp' = "absent" /\ src' = "absent" /\ held' = "absent" /\ made' = {}

Goto(s) == step' = s /\ UNCHANGED <<temp, src, held, at, made>>

Fault == faults < MaxFaults /\ faults' = faults + 1

\* The next name: _prepare_locked extracts nothing once there is a stage.
Advance ==
    /\ temp' = "absent" /\ src' = "absent" /\ held' = "absent"
    /\ \E i \in DOMAIN Order :
          /\ Order[i] = at
          /\ \/ i = Len(Order) /\ at' = "none" /\ step' = "done"
             \/ /\ i < Len(Order) /\ Order[i + 1] = "tree"
                /\ mode = "composed" /\ has["stage"] # "absent"
                /\ at' = "stage" /\ step' = "inspect"
             \/ /\ i < Len(Order)
                /\ ~(Order[i + 1] = "tree" /\ mode = "composed" /\ has["stage"] # "absent")
                /\ at' = Order[i + 1] /\ step' = "look"

Begin ==
    /\ step = "idle"
    /\ at' = Order[1] /\ step' = "look"
    /\ UNCHANGED <<mode, world, files, temp, src, held, aside, made, placed, faults>>

-----------------------------------------------------------------------------
(* What is there already, and what the next name is made from *)

\* _open_archive_source: the file is held open from here on.
Input == IF at = "tree" THEN has["archive"]
         ELSE IF at = "stage" THEN has["tree"] ELSE "pinned"

\* _hash_pinned_archive hashes the held archive; prepare_composed_fm_tree
\* inspects its source against the release, prepare_fm_tree does not.
Ready == IF at = "stage" /\ mode = "ge" THEN Input # "absent" ELSE Pinned(Input)

\* prepare_fm_tree and prepare_composed_fm_tree copy to a new stage only; a
\* source-output that is not empty has to hold the bundle.
Refused == \/ has[at] # "absent" /\ at = "stage"
           \/ has[at] = "absent" /\ at = "archive" /\ mode = "source" /\ litter

\* Mutant: the archive is extracted without hashing it again.
LookUnhashed ==
    /\ step = "look"
    /\ src' = Input
    /\ \/ Refused /\ UNCHANGED <<temp, held, made>> /\ at' = "none" /\ step' = "idle"
       \/ ~Refused /\ step' = (IF has[at] = "absent" THEN "make" ELSE "inspect")
          /\ UNCHANGED <<temp, held, at, made>>
    /\ UNCHANGED <<mode, world, files, aside, placed, faults>>

\* Mutant: a tree of an earlier run is refused, "archive destination already
\* exists".
LookNew ==
    /\ step = "look"
    /\ \/ (Refused \/ ~Ready \/ (at = "tree" /\ has[at] # "absent")) /\ Stop
       \/ /\ Ready /\ ~Refused /\ ~(at = "tree" /\ has[at] # "absent")
          /\ src' = Input
          /\ step' = (IF has[at] = "absent" THEN "make" ELSE "inspect")
          /\ UNCHANGED <<temp, held, at, made>>
    /\ UNCHANGED <<mode, world, files, aside, placed, faults>>

Look ==
    /\ step = "look"
    /\ \/ (Refused \/ ~Ready) /\ Stop
       \/ /\ Ready /\ ~Refused
          /\ src' = Input
          /\ step' = (IF has[at] = "absent" THEN "make" ELSE "inspect")
          /\ UNCHANGED <<temp, held, at, made>>
    /\ UNCHANGED <<mode, world, files, aside, placed, faults>>

\* What is there is accepted as it is, or refused; it is never replaced.  A tree
\* has to match the scan of the archive (_reuse_published_extraction).
Inspect ==
    /\ step = "inspect"
    /\ LET good == IF at = "tree" THEN TreeMatches(has[at], Scan(src))
                   ELSE Pinned(has[at])
       IN  IF good THEN Advance /\ UNCHANGED made ELSE Stop
    /\ UNCHANGED <<mode, world, files, aside, placed, faults>>

-----------------------------------------------------------------------------
(* Written in place *)

CopyBegins ==
    /\ step = "make" /\ InPlace(at)
    /\ Put(at, "partial")
    /\ Goto("fill")
    /\ UNCHANGED <<mode, world, litter, aside, placed, faults>>

\* A stage is a copy of what its source's name holds; mixed if that has changed.
Copied == IF at # "stage" THEN "pinned"
          ELSE IF has["tree"] = src THEN Scan(src) ELSE "partial"

CopyEnds ==
    /\ step = "fill" /\ InPlace(at)
    /\ \/ Put(at, Copied) /\ UNCHANGED faults
       \/ at = "archive" /\ Put(at, "other") /\ Fault \* not the pinned build
    /\ Goto("check")
    /\ UNCHANGED <<mode, world, litter, aside, placed>>

\* Mutant: the copied tool is not made durable.
CheckUnsynced ==
    /\ step = "check"
    /\ IF Pinned(has[at]) THEN Advance /\ made' = made \cup {at} ELSE Stop
    /\ UNCHANGED <<mode, world, files, aside, placed, faults>>

\* The checks after the copy.  prepare_fm_tree compares the stage with its own
\* source only; prepare_composed_fm_tree inspects the source once more.
Check ==
    /\ step = "check"
    /\ LET good == IF at = "stage" /\ mode = "ge" THEN has[at] # "partial"
                   ELSE Pinned(has[at]) /\ (at = "stage" => Pinned(has["tree"]))
       IN  \/ /\ good
              /\ past' = IF Synced(at) THEN [past EXCEPT ![at] = {}] ELSE past
              /\ Advance /\ made' = made \cup {at}
           \/ ~good /\ Stop /\ UNCHANGED past
    /\ UNCHANGED <<mode, world, has, litter, aside, placed, faults>>

\* publish_container_output moves a failed archive to a recovery name in
\* source-output (_preserve_failed_destination).
PreserveFailed ==
    /\ mode = "source" /\ at = "archive" /\ step \in {"fill", "check"}
    /\ has["archive"] = "partial" \/ step = "check"
    /\ Fault
    /\ Put("archive", "absent") /\ litter' = TRUE /\ Stop
    /\ UNCHANGED <<mode, world, aside, placed>>

-----------------------------------------------------------------------------
(* Published by a rename: download_once and _extract_and_publish *)

Reserve ==
    /\ step = "make" /\ ~InPlace(at)
    /\ temp' = "partial" /\ step' = "fill"
    /\ UNCHANGED <<mode, world, files, src, held, at, aside, made, placed, faults>>

\* The response has the pinned size and digest; or the second scan of the held
\* archive equals the first.  Either is on disk, and verified there.
Fill ==
    /\ step = "fill" /\ ~InPlace(at)
    /\ temp' = (IF at = "archive" THEN "pinned" ELSE Scan(src))
    /\ step' = "publish"
    /\ UNCHANGED <<mode, world, files, src, held, at, aside, made, placed, faults>>

\* rename_noreplace.
Publish ==
    /\ step = "publish"
    /\ \/ has[at] = "absent" /\ Put(at, temp) /\ Goto("verify")
       \/ has[at] # "absent" /\ Stop /\ UNCHANGED <<has, past>>
    /\ UNCHANGED <<mode, world, litter, aside, placed, faults>>

\* _verify_published_download, _name_matches_directory: the public name denotes
\* the object the process holds.
Verify ==
    /\ step = "verify"
    /\ Goto(IF has[at] = temp THEN "sync" ELSE "undo")
    /\ UNCHANGED <<mode, world, files, aside, placed, faults>>

Sync ==
    /\ step = "sync"
    /\ past' = [past EXCEPT ![at] = {}]
    /\ Advance /\ made' = made \cup {at}
    /\ UNCHANGED <<mode, world, has, litter, aside, placed, faults>>

\* _quarantine_public_name.
Undo ==
    /\ step = "undo"
    /\ \/ has[at] = "absent" /\ Stop /\ UNCHANGED <<has, past>>
       \/ /\ has[at] # "absent"
          /\ held' = has[at] /\ has' = [has EXCEPT ![at] = "absent"]
          /\ past' = [past EXCEPT ![at] = {}]
          /\ step' = "restore" /\ UNCHANGED <<temp, src, at, made>>
    /\ UNCHANGED <<mode, world, litter, aside, placed, faults>>

\* Mutant: whatever was at the public name is deleted.
RestoreDeletes ==
    /\ step = "restore"
    /\ Stop
    /\ UNCHANGED <<mode, world, files, aside, placed, faults>>

\* _remove_published_bound_file, _remove_published_bound_directory: only the
\* process's own object is deleted.  Anything else goes back, unless the name is
\* taken again (_restore_quarantined_name).
Restore ==
    /\ step = "restore"
    /\ \/ held = temp /\ UNCHANGED <<has, past, aside>>
       \/ /\ held # temp /\ has[at] = "absent"
          /\ has' = [has EXCEPT ![at] = held] /\ UNCHANGED <<past, aside>>
       \/ held # temp /\ has[at] # "absent" /\ aside' = aside \cup {held}
          /\ UNCHANGED <<has, past>>
    /\ Stop
    /\ UNCHANGED <<mode, world, litter, placed, faults>>

Rename == Reserve \/ Fill \/ Publish \/ Verify \/ Sync \/ Undo \/ Restore

\* download_once.
Download == at = "archive" /\ Rename

\* _extract_and_publish.
Extract == at = "tree" /\ Rename

-----------------------------------------------------------------------------
\* A step fails.  Before the rename the temporary file or directory is removed,
\* after it the public name is taken back; what was written in place stays.
Fails ==
    /\ step \notin {"idle", "done"} /\ Fault
    /\ IF step \in {"verify", "sync"} THEN Goto("undo") ELSE Stop
    /\ aside' = IF step = "restore" THEN aside \cup {held} ELSE aside
    /\ UNCHANGED <<mode, world, files, placed>>

\* The process exits: its temporary file stays under a name nothing reads again.
Exits ==
    /\ step \notin {"idle", "done"} /\ Fault
    /\ Stop
    /\ aside' = IF step = "restore" THEN aside \cup {held} ELSE aside
    /\ UNCHANGED <<mode, world, files, placed>>

PowerLoss ==
    /\ Fault
    /\ \E lost \in [{n \in Names : past[n] # {}} -> Written \cup {"absent", "none"}] :
          /\ \A n \in DOMAIN lost : lost[n] \in past[n] \cup {"none"}
          /\ has' = [n \in Names |-> IF n \in DOMAIN lost /\ lost[n] # "none"
                                     THEN lost[n] ELSE has[n]]
    /\ past' = [n \in Names |-> {}]
    /\ IF step = "done" THEN UNCHANGED <<process, made>> ELSE Stop
    /\ aside' = IF step = "restore" THEN aside \cup {held} ELSE aside
    /\ UNCHANGED <<mode, world, litter, placed>>

\* Another program replaces or removes an archive or a tree.
ForeignEdit(n, o) ==
    /\ world = "racing" /\ n \in Shared /\ (InPlace(n) => at # n)
    /\ has[n] # o /\ o \notin placed
    /\ has' = [has EXCEPT ![n] = o] /\ past' = [past EXCEPT ![n] = {}]
    /\ placed' = (placed \ {has[n]}) \cup ({o} \cap Foreign)
    /\ UNCHANGED <<mode, world, litter, process, aside, made, faults>>

\* A composed transaction that keeps being refused is rolled back; the next one
\* has a token, and so names, of its own.
Stuck == \E n \in Names \ Shared : has[n] # "absent" /\ ~Pinned(has[n])

Rollback ==
    /\ mode = "composed" /\ step = "idle" /\ Stuck
    /\ has' = [n \in Names |-> IF n = "archive" THEN has[n] ELSE "absent"]
    /\ past' = [n \in Names |-> {}]
    /\ placed' = placed \cap {has["archive"]}
    /\ UNCHANGED <<mode, world, litter, process, aside, made, faults>>

-----------------------------------------------------------------------------
Continue ==
    \/ Look \/ Inspect \/ CopyBegins \/ CopyEnds \/ Check
    \/ Download \/ Extract

Next ==
    \/ Begin \/ Continue \/ PreserveFailed \/ Fails \/ Exits \/ PowerLoss
    \/ Rollback
    \/ \E n \in Shared, o \in Foreign \cup {"absent"} : ForeignEdit(n, o)

Spec == Init /\ [][Next]_vars

\* Prepare is repeated until it is done, a running one goes on, and the user
\* at some point rolls back a composed transaction that keeps being refused.
FairSpec == Spec /\ WF_vars(Begin) /\ WF_vars(Continue) /\ SF_vars(Rollback)

-----------------------------------------------------------------------------
(* Correctness *)

Images(n) == past[n] \cup {has[n]}

\* A name that is published by a rename never holds anything of Prepare's but the
\* pinned contents, at any moment and after any power loss, whoever replaced the
\* archive meanwhile.  A composed tool that a process has staged itself keeps the
\* approved contents through a power loss, before publish_composed renames it.
OnlyPinnedAppears ==
    /\ \A n \in Shared : ~InPlace(n) => Images(n) \cap {"partial", "other"} = {}
    /\ mode = "composed" /\ step = "done" /\ "stage" \in made =>
          \A o \in Images("stage") : Pinned(o)

\* What another program put at a public name is still there or under a recovery
\* name, unless that program removed it: a failed publication takes back only
\* its own file or directory.
NothingForeignDestroyed ==
    \A f \in placed : f \in aside \cup {held} \cup {has[n] : n \in Names}

\* The legacy names that no later run can use or remove: an archive ProtonUp
\* left incomplete, a stage of an earlier run, a source-output with a failed or
\* a different bundle.
Wedged ==
    /\ step = "idle"
    /\ \/ mode = "ge" /\ (has["archive"] \in {"partial", "other"} \/ has["stage"] # "absent")
       \/ mode = "source" /\ (has["archive"] \in {"partial", "other"} \/ litter)

\* Whatever interrupted it, repeating Prepare completes it, except over the legacy
\* names above.  (Nobody else changes the cache.)
CompletesUnlessWedged == world = "alone" => <>(step = "done" \/ Wedged)
=============================================================================
