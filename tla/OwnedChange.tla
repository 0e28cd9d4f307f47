----------------------------- MODULE OwnedChange -----------------------------
(***************************************************************************)
(* What every journalled change of the installer promises, whatever its    *)
(* size: the publication of the tool, the licensed copy, the runtime files *)
(* and the whole composed setup.  A change is visible in the user's files  *)
(* only while its journal admits to it, and a journal that says the change *)
(* is undone never changes again.                                          *)
(***************************************************************************)
VARIABLES
    st,     \* "none", "open" (in progress), "live" (complete) or "undone"
    shown   \* does any managed file differ from what was there before?

vars == <<st, shown>>

TypeOK == st \in {"none", "open", "live", "undone"} /\ shown \in BOOLEAN

Init == st = "none" /\ shown = FALSE

\* The intent is durable before the first file changes.
Begin == st = "none" /\ st' = "open" /\ UNCHANGED shown

\* Files change, forwards or backwards, only under an open intent.
Change == st = "open" /\ shown' = ~shown /\ UNCHANGED st

Commit == st = "open" /\ st' = "live" /\ UNCHANGED shown

\* Recovery of a complete change records its own intent first.
Withdraw == st = "live" /\ st' = "open" /\ UNCHANGED shown

Undo == st = "open" /\ ~shown /\ st' = "undone" /\ UNCHANGED shown

Next == Begin \/ Change \/ Commit \/ Withdraw \/ Undo

Spec == Init /\ [][Next]_vars

\* No file differs without a journal that owns the difference.
VisibleMeansOwned == shown => st \in {"open", "live"}
=============================================================================
