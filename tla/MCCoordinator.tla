--------------------------- MODULE MCCoordinator ---------------------------
(* Finish plans: a full installation, one that finds the copy in place (the     *)
(* shortest way to an installer that outlives a stale resume), one that only   *)
(* patches, and one that finds everything in place and only checks it.         *)
EXTENDS Coordinator

CoordinatorPlans ==
    {[licensed |-> "copy", runtime |-> "install", patch |-> "apply"],
     [licensed |-> "keep", runtime |-> "install", patch |-> "apply"],
     [licensed |-> "keep", runtime |-> "keep", patch |-> "apply"],
     [licensed |-> "keep", runtime |-> "keep", patch |-> "keep"]}
=============================================================================
