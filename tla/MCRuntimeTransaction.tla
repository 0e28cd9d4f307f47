------------------------ MODULE MCRuntimeTransaction ------------------------
(* The launcher gate, the systemd unit and one Wine file, each with a parent *)
(* directory of its own.                                                     *)
EXTENDS RuntimeTransaction

MCDirOf == <<"bin", "systemd", "wine">>

\* Every combination of absent, different and already current destinations.
AnyFiles == [1..3 -> {"absent", "old", "new"}]

\* A fresh system, and an older installation.
FreshOrOld == {[r \in 1..3 |-> "absent"], [r \in 1..3 |-> "old"]}
=============================================================================
