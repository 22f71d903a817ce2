------------------------------ MODULE MCWatchdog ------------------------------
(* A root and one leaf below it. *)
EXTENDS Watchdog

MCNode == {"root", "leaf"}

MCParent == [n \in MCNode |-> IF n = "root" THEN NoParent ELSE "root"]
=============================================================================
