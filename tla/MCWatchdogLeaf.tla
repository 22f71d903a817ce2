---------------------------- MODULE MCWatchdogLeaf ----------------------------
(* One leaf, which is its own root. *)
EXTENDS Watchdog

MCNode == {"leaf"}

MCParent == [n \in MCNode |-> NoParent]
=============================================================================
