-------------------------- MODULE MCSpawnChokepoint --------------------------
(* A root and one child below it. *)
EXTENDS SpawnChokepoint

MCNode == {"root", "child"}

MCParent == [n \in MCNode |-> IF n = "root" THEN NoParent ELSE "root"]
=============================================================================
