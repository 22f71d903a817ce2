----------------------------- MODULE MCRunLedger -----------------------------
(* Small instances of RunLedger for TLC. *)
EXTENDS RunLedger

Symmetry == Permutations(Node) \cup Permutations(Caller)
=============================================================================
