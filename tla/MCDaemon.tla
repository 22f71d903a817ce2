------------------------------ MODULE MCDaemon ------------------------------
(* A small instance of Daemon for TLC. *)
EXTENDS Daemon

CONSTANTS d1, d2, f1, f2

MCDaemon == {d1, d2}
MCFile == {f1, f2}
=============================================================================
