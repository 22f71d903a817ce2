------------------------------ MODULE Lifecycle ------------------------------
(***************************************************************************)
(* The per-node lifecycle of harnessd/states.py: the eight states, the     *)
(* terminal ones, and the legality table the executor, the reconcile loop  *)
(* and the spawn chokepoint all consult before they change a node's state. *)
(***************************************************************************)

KnownStates == {"planned", "claimed", "spawning", "running", "blocked",
                "done", "failed", "dead"}

TerminalStates == {"done", "failed", "dead"}

NonTerminalStates == KnownStates \ TerminalStates

\* The hand-written edges: forward, roll-back and re-adopt.
ExplicitTransitions ==
    [s \in KnownStates |->
        CASE s = "planned"  -> {"claimed"}
          [] s = "claimed"  -> {"spawning", "planned"}
          [] s = "spawning" -> {"running", "planned", "failed"}
          [] s = "running"  -> {"blocked", "done", "failed", "claimed"}
          [] s = "blocked"  -> {"running"}
          [] s = "dead"     -> {"claimed"}
          [] OTHER          -> {}]

\* Reconcile may find any non-terminal node dead, or stamp it failed.
AllowedTransitions ==
    [s \in KnownStates |->
        ExplicitTransitions[s] \cup
            (IF s \in NonTerminalStates THEN {"dead", "failed"} ELSE {})]

IsTerminal(s) == s \in TerminalStates

IsLegal(from, to) == to \in AllowedTransitions[from]

(***************************************************************************)
(* What transition() and validate() admit between them: a legal edge, or   *)
(* the one self-loop, running to running under an ESCALATED signal.        *)
(***************************************************************************)
Admissible(from, to, escalated) ==
    \/ IsLegal(from, to)
    \/ from = "running" /\ to = "running" /\ escalated
=============================================================================
