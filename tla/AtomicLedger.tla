---------------------------- MODULE AtomicLedger ----------------------------
(***************************************************************************)
(* What the run-ledger, the binding ledger and the executor promise        *)
(* together: one register per node that changes in indivisible steps and   *)
(* that no crash of the daemon can change.  A node's register is           *)
(* re-registered only when it is absent, planned or terminal and then      *)
(* under a strictly higher lease epoch; it advances along admissible edges *)
(* one generation at a time, the epoch never falling; its own slice may be *)
(* rewritten without touching the lifecycle.                               *)
(***************************************************************************)
EXTENDS Integers, Lifecycle

CONSTANTS Node, Slice, InitSlice, Escalated, NoReg

VARIABLE reg

Init == reg = [n \in Node |-> NoReg]

Reregistrable(r) ==
    r = NoReg \/ r.state = "planned" \/ IsTerminal(r.state)

Register(old, new) ==
    /\ Reregistrable(old)
    /\ new # NoReg
    /\ new.state = "planned" /\ new.gen = 0 /\ new.slice = InitSlice
    /\ old # NoReg => new.epoch > old.epoch

Advance(old, new) ==
    /\ old # NoReg /\ new # NoReg
    /\ new.gen = old.gen + 1
    /\ new.epoch \in {old.epoch, old.epoch + 1}
    /\ new.slice \in Slice
    /\ Admissible(old.state, new.state, new.slice = Escalated)

Observe(old, new) ==
    /\ old # NoReg /\ new # NoReg
    /\ new = [old EXCEPT !.slice = new.slice]

Step(old, new) == Register(old, new) \/ Advance(old, new) \/ Observe(old, new)

\* before and after are bound, not LET, so that TLC evaluates each once.
Next ==
    \E before \in {reg}, after \in {reg'}, n \in Node :
        /\ Step(before[n], after[n])
        /\ \A m \in Node \ {n} : after[m] = before[m]

Spec == Init /\ [][Next]_reg
=============================================================================
