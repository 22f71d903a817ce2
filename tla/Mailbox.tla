------------------------------- MODULE Mailbox -------------------------------
(***************************************************************************)
(* What the inboxes, the nudges and their verification promise together: a  *)
(* line is put into one inbox at a time and never taken out, an agent reads *)
(* an inbox to its end, a nudge in flight covers lines that no earlier one  *)
(* was acknowledged for, one that replaces it covers no fewer, and what is  *)
(* acknowledged is what the nudge in flight covers, once and only when it   *)
(* was read.                                                                *)
(***************************************************************************)
EXTENDS Integers

CONSTANT Node

VARIABLES
    lines,    \* per node, the lines put into its inbox,
    read,     \* those its agent has read,
    covered,  \* those up to which the nudge in flight covers, 0 without one,
    acked     \* and those up to which nudges were acknowledged

mail == <<lines, read, covered, acked>>

Init ==
    /\ lines = [n \in Node |-> 0]
    /\ read = [n \in Node |-> 0]
    /\ covered = [n \in Node |-> 0]
    /\ acked = [n \in Node |-> 0]

Put(n) ==
    /\ lines' = [lines EXCEPT ![n] = @ + 1]
    /\ UNCHANGED <<read, covered, acked>>

Read(n) ==
    /\ read' = [read EXCEPT ![n] = lines[n]]
    /\ UNCHANGED <<lines, covered, acked>>

Nudge(n) ==
    /\ \E upto \in covered[n] .. lines[n] :
          /\ acked[n] < upto
          /\ covered' = [covered EXCEPT ![n] = upto]
    /\ UNCHANGED <<lines, read, acked>>

Acknowledge(n) ==
    /\ acked[n] < covered[n] /\ covered[n] <= read[n]
    /\ acked' = [acked EXCEPT ![n] = covered[n]]
    /\ covered' = [covered EXCEPT ![n] = 0]
    /\ UNCHANGED <<lines, read>>

Next == \E n \in Node : Put(n) \/ Read(n) \/ Nudge(n) \/ Acknowledge(n)

Spec == Init /\ [][Next]_mail
=============================================================================
