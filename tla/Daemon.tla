------------------------------- MODULE Daemon -------------------------------
(***************************************************************************)
(* The daemon process as a whole, harnessd/daemon.py run: Genesis boots    *)
(* it, and while it serves, its IPC thread takes the accepts of Promote.   *)
(* A crash takes both: the root's slot and the delivery block are on the   *)
(* disk, the lock and the promote that was running are not.                *)
(***************************************************************************)
EXTENDS Genesis, Promote

CONSTANT MaxEvents  \* bounds the faults and the calls together

ASSUME EventsAssumption == MaxEvents \in Nat

vars == <<genesisVars, promoteVars>>

Init == GenesisInit /\ PromoteInit

WithinEvents == faults' + calls' <= MaxEvents

BootsOrServes == GenesisNext /\ UNCHANGED promoteVars /\ WithinEvents

\* The promote runs in the daemon that serves.
Delivers ==
    /\ \E d \in Daemon : Serving(d)
    /\ PromoteStep
    /\ UNCHANGED genesisVars
    /\ WithinEvents

AgentsWork == PromoteEnvironment /\ UNCHANGED genesisVars /\ WithinEvents

Dies(d) ==
    /\ Crash(d)
    /\ IF Serving(d) THEN PromoteDies ELSE UNCHANGED promoteVars
    /\ WithinEvents

Next ==
    \/ BootsOrServes \/ Delivers \/ AgentsWork
    \/ \E d \in Daemon : Dies(d)

Spec == Init /\ [][Next]_vars /\ GenesisFairness

-----------------------------------------------------------------------------
TypeOK == GenesisTypeOK /\ PromoteTypeOK
=============================================================================
