------------------------------- MODULE Genesis -------------------------------
(***************************************************************************)
(* The boot of the daemon and of its cascade root: harnessd/daemon.py      *)
(* (the instance lock, boot) and harnessd/genesis.py (run_genesis), with   *)
(* the pass of reconcile.py that classifies the root and the path of       *)
(* spawn/chokepoint.py that opens it, one action for each write another    *)
(* process, a crash or the agent could fall between.                       *)
(*                                                                         *)
(* Daemon is the set of processes that may be started on one runtime root: *)
(* the one launchd keeps alive, and those an operator starts by hand.      *)
(* Only the holder of the lock runs past Acquire, and the IPC thread and   *)
(* the poll loop start after boot, so the root's slot has one writer and   *)
(* the CAS of claim, STEP4, STEP5 and release always finds what it read:   *)
(* a transition is one step here (RunLedger takes it apart).               *)
(*                                                                         *)
(* MaxFaults bounds, together, the crashes of a daemon, the tmux calls     *)
(* that fail, the kickoff lines that cannot be appended, the spawns the    *)
(* adapter or the pieces gate refuses and the lapses of the credential.    *)
(* MaxEpoch bounds the epochs: more claims than that many faults account   *)
(* for, so that only a boot that fails on its own comes up against it.     *)
(***************************************************************************)
EXTENDS Naturals, Lifecycle

CONSTANTS Daemon, MaxFaults, MaxEpoch, None

ASSUME GenesisAssumption ==
    MaxFaults \in Nat /\ MaxEpoch \in Nat /\ None \notin Daemon

VARIABLES
    lock,       \* who holds .harnessd.instance.lock, or None
    runtime,    \* whose pid runtime.json carries, or None
    pc,         \* where each process is in daemon.run
    root,       \* the binding of L1#exec; its epoch is 0 when there is none
    session,    \* the tmux session of the root's name; its epoch is 0 when
                \* there is none, else that of the incarnation it is of
    handshake,  \* the epoch of the token in .sign-off.<seat>.json, or 0
    told,       \* the epoch of the last incarnation with a kickoff line
    cut,        \* the epoch of the last spawn cut between STEP4 and its line
    healthy,    \* is the OAuth credential alive
    faults      \* how many of MaxFaults have happened

genesisVars == <<lock, runtime, pc, root, session, handshake, told, cut,
                 healthy, faults>>

BootSteps == {"check", "reconcile", "route", "register", "claim",
              "clean", "sign", "open", "record", "confirm", "kickoff"}

\* A pane is recorded by its session's name until STEP4 knows its triple.
Targets == {"name", "triple"}

NoRoot == [state |-> "planned", epoch |-> 0, target |-> "name"]

NoSession == [epoch |-> 0, alive |-> FALSE]

Serving(d) == pc[d] = "serving"

Live(s) == s.epoch # 0 /\ s.alive

GenesisInit ==
    /\ lock = None
    /\ runtime = None
    /\ pc = [d \in Daemon |-> "down"]
    /\ root = NoRoot
    /\ session = NoSession
    /\ handshake = 0
    /\ told = 0
    /\ cut = 0
    /\ healthy = TRUE
    /\ faults = 0

-----------------------------------------------------------------------------
\* One of the failures the code provides for happens, while the budget lasts.
Fault == faults < MaxFaults /\ faults' = faults + 1

\* What a call may do: its part, or fail.
Works == UNCHANGED faults

Goto(d, step) == pc' = [pc EXCEPT ![d] = step]

\* The process d ends by an uncaught raise: the flock dies with it.
Exit(d) ==
    /\ Goto(d, "down")
    /\ lock' = IF lock = d THEN None ELSE lock

\* launchd, or an operator, starts the process.
Start(d) ==
    /\ pc[d] = "down"
    /\ Goto(d, "starting")
    /\ UNCHANGED <<lock, runtime, root, session, handshake, told, cut, healthy,
                   faults>>

\* A slip: the lock's answer is not looked at.
LockFreeIgnored == TRUE

LockFree == lock = None

Acquire(d) ==
    /\ pc[d] = "starting"
    /\ LockFree
    /\ lock' = d
    /\ Goto(d, "check")
    /\ UNCHANGED <<runtime, root, session, handshake, told, cut, healthy,
                   faults>>

\* DaemonAlreadyRunning.
Refused(d) ==
    /\ pc[d] = "starting"
    /\ ~LockFree
    /\ Exit(d)
    /\ UNCHANGED <<runtime, root, session, handshake, told, cut, healthy,
                   faults>>

(***************************************************************************)
(* The descriptor, by boot (b) and once more by STEP 2, and with STEP 2    *)
(* the preconditions: a lapsed credential raises.                          *)
(***************************************************************************)
Check(d) ==
    /\ pc[d] = "check"
    /\ runtime' = d
    /\ IF healthy THEN Goto(d, "reconcile") /\ UNCHANGED lock ELSE Exit(d)
    /\ UNCHANGED <<root, session, handshake, told, cut, healthy, faults>>

-----------------------------------------------------------------------------
(***************************************************************************)
(* STEP 4: reconcile_on_restart as the root meets it.  list_targets keys   *)
(* panes by triple, so a root still recorded by its session's name is      *)
(* listed never; it names no session_uuid, so a listed pane always         *)
(* matches.  Any tmux error reads as the empty listing.                    *)
(***************************************************************************)

\* A slip: a pane is looked up by its session's name.
ListedByName(blind) == ~blind /\ Live(session)

Listed(blind) == ~blind /\ Live(session) /\ root.target = "triple"

\* A slip: a root that has ended is looked for once more.
OwedUnlessPlanned == root.epoch # 0 /\ root.state # "planned"

Owed == root.epoch # 0 /\ root.state \notin TerminalStates \cup {"planned"}

\* _terminal_necro: dead if the root has children, else failed; fenced.
Necro ==
    \E state \in {"failed", "dead"} :
        root' = [root EXCEPT !.state = state, !.epoch = @ + 1]

Blindness(blind) == IF blind THEN Fault ELSE Works

\* The root's pane is alive: boot is over, with nothing to open.
Adopt(d) ==
    /\ pc[d] = "reconcile"
    /\ Owed
    /\ Listed(FALSE)
    /\ Goto(d, "serving")
    /\ UNCHANGED <<lock, runtime, root, session, handshake, told, cut, healthy,
                   faults>>

Reap(d, blind) ==
    /\ pc[d] = "reconcile"
    /\ Owed
    /\ ~Listed(blind)
    /\ Blindness(blind)
    /\ Necro
    /\ Goto(d, "route")
    /\ UNCHANGED <<lock, runtime, session, handshake, told, cut, healthy>>

-----------------------------------------------------------------------------
(***************************************************************************)
(* STEP 5: the routing.  Reconcile leaves a root that is planned, terminal *)
(* or absent.  The legs for a root that is running, or between claimed and *)
(* blocked, are not reached: reconcile has adopted or reaped every such    *)
(* root.                                                                   *)
(***************************************************************************)
AtRoute(d) == pc[d] = "route" \/ (pc[d] = "reconcile" /\ ~Owed)

\* kill-session, by name: any failure is swallowed and leaves the session.
KillSession == \/ session' = NoSession /\ Works
               \/ session.epoch # 0 /\ UNCHANGED session /\ Fault

\* An interrupted boot left a planned slot: it is claimed as it is.
KeepSlot(d) ==
    /\ AtRoute(d)
    /\ root.epoch # 0 /\ root.state = "planned"
    /\ Goto(d, "claim")
    /\ UNCHANGED <<lock, runtime, root, session, handshake, told, cut, healthy,
                   faults>>

\* kill_stale_pane on what the dead incarnation recorded.
KillStale(d) ==
    /\ AtRoute(d)
    /\ root.epoch # 0 /\ IsTerminal(root.state)
    /\ KillSession
    /\ Goto(d, "register")
    /\ UNCHANGED <<lock, runtime, root, handshake, told, cut, healthy>>

\* _register_l1_root: a planned slot above every epoch the address had.
Register(d) ==
    /\ pc[d] = "register" \/ (AtRoute(d) /\ root.epoch = 0)
    /\ root' = [state |-> "planned", epoch |-> root.epoch + 1,
                target |-> "name"]
    /\ handshake' = 0
    /\ Goto(d, "claim")
    /\ UNCHANGED <<lock, runtime, session, told, cut, healthy, faults>>

Claim(d) ==
    /\ pc[d] = "claim"
    /\ root.epoch < MaxEpoch
    /\ root' = [root EXCEPT !.state = "claimed", !.epoch = @ + 1]
    /\ Goto(d, "clean")
    /\ UNCHANGED <<lock, runtime, session, handshake, told, cut, healthy,
                   faults>>

\* A slip: the session of a prior incarnation is left to collide.
CleanNothing == UNCHANGED <<session, faults>>

CleanSession == KillSession

Clean(d) ==
    /\ pc[d] = "clean"
    /\ CleanSession
    /\ Goto(d, "sign")
    /\ UNCHANGED <<lock, runtime, root, handshake, told, cut, healthy>>

\* A slip: the token handed to the actor is that of the slot before its claim.
TokenBeforeClaim == root.epoch - 1

TokenOfTheClaim == root.epoch

\* _write_signoff_handshake.
Sign(d) ==
    /\ pc[d] = "sign"
    /\ handshake' = TokenOfTheClaim
    /\ Goto(d, "open")
    /\ UNCHANGED <<lock, runtime, root, session, told, cut, healthy, faults>>

\* pin_and_open.
Open(d) ==
    /\ pc[d] = "open"
    /\ session.epoch = 0
    /\ session' = [epoch |-> root.epoch, alive |-> TRUE]
    /\ Goto(d, "record")
    /\ UNCHANGED <<lock, runtime, root, handshake, told, cut, healthy, faults>>

\* A slip: the spawn's result is dropped, and the boot reports success.
DropFailure(d) == Goto(d, "serving") /\ UNCHANGED lock

\* The GenesisError of a failed spawn ends the process.
SurfaceFailure(d) == Exit(d)

\* release_claim.
Release(d) ==
    /\ root' = [root EXCEPT !.state = "planned", !.epoch = @ + 1]
    /\ SurfaceFailure(d)
    /\ UNCHANGED <<runtime, session, handshake, told, cut, healthy>>

\* "duplicate session": a prior incarnation still has the name.
Collide(d) == pc[d] = "open" /\ session.epoch # 0 /\ Release(d) /\ Works

\* The pieces gate refuses before the actor, or the adapter at it.
SpawnRefused(d) == pc[d] \in {"clean", "open"} /\ Release(d) /\ Fault

\* STEP4.
Record(d) ==
    /\ pc[d] = "record"
    /\ root' = [root EXCEPT !.state = "spawning", !.target = "triple"]
    /\ Goto(d, "confirm")
    /\ UNCHANGED <<lock, runtime, session, handshake, told, cut, healthy,
                   faults>>

\* STEP5.
Confirm(d) ==
    /\ pc[d] = "confirm"
    /\ root' = [root EXCEPT !.state = "running"]
    /\ Goto(d, "kickoff")
    /\ UNCHANGED <<lock, runtime, session, handshake, told, cut, healthy,
                   faults>>

\* STEP6: an append that fails is journaled, and the boot goes on.
Kickoff(d) ==
    /\ pc[d] = "kickoff"
    /\ \/ told' = root.epoch /\ UNCHANGED cut /\ Works
       \/ cut' = root.epoch /\ UNCHANGED told /\ Fault
    /\ Goto(d, "serving")
    /\ UNCHANGED <<lock, runtime, root, session, handshake, healthy>>

Boot(d) ==
    \/ Acquire(d) \/ Refused(d) \/ Check(d)
    \/ Adopt(d) \/ Reap(d, FALSE)
    \/ KeepSlot(d) \/ KillStale(d) \/ Register(d) \/ Claim(d)
    \/ Clean(d) \/ Sign(d) \/ Open(d) \/ Collide(d) \/ Record(d)
    \/ Confirm(d) \/ Kickoff(d)

-----------------------------------------------------------------------------
(***************************************************************************)
(* The serving daemon as the root meets it, and the environment.           *)
(***************************************************************************)

\* reconcile_tick: nothing opens the root again before the next boot.
TickReaps(d, blind) ==
    /\ Serving(d)
    /\ Owed
    /\ ~Listed(blind)
    /\ Blindness(blind)
    /\ Necro
    /\ UNCHANGED <<lock, runtime, pc, session, handshake, told, cut, healthy>>

(***************************************************************************)
(* The actor signs off with the token it reads in place, and the watchdog  *)
(* collapses the root.  The table has no edge to done but from running: a  *)
(* root adopted while spawning keeps its signal, refused at every tick.    *)
(***************************************************************************)
SignOff(d) ==
    /\ Serving(d)
    /\ Live(session)
    /\ handshake = root.epoch
    /\ IsLegal(root.state, "done")
    /\ root' = [root EXCEPT !.state = "done"]
    /\ UNCHANGED <<lock, runtime, pc, session, handshake, told, cut, healthy,
                   faults>>

\* The actor's process ends; its session stays, with a dead pane, or goes.
PaneDies ==
    /\ Live(session)
    /\ session' \in {NoSession, [session EXCEPT !.alive = FALSE]}
    /\ UNCHANGED <<lock, runtime, pc, root, handshake, told, cut, healthy,
                   faults>>

CredentialLapses ==
    /\ healthy /\ healthy' = FALSE
    /\ Fault
    /\ UNCHANGED <<lock, runtime, pc, root, session, handshake, told, cut>>

CredentialRenewed ==
    /\ ~healthy /\ healthy' = TRUE
    /\ UNCHANGED <<lock, runtime, pc, root, session, handshake, told, cut,
                   faults>>

\* The process is killed, wherever it is.
Crash(d) ==
    /\ pc[d] # "down"
    /\ Fault
    /\ cut' = IF pc[d] \in {"confirm", "kickoff"} THEN root.epoch ELSE cut
    /\ Exit(d)
    /\ UNCHANGED <<runtime, root, session, handshake, told, healthy>>

GenesisNext ==
    \/ \E d \in Daemon :
          \/ Start(d) \/ Boot(d) \/ SpawnRefused(d) \/ SignOff(d)
          \/ Reap(d, TRUE) \/ TickReaps(d, FALSE) \/ TickReaps(d, TRUE)
    \/ PaneDies \/ CredentialLapses \/ CredentialRenewed

(***************************************************************************)
(* launchd starts the daemon again whenever it is down, and a process that *)
(* runs is scheduled.                                                      *)
(***************************************************************************)
GenesisFairness ==
    \A d \in Daemon :
        WF_genesisVars(Start(d)) /\ WF_genesisVars(Boot(d))

-----------------------------------------------------------------------------
GenesisTypeOK ==
    /\ lock \in Daemon \cup {None}
    /\ runtime \in Daemon \cup {None}
    /\ pc \in [Daemon -> BootSteps \cup {"down", "starting", "serving"}]
    /\ root \in [state : KnownStates, epoch : Nat, target : Targets]
    /\ session \in [epoch : Nat, alive : BOOLEAN]
    /\ handshake \in Nat
    /\ told \in Nat
    /\ cut \in Nat
    /\ healthy \in BOOLEAN
    /\ faults \in 0 .. MaxFaults

(***************************************************************************)
(* runtime.json is what the pinger and the operator reach the daemon by    *)
(* (daemon.boot, "the refused loser clobbers nothing"): once a process is  *)
(* past its own descriptor, and as long as it lives, no other process, by  *)
(* hand or by launchd, has put its pid there.                              *)
(***************************************************************************)
DescriptorIsTheHolders ==
    \A d \in Daemon :
        pc[d] \notin {"down", "starting", "check"} => runtime = d

(***************************************************************************)
(* Across deaths, crashes between any two steps of the spawn, sessions     *)
(* that would not be killed and roots adopted on relaunch: the actor that  *)
(* a serving daemon counts as its root is the one opened for the root's    *)
(* own epoch, and the token it finds in its directory is the one the       *)
(* fence of its sign-off will ask for.                                     *)
(***************************************************************************)
ActorHoldsToken ==
    (\E d \in Daemon : Serving(d)) /\ Owed /\ session.epoch # 0
        => session.epoch = root.epoch /\ handshake = root.epoch

(***************************************************************************)
(* Every live root of a serving daemon has its kickoff line, unless the    *)
(* spawn was cut after STEP4 made its pane adoptable and before the line   *)
(* was in its inbox (chokepoint.py STEP4 to STEP6): no other crash, nor a  *)
(* refusal or an adoption leaves an actor that was never told to start.    *)
(***************************************************************************)
RootIsTold ==
    (\E d \in Daemon : Serving(d)) /\ Owed => root.epoch \in {told, cut}

(***************************************************************************)
(* No silent dead boot (genesis.py, "a silent dead boot"): a boot that     *)
(* ends in service ends with a root that is owed an actor and recorded by  *)
(* the pane it was opened in.                                              *)
(***************************************************************************)
NoSilentBoot ==
    [][\A d \in Daemon :
          ~Serving(d) /\ Serving(d)' => Owed' /\ root'.target = "triple"
      ]_genesisVars

(***************************************************************************)
(* The root has one slot, which boot, sweep, spawn and sign-off move each  *)
(* on what it believes the slot to be, and after deaths on what an earlier *)
(* process left.  No such step is one the table or the CAS would refuse    *)
(* (executor.transition raises, and the boot dies of it): a slot is made   *)
(* only where there is none or the last incarnation has ended, above its   *)
(* epoch, and every other move is an edge of the table under the epoch it  *)
(* has or the next.                                                        *)
(***************************************************************************)
RootIsMade ==
    /\ root.epoch = 0 \/ IsTerminal(root.state)
    /\ root'.state = "planned" /\ root'.epoch > root.epoch

RootIsMoved ==
    /\ root.epoch # 0
    /\ root'.epoch \in {root.epoch, root.epoch + 1}
    /\ Admissible(root.state, root'.state, FALSE)

RootObeysTable ==
    [][root' # root => RootIsMade \/ RootIsMoved]_genesisVars

(***************************************************************************)
(* "Relaunch is recovery" (daemon.run): with a credential that is in the   *)
(* end alive, some process serves again and again whatever was left        *)
(* behind; a leftover session is not met by every relaunch.                *)
(***************************************************************************)
RelaunchRecovers ==
    <>[]healthy => []<>(\E d \in Daemon : Serving(d))
=============================================================================
