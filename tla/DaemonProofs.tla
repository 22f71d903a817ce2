---------------------------- MODULE DaemonProofs ----------------------------
(***************************************************************************)
(* Proofs about Daemon for every set of processes and files and every      *)
(* bound: its types, who the runtime descriptor names, what a serving      *)
(* daemon's root holds and was told, that no boot ends silently, and what  *)
(* a delivered deliverable vouches for.  The boot and the deliveries share *)
(* no variable, so each has an inductive invariant of its own.             *)
(***************************************************************************)
EXTENDS Daemon, TLAPS

-----------------------------------------------------------------------------
(* The inductive invariant of the boot. *)

\* Whoever is past Acquire holds the lock, and past Check is described.
HolderInv ==
    \A d \in Daemon :
        /\ pc[d] \notin {"down", "starting"} => lock = d
        /\ pc[d] \notin {"down", "starting", "check"} => runtime = d

Recorded == root.state \in {"spawning", "running"}

\* Some process is between STEP4 and the kickoff line.
Telling == \E d \in Daemon : pc[d] \in {"confirm", "kickoff"}

\* What is true of the root wherever the processes are.
RootInv ==
    /\ root.state # "blocked"
    /\ root.state \in {"planned", "claimed"} => root.target = "name"
    /\ Recorded => /\ root.target = "triple" /\ root.epoch # 0
                   /\ handshake = root.epoch
                   /\ session.epoch \in {0, root.epoch}
                   /\ Telling \/ root.epoch \in {told, cut}

\* What a process has done of the spawn by the step it is at.
StageInv ==
    \A d \in Daemon :
        /\ pc[d] = "register" => IsTerminal(root.state)
        /\ pc[d] = "claim" => root.state = "planned" /\ root.epoch # 0
        /\ pc[d] \in {"clean", "sign", "open", "record"} =>
               root.state = "claimed" /\ root.epoch # 0
        /\ pc[d] \in {"open", "record"} => handshake = root.epoch
        /\ pc[d] = "record" => session.epoch \in {0, root.epoch}
        /\ pc[d] = "confirm" => root.state = "spawning"
        /\ pc[d] = "kickoff" => root.state = "running"
        /\ pc[d] = "serving" =>
               /\ root.state # "claimed"
               /\ Recorded => root.epoch \in {told, cut}

BootInv == GenesisTypeOK /\ HolderInv /\ RootInv /\ StageInv

-----------------------------------------------------------------------------
(* The boot. *)

\* The boot begins within its invariant.
LEMMA BootInvInit == GenesisInit => BootInv
  BY GenesisAssumption
     DEF GenesisInit, BootInv, GenesisTypeOK, HolderInv, RootInv, StageInv,
         Recorded, Telling, NoRoot, NoSession, KnownStates, Targets

\* A process that holds the lock is alone past Acquire.
LEMMA OneHolder ==
    ASSUME BootInv, NEW d \in Daemon, NEW e \in Daemon,
           pc[d] \notin {"down", "starting"}, e # d
    PROVE  pc[e] \in {"down", "starting"}
  BY DEF BootInv, HolderInv

Root == [state : KnownStates, epoch : Nat, target : Targets]

Session == [epoch : Nat, alive : BOOLEAN]

\* The root and its session are what they should be.
LEMMA RootTyped ==
    ASSUME BootInv
    PROVE  root \in Root /\ root.epoch + 1 \in Nat /\ session \in Session
  BY DEF BootInv, GenesisTypeOK, Root, Session

\* What an update of the root's state and epoch leaves it with.
LEMMA RootEnters ==
    ASSUME BootInv, NEW s \in KnownStates,
           root' = [root EXCEPT !.state = s, !.epoch = @ + 1]
    PROVE  /\ root' \in Root /\ root'.epoch # 0
           /\ root'.state = s /\ root'.target = root.target
<1>1. ASSUME NEW e \in Nat, root' = [root EXCEPT !.state = s, !.epoch = e]
      PROVE  /\ root' \in Root /\ root'.epoch = e
             /\ root'.state = s /\ root'.target = root.target
  BY <1>1, RootTyped DEF Root
<1>2. /\ root' = [root EXCEPT !.state = s, !.epoch = root.epoch + 1]
      /\ root.epoch + 1 # 0
  BY RootTyped DEF Root
<1> QED
  BY <1>1, <1>2, RootTyped

\* What an update of the root's state leaves it with.
LEMMA RootTurns ==
    ASSUME BootInv, NEW s \in KnownStates, root' = [root EXCEPT !.state = s]
    PROVE  /\ root' \in Root /\ root'.epoch = root.epoch
           /\ root'.state = s /\ root'.target = root.target
  BY RootTyped DEF Root

\* A session that ends, with or without a pane left behind.
LEMMA SessionEnds ==
    ASSUME BootInv,
           session' \in {session, NoSession, [session EXCEPT !.alive = FALSE]}
    PROVE  session' \in Session /\ session'.epoch \in {0, session.epoch}
<1>1. CASE session' = NoSession
  BY <1>1 DEF Session, NoSession
<1>2. CASE session' = [session EXCEPT !.alive = FALSE]
  BY <1>2, RootTyped DEF Session
<1>3. CASE session' = session
  BY <1>3, RootTyped
<1> QED
  BY <1>1, <1>2, <1>3

\* Starting, the lock and the check of the descriptor leave the root alone.
LEMMA EntryKeepsBootInv ==
    ASSUME BootInv, NEW d \in Daemon,
           Start(d) \/ Acquire(d) \/ Refused(d) \/ Check(d)
    PROVE  BootInv'
<1> USE DEF BootInv, GenesisTypeOK, HolderInv, RootInv, StageInv, Recorded,
            Telling, Goto, Exit, BootSteps
<1>1. CASE Start(d)
  BY <1>1 DEF Start
<1>2. CASE Acquire(d)
  BY <1>2, GenesisAssumption DEF Acquire, LockFree
<1>3. CASE Refused(d)
  BY <1>3 DEF Refused, LockFree
<1>4. CASE Check(d)
  BY <1>4 DEF Check
<1> QED
  BY <1>1, <1>2, <1>3, <1>4

\* A sweep adopts the root, or reaps it under a new epoch.
LEMMA SweepKeepsBootInv ==
    ASSUME BootInv, NEW d \in Daemon, NEW blind \in BOOLEAN,
           Adopt(d) \/ Reap(d, blind) \/ TickReaps(d, blind)
    PROVE  BootInv'
<1>1. Necro => root' \in Root /\ root'.state \in {"failed", "dead"}
  BY RootEnters DEF Necro, KnownStates
<1>2. TickReaps(d, blind) =>
          /\ pc[d] = "serving"
          /\ \A e \in Daemon \ {d} : pc[e] \in {"down", "starting"}
  BY OneHolder DEF TickReaps, Serving
<1> USE DEF BootInv, GenesisTypeOK, HolderInv, RootInv, StageInv, Recorded,
            Telling, Goto, BootSteps
<1>3. CASE Adopt(d)
  BY <1>3 DEF Adopt, Owed, Listed, KnownStates, TerminalStates
<1>4. CASE Reap(d, blind)
  BY <1>1, <1>4, GenesisAssumption DEF Reap, Blindness, Fault, Works, Root
<1>5. CASE TickReaps(d, blind)
  BY <1>1, <1>2, <1>5, GenesisAssumption
     DEF TickReaps, Blindness, Fault, Works, Root
<1> QED
  BY <1>3, <1>4, <1>5

\* The routing makes a slot, or keeps one, and claims it.
LEMMA RoutingKeepsBootInv ==
    ASSUME BootInv, NEW d \in Daemon,
           KeepSlot(d) \/ KillStale(d) \/ Register(d) \/ Claim(d)
    PROVE  BootInv'
<1>1. \A e \in Daemon \ {d} : pc[e] \in {"down", "starting"}
  BY OneHolder DEF KeepSlot, KillStale, Register, Claim, AtRoute
<1>2. KillStale(d) => /\ session' \in Session
                      /\ session'.epoch \in {0, session.epoch}
                      /\ ~Recorded /\ faults' \in 0 .. MaxFaults
  BY SessionEnds, GenesisAssumption
     DEF KillStale, KillSession, Works, Fault, IsTerminal, TerminalStates,
         Recorded, BootInv, GenesisTypeOK
<1>3. Register(d) => /\ root' \in Root /\ root'.state = "planned"
                     /\ root'.target = "name"
  BY RootTyped DEF Register, Root, KnownStates, Targets
<1>4. Claim(d) => /\ root' \in Root /\ root'.epoch # 0
                  /\ root'.state = "claimed" /\ root'.target = root.target
  BY RootEnters DEF Claim, KnownStates
<1> USE DEF BootInv, GenesisTypeOK, HolderInv, RootInv, StageInv, Recorded,
            Telling, Goto, BootSteps
<1>5. CASE KeepSlot(d)
  BY <1>1, <1>5 DEF KeepSlot, AtRoute, Owed
<1>6. CASE KillStale(d)
  BY <1>1, <1>2, <1>6 DEF KillStale, AtRoute, Session
<1>7. CASE Register(d)
  BY <1>1, <1>3, <1>7 DEF Register, AtRoute, Root
<1>8. CASE Claim(d)
  BY <1>1, <1>4, <1>8 DEF Claim, Root
<1> QED
  BY <1>5, <1>6, <1>7, <1>8

\* The spawn up to the open pane, and its two ways to fail.
LEMMA OpeningKeepsBootInv ==
    ASSUME BootInv, NEW d \in Daemon,
           \/ Clean(d) \/ Sign(d) \/ Open(d)
           \/ Collide(d) \/ SpawnRefused(d)
    PROVE  BootInv'
<1>1. \A e \in Daemon \ {d} : pc[e] \in {"down", "starting"}
  BY OneHolder DEF Clean, Sign, Open, Collide, SpawnRefused
<1>2. Clean(d) => session' \in Session /\ faults' \in 0 .. MaxFaults
  BY SessionEnds, GenesisAssumption
     DEF Clean, CleanSession, KillSession, Works, Fault, BootInv,
         GenesisTypeOK
<1>3. Open(d) => session' \in Session /\ session'.epoch = root.epoch
  BY RootTyped DEF Open, Session, Root
<1>4. Collide(d) \/ SpawnRefused(d) =>
          /\ root' \in Root /\ root'.epoch # 0
          /\ root'.state = "planned" /\ root'.target = root.target
  BY RootEnters DEF Collide, SpawnRefused, Release, KnownStates
<1> USE DEF BootInv, GenesisTypeOK, HolderInv, RootInv, StageInv, Recorded,
            Telling, Goto, Exit, BootSteps
<1>5. CASE Clean(d)
  BY <1>1, <1>2, <1>5 DEF Clean, Session
<1>6. CASE Sign(d)
  BY <1>1, <1>6 DEF Sign, TokenOfTheClaim
<1>7. CASE Open(d)
  BY <1>1, <1>3, <1>7 DEF Open, Session
<1>8. CASE Collide(d)
  BY <1>1, <1>4, <1>8 DEF Collide, Release, SurfaceFailure, Works, Root
<1>9. CASE SpawnRefused(d)
  BY <1>1, <1>4, <1>9, GenesisAssumption
     DEF SpawnRefused, Release, SurfaceFailure, Fault, Root
<1> QED
  BY <1>5, <1>6, <1>7, <1>8, <1>9

\* STEP4, STEP5 and the kickoff line.
LEMMA RecordingKeepsBootInv ==
    ASSUME BootInv, NEW d \in Daemon, Record(d) \/ Confirm(d) \/ Kickoff(d)
    PROVE  BootInv'
<1>1. \A e \in Daemon \ {d} : pc[e] \in {"down", "starting"}
  BY OneHolder DEF Record, Confirm, Kickoff
<1>2. Record(d) => /\ root' \in Root /\ root'.epoch = root.epoch
                   /\ root'.state = "spawning" /\ root'.target = "triple"
  BY RootTyped DEF Record, Root, KnownStates, Targets
<1>3. Confirm(d) => /\ root' \in Root /\ root'.epoch = root.epoch
                    /\ root'.state = "running" /\ root'.target = root.target
  BY RootTurns DEF Confirm, KnownStates
<1> USE DEF BootInv, GenesisTypeOK, HolderInv, RootInv, StageInv, Recorded,
            Telling, Goto, BootSteps
<1>4. CASE Record(d)
  BY <1>1, <1>2, <1>4 DEF Record, Root
<1>5. CASE Confirm(d)
  BY <1>1, <1>3, <1>5 DEF Confirm, Root
<1>6. CASE Kickoff(d)
  BY <1>1, <1>6, GenesisAssumption DEF Kickoff, Works, Fault
<1> QED
  BY <1>4, <1>5, <1>6

\* The actor, the credential and the crash.
LEMMA WorldKeepsBootInv ==
    ASSUME BootInv,
           \/ \E d \in Daemon : SignOff(d) \/ Crash(d)
           \/ PaneDies \/ CredentialLapses \/ CredentialRenewed
    PROVE  BootInv'
<1>1. \A d \in Daemon :
          SignOff(d) => root' \in Root /\ root'.state = "done"
  BY RootTurns DEF SignOff, KnownStates
<1>2. \A d \in Daemon :
          SignOff(d) =>
              /\ pc[d] = "serving"
              /\ \A e \in Daemon \ {d} : pc[e] \in {"down", "starting"}
  BY OneHolder DEF SignOff, Serving
<1>3. PaneDies => /\ session' \in Session
                  /\ session'.epoch \in {0, session.epoch}
  BY SessionEnds DEF PaneDies
<1> USE DEF BootInv, GenesisTypeOK, HolderInv, RootInv, StageInv, Recorded,
            Telling, Goto, Exit, BootSteps
<1>4. ASSUME NEW d \in Daemon, SignOff(d) PROVE BootInv'
  BY <1>1, <1>2, <1>4 DEF SignOff, Root
<1>5. ASSUME NEW d \in Daemon, Crash(d) PROVE BootInv'
  BY <1>5, OneHolder, GenesisAssumption DEF Crash, Fault
<1>6. CASE PaneDies
  BY <1>3, <1>6 DEF PaneDies, Session
<1>7. CASE CredentialLapses
  <2>1. /\ Fault /\ healthy' \in BOOLEAN
        /\ UNCHANGED <<lock, runtime, pc, root, session, handshake, told,
                       cut>>
    BY <1>7, Zenon DEF CredentialLapses
  <2>2. faults' \in 0 .. MaxFaults
    BY <2>1, GenesisAssumption DEF Fault
  <2> QED
    BY <2>1, <2>2
<1>8. CASE CredentialRenewed
  BY <1>8, GenesisAssumption DEF CredentialRenewed
<1> QED
  BY <1>4, <1>5, <1>6, <1>7, <1>8

\* Every step of the boot, and a crash, keep the invariant.
LEMMA BootStepKeepsBootInv ==
    ASSUME BootInv, GenesisNext \/ (\E d \in Daemon : Crash(d))
    PROVE  BootInv'
<1>1. ASSUME NEW d \in Daemon, Boot(d) \/ SpawnRefused(d)
      PROVE  BootInv'
  BY <1>1, EntryKeepsBootInv, SweepKeepsBootInv, RoutingKeepsBootInv,
     OpeningKeepsBootInv, RecordingKeepsBootInv DEF Boot
<1>2. ASSUME NEW d \in Daemon, NEW blind \in BOOLEAN,
             Reap(d, blind) \/ TickReaps(d, blind)
      PROVE  BootInv'
  BY <1>2, SweepKeepsBootInv
<1>3. ASSUME NEW d \in Daemon, Start(d) PROVE BootInv'
  BY <1>3, EntryKeepsBootInv
<1> QED
  BY <1>1, <1>2, <1>3, WorldKeepsBootInv DEF GenesisNext

-----------------------------------------------------------------------------
(* The inductive invariant of the deliveries. *)

\* A route has brought all that the running promote has to deliver.
Brought(r) == \A f \in File : arrived[r][f] >= promo.due[f]

\* Versions rise from the destination to what is committed and written.
VersionInv ==
    \A f \in File :
        /\ arrived["git-remote"][f] <= head[f]
        /\ arrived["filesystem-path"][f] <= workspace[f]
        /\ head[f] <= workspace[f] /\ workspace[f] <= calls + 1

\* What a promote has brought by the step it is at.
PromoInv ==
    /\ promo.step \in {"copy", "push", "stamp"} => promo.to # "none"
    /\ promo.step = "copy" =>
           /\ \A f \in File : promo.due[f] <= workspace[f]
           /\ promo.error
              \/ \A f \in File \ promo.left :
                     arrived["filesystem-path"][f] >= promo.due[f]
    /\ promo.step = "push" => \A f \in File : promo.due[f] <= head[f]
    /\ promo.step = "stamp" /\ promo.to = "external" =>
           \E r \in Routes : Brought(r)

PromoteInv == PromoteTypeOK /\ VersionInv /\ PromoInv /\ DeliveryVouches

-----------------------------------------------------------------------------
(* The deliveries. *)

\* The first state is within the invariant.
LEMMA PromoteInvInit == PromoteInit => PromoteInv
<1> SUFFICES ASSUME PromoteInit PROVE PromoteInv
  OBVIOUS
<1> USE PromoteAssumption DEF PromoteInit, Nothing, Finished, NoPromote
<1>1. PromoteTypeOK
  BY DEF PromoteTypeOK, Contents, Routes
<1>2. VersionInv /\ PromoInv /\ DeliveryVouches
  BY DEF VersionInv, PromoInv, DeliveryVouches, Routes
<1> QED
  BY <1>1, <1>2 DEF PromoteInv

\* What the agents write and commit only raises versions.
LEMMA AgentsKeepPromoteInv ==
    ASSUME PromoteInv, PromoteEnvironment
    PROVE  PromoteInv'
<1> USE PromoteAssumption DEF PromoteInv, PromoteTypeOK
<1>1. ASSUME NEW f \in File, AgentWrites(f)
      PROVE  PromoteInv'
  <2>1. /\ workspace' \in Contents /\ calls' \in 0 .. MaxCalls
        /\ calls' = calls + 1
        /\ \A g \in File : /\ workspace[g] <= workspace'[g]
                           /\ workspace'[g] <= calls' + 1
    BY <1>1 DEF AgentWrites, Called, Contents, VersionInv
  <2>2. UNCHANGED <<spec, head, block, arrived, promo, accepted>>
    BY <1>1 DEF AgentWrites
  <2> QED
    BY <2>1, <2>2 DEF VersionInv, PromoInv, Brought, DeliveryVouches,
                      Contents, Routes
<1>2. CASE AgentCommits
  BY <1>2 DEF AgentCommits, VersionInv, PromoInv, Brought, DeliveryVouches,
              Contents, Routes
<1> QED
  BY <1>1, <1>2 DEF PromoteEnvironment

\* A promote begins with what is written, or committed, as due.
LEMMA BeginKeepsPromoteInv ==
    ASSUME PromoteInv, BeginPromote
    PROVE  PromoteInv'
<1> USE PromoteAssumption DEF PromoteInv, PromoteTypeOK
<1>1. /\ UNCHANGED <<spec, workspace, head, block, arrived, accepted>>
      /\ calls' = calls + 1 /\ calls' \in 0 .. MaxCalls
  BY DEF BeginPromote, Called
<1>2. PICK to \in {"none", "in-place", "external"},
           kind \in Routes \cup {"none", "in-place"} :
          promo' = [step  |-> CASE to = "none" -> "fail"
                                [] to = "in-place" -> "stamp"
                                [] OTHER -> IF kind = "git-remote"
                                            THEN "push" ELSE "copy",
                    to    |-> to,
                    kind  |-> kind,
                    due   |-> IF kind = "git-remote" THEN head ELSE workspace,
                    left  |-> File,
                    error |-> FALSE]
  BY DEF BeginPromote, DerivedDest, DerivedKind, Routes
<1>3. PromoteTypeOK'
  BY <1>1, <1>2
<1>4. VersionInv' /\ DeliveryVouches'
  BY <1>1 DEF VersionInv, DeliveryVouches, Contents, Routes
<1>5. PromoInv'
  BY <1>1, <1>2 DEF PromoInv, VersionInv, Brought, Contents, Routes
<1> QED
  BY <1>3, <1>4, <1>5

\* A file that is copied arrives in a version that is no older than its due.
LEMMA CopyKeepsPromoteInv ==
    ASSUME PromoteInv, NEW f \in File, NEW failed \in BOOLEAN,
           CopyFile(f, failed)
    PROVE  PromoteInv'
<1> USE PromoteAssumption DEF PromoteInv, PromoteTypeOK
<1>1. /\ UNCHANGED <<spec, workspace, head, block, accepted, calls>>
      /\ promo.step = "copy"
      /\ promo' = [promo EXCEPT !.left = @ \ {f},
                                !.error = promo.error \/ failed]
  BY DEF CopyFile, NoteError
<1>2. /\ promo'.step = promo.step /\ promo'.to = promo.to
      /\ promo'.kind = promo.kind /\ promo'.due = promo.due
      /\ promo'.left = promo.left \ {f}
      /\ promo'.error = (promo.error \/ failed)
  BY <1>1
<1>3. /\ arrived' \in [Routes -> Contents]
      /\ arrived'["git-remote"] = arrived["git-remote"]
      /\ \A g \in File :
            arrived'["filesystem-path"][g] =
                IF g = f /\ ~failed THEN workspace[f]
                ELSE arrived["filesystem-path"][g]
  BY DEF CopyFile, Contents, Routes
<1>4. PromoteTypeOK'
  BY <1>1, <1>2, <1>3
<1>5. VersionInv'
  BY <1>1, <1>3 DEF VersionInv, Contents, Routes
<1>6. PromoInv'
  BY <1>1, <1>2, <1>3 DEF PromoInv, Contents
<1>7. DeliveryVouches'
  BY <1>1, <1>3 DEF DeliveryVouches, VersionInv, Contents, Routes
<1> QED
  BY <1>4, <1>5, <1>6, <1>7

\* The copy ends, or a push brings all that is committed, or fails.
LEMMA ArrivalKeepsPromoteInv ==
    ASSUME PromoteInv, CopyEnds \/ Push
    PROVE  PromoteInv'
<1> USE PromoteAssumption DEF PromoteInv, PromoteTypeOK
<1>1. CASE CopyEnds
  <2>1. /\ UNCHANGED <<spec, workspace, head, block, arrived, accepted,
                       calls>>
        /\ promo.step = "copy" /\ promo.left = {}
        /\ promo' = [promo EXCEPT !.step = IF promo.error THEN "fail"
                                                          ELSE "stamp"]
    BY <1>1 DEF CopyEnds
  <2>2. /\ promo' \in [step : {"none", "copy", "push", "stamp", "fail"},
                       to : {"none", "in-place", "external"},
                       kind : Routes \cup {"none", "in-place"},
                       due : Contents, left : SUBSET File, error : BOOLEAN]
        /\ promo'.step \in {"stamp", "fail"}
        /\ promo'.step = "stamp" => ~promo.error
        /\ promo'.to = promo.to /\ promo'.due = promo.due
    BY <2>1
  <2>3. PromoInv'
    BY <2>1, <2>2 DEF PromoInv, Brought, Routes
  <2>4. VersionInv' /\ DeliveryVouches'
    BY <2>1 DEF VersionInv, DeliveryVouches
  <2> QED
    BY <2>1, <2>2, <2>3, <2>4
<1>2. CASE Push
  <2>1. /\ UNCHANGED <<spec, workspace, head, block, accepted, calls>>
        /\ promo.step = "push"
        /\ \/ /\ arrived' = [arrived EXCEPT !["git-remote"] = head]
              /\ promo' = [promo EXCEPT !.step = "stamp"]
           \/ /\ promo' = [promo EXCEPT !.step = "fail"]
              /\ UNCHANGED arrived
    BY <1>2 DEF Push
  <2>2. /\ promo' \in [step : {"none", "copy", "push", "stamp", "fail"},
                       to : {"none", "in-place", "external"},
                       kind : Routes \cup {"none", "in-place"},
                       due : Contents, left : SUBSET File, error : BOOLEAN]
        /\ promo'.step \in {"stamp", "fail"}
        /\ promo'.to = promo.to /\ promo'.due = promo.due
    BY <2>1
  <2>3. /\ arrived' \in [Routes -> Contents]
        /\ arrived'["filesystem-path"] = arrived["filesystem-path"]
        /\ arrived'["git-remote"] \in {head, arrived["git-remote"]}
        /\ promo'.step = "stamp" => arrived'["git-remote"] = head
    BY <2>1 DEF Routes
  <2>4. PromoInv'
    BY <2>1, <2>2, <2>3 DEF PromoInv, Brought, Routes
  <2>5. VersionInv' /\ DeliveryVouches'
    BY <2>1, <2>3 DEF VersionInv, DeliveryVouches, Routes, Contents
  <2> QED
    BY <2>1, <2>2, <2>3, <2>4, <2>5
<1> QED
  BY <1>1, <1>2

\* A stamp makes public what was due; a daemon that dies leaves what arrived.
LEMMA StampKeepsPromoteInv ==
    ASSUME PromoteInv, StampDelivered \/ StampFailed \/ PromoteDies
    PROVE  PromoteInv'
<1> USE PromoteAssumption DEF PromoteInv, PromoteTypeOK
<1>1. /\ UNCHANGED <<spec, workspace, head, arrived, calls>>
      /\ promo' = NoPromote
  BY DEF StampDelivered, StampFailed, PromoteDies
<1>2. PromoInv' /\ VersionInv'
  BY <1>1 DEF PromoInv, VersionInv, NoPromote
<1>3. /\ block' \in [state : {"briefed", "delivered", "delivery-failed"},
                     to : {"none", "in-place", "external"},
                     kind : Routes \cup {"none"}]
      /\ accepted' \in Contents
  <2>1. \A st \in {"delivered", "delivery-failed"} :
            Stamped(st) \in
                [state : {"briefed", "delivered", "delivery-failed"},
                 to : {"none", "in-place", "external"},
                 kind : Routes \cup {"none"}]
    BY DEF Stamped
  <2> QED
    BY <2>1 DEF StampDelivered, StampFailed, PromoteDies
<1>4. PromoteTypeOK'
  BY <1>1, <1>3 DEF NoPromote, Nothing, Contents
<1>5. DeliveryVouches'
  <2>1. CASE StampDelivered
    <3>1. /\ promo.step = "stamp" /\ accepted' = promo.due
          /\ block' = Stamped("delivered")
      BY <2>1 DEF StampDelivered
    <3>2. block'.to = promo.to
      BY <3>1 DEF Stamped, PromoInv
    <3> QED
      BY <1>1, <3>1, <3>2 DEF DeliveryVouches, PromoInv, Brought
  <2>2. CASE StampFailed
    <3>1. block'.state = "delivery-failed"
      BY <2>2 DEF StampFailed, Stamped
    <3> QED
      BY <3>1 DEF DeliveryVouches
  <2>3. CASE PromoteDies
    BY <2>3 DEF PromoteDies, DeliveryVouches
  <2> QED
    BY <2>1, <2>2, <2>3
<1> QED
  BY <1>2, <1>4, <1>5

\* Every step of a promote keeps the invariant.
LEMMA PromoteStepKeepsPromoteInv ==
    ASSUME PromoteInv, PromoteStep
    PROVE  PromoteInv'
  BY BeginKeepsPromoteInv, CopyKeepsPromoteInv, ArrivalKeepsPromoteInv,
     StampKeepsPromoteInv
     DEF PromoteStep

-----------------------------------------------------------------------------
(* The daemon. *)

Inv == BootInv /\ PromoteInv

\* What leaves the variables of the boot alone leaves its invariant alone.
LEMMA BootInvUnchanged == BootInv /\ UNCHANGED genesisVars => BootInv'
  BY DEF genesisVars, BootInv, GenesisTypeOK, HolderInv, RootInv, StageInv,
         Recorded, Telling

\* What leaves the variables of the deliveries alone leaves theirs alone.
LEMMA PromoteInvUnchanged ==
    PromoteInv /\ UNCHANGED promoteVars => PromoteInv'
  BY DEF promoteVars, PromoteInv, PromoteTypeOK, VersionInv, PromoInv,
         Brought, DeliveryVouches

\* The boot and the deliveries keep the two invariants side by side.
THEOREM Invariance == Spec => []Inv
<1>1. Init => Inv
  BY BootInvInit, PromoteInvInit DEF Init, Inv
<1>2. Inv /\ [Next]_vars => Inv'
  <2> SUFFICES ASSUME Inv, [Next]_vars PROVE Inv'
    OBVIOUS
  <2>1. CASE BootsOrServes
    BY <2>1, BootStepKeepsBootInv, PromoteInvUnchanged
       DEF Inv, BootsOrServes
  <2>2. CASE Delivers
    BY <2>2, PromoteStepKeepsPromoteInv, BootInvUnchanged DEF Inv, Delivers
  <2>3. CASE AgentsWork
    BY <2>3, AgentsKeepPromoteInv, BootInvUnchanged DEF Inv, AgentsWork
  <2>4. ASSUME NEW d \in Daemon, Dies(d) PROVE Inv'
    BY <2>4, BootStepKeepsBootInv, StampKeepsPromoteInv, PromoteInvUnchanged
       DEF Inv, Dies
  <2>5. CASE UNCHANGED vars
    BY <2>5, BootInvUnchanged, PromoteInvUnchanged DEF Inv, vars
  <2> QED
    BY <2>1, <2>2, <2>3, <2>4, <2>5 DEF Next
<1> QED
  BY <1>1, <1>2, PTL DEF Spec

\* Every variable of the daemon keeps its type.
THEOREM TypeCorrect == Spec => []TypeOK
<1>1. Inv => TypeOK
  BY DEF Inv, BootInv, PromoteInv, TypeOK
<1> QED
  BY <1>1, Invariance, PTL

\* However many processes are started, runtime.json carries the pid of the
\* one that is past its own descriptor.
THEOREM HolderIsDescribed == Spec => []DescriptorIsTheHolders
<1>1. Inv => DescriptorIsTheHolders
  BY DEF Inv, BootInv, HolderInv, DescriptorIsTheHolders
<1> QED
  BY <1>1, Invariance, PTL

\* A root that is owed an actor while a daemon serves has been through STEP4.
LEMMA ServedRootIsRecorded ==
    ASSUME BootInv, NEW d \in Daemon, Serving(d), Owed
    PROVE  Recorded /\ root.epoch \in {told, cut}
  BY DEF BootInv, GenesisTypeOK, RootInv, StageInv, Recorded, Serving, Owed,
         KnownStates, TerminalStates

\* The actor of a serving daemon's root is the one of its epoch and token.
THEOREM RootsActorHoldsToken == Spec => []ActorHoldsToken
<1>1. Inv => ActorHoldsToken
  BY ServedRootIsRecorded DEF Inv, BootInv, RootInv, ActorHoldsToken
<1> QED
  BY <1>1, Invariance, PTL

\* It has its kickoff line, or its spawn was cut before it.
THEOREM ServedRootIsTold == Spec => []RootIsTold
<1>1. Inv => RootIsTold
  BY ServedRootIsRecorded DEF Inv, RootIsTold
<1> QED
  BY <1>1, Invariance, PTL

\* No boot enters service without a root that an adopted or a new pane serves.
THEOREM BootsAreNotSilent == Spec => NoSilentBoot
<1>1. Inv /\ [Next]_vars =>
          [\A d \in Daemon :
              ~Serving(d) /\ Serving(d)' => Owed' /\ root'.target = "triple"
          ]_genesisVars
  <2> SUFFICES ASSUME Inv, [Next]_vars, NEW d \in Daemon,
                      ~Serving(d), Serving(d)'
               PROVE  Owed' /\ root'.target = "triple"
    OBVIOUS
  <2>1. BootInv'
    BY BootStepKeepsBootInv, BootInvUnchanged
       DEF Inv, Next, vars, BootsOrServes, Delivers, AgentsWork, Dies
  <2>2. Adopt(d) \/ Kickoff(d)
    <3>1. pc \in [Daemon -> BootSteps \cup {"down", "starting", "serving"}]
      BY DEF Inv, BootInv, GenesisTypeOK
    <3>2. GenesisNext \/ \E e \in Daemon : Crash(e)
      BY DEF Next, vars, genesisVars, BootsOrServes, Delivers, AgentsWork,
             Dies, Serving
    <3>3. ASSUME NEW e \in Daemon, Boot(e)
          PROVE  Adopt(d) \/ Kickoff(d)
      <4>1. \/ Adopt(e) \/ Kickoff(e)
            \/ \E step \in BootSteps \cup {"down"} : Goto(e, step)
        BY <3>3
           DEF Boot, Acquire, Refused, Check, Reap, KeepSlot, KillStale,
               Register, Claim, Clean, Sign, Open, Collide, Release, Record,
               Confirm, Exit, SurfaceFailure, BootSteps
      <4>2. CASE \E step \in BootSteps \cup {"down"} : Goto(e, step)
        BY <3>1, <4>2 DEF Goto, Serving, BootSteps
      <4>3. CASE Adopt(e) \/ Kickoff(e)
        <5>1. Goto(e, "serving")
          BY <4>3 DEF Adopt, Kickoff
        <5>2. e = d
          BY <3>1, <5>1 DEF Goto, Serving
        <5> QED
          BY <4>3, <5>2
      <4> QED
        BY <4>1, <4>2, <4>3
    <3>4. CASE \E e \in Daemon : \/ Start(e) \/ SpawnRefused(e)
                                 \/ Reap(e, TRUE) \/ Crash(e)
      BY <3>1, <3>4
         DEF Start, SpawnRefused, Release, SurfaceFailure, Reap, Crash, Goto,
             Exit, Serving
    <3>5. CASE \/ \E e \in Daemon : \/ SignOff(e) \/ TickReaps(e, TRUE)
                                    \/ TickReaps(e, FALSE)
               \/ PaneDies \/ CredentialLapses \/ CredentialRenewed
      BY <3>5 DEF SignOff, TickReaps, PaneDies, CredentialLapses,
                  CredentialRenewed, Serving
    <3> QED
      BY <3>2, <3>3, <3>4, <3>5 DEF GenesisNext
  <2>3. Recorded'
    BY <2>2 DEF Inv, BootInv, GenesisTypeOK, RootInv, StageInv, Recorded,
                Adopt, Kickoff, Owed, Listed, KnownStates, TerminalStates
  <2> QED
    BY <2>1, <2>3
       DEF BootInv, RootInv, Recorded, Owed, TerminalStates
<1> QED
  BY <1>1, Invariance, PTL DEF Spec, NoSilentBoot

\* A sweep, a spawn or a sign-off moves the root along the table.
LEMMA StepObeysTable ==
    ASSUME BootInv, GenesisNext \/ (\E d \in Daemon : Crash(d)),
           root' # root
    PROVE  RootIsMade \/ RootIsMoved
<1> USE DEF Admissible, IsLegal, AllowedTransitions, ExplicitTransitions,
            KnownStates, NonTerminalStates, TerminalStates, IsTerminal
<1>1. Necro => /\ root'.epoch = root.epoch + 1
               /\ root'.state \in {"failed", "dead"}
  BY RootTyped DEF Necro, Root
<1>2. ASSUME NEW d \in Daemon, NEW blind \in BOOLEAN,
             Reap(d, blind) \/ TickReaps(d, blind)
      PROVE  RootIsMoved
  BY <1>1, <1>2, RootTyped DEF Reap, TickReaps, Owed, RootIsMoved, Root
<1>3. ASSUME NEW d \in Daemon, Register(d)
      PROVE  RootIsMade
  BY <1>3, RootTyped DEF Register, RootIsMade, Root, BootInv, StageInv
<1>4. ASSUME NEW d \in Daemon, Claim(d)
      PROVE  RootIsMoved
  <2>1. root'.state = "claimed" /\ root'.epoch = root.epoch + 1
    BY <1>4, RootTyped DEF Claim, Root
  <2> QED
    BY <1>4, <2>1 DEF Claim, RootIsMoved, BootInv, StageInv
<1>5. ASSUME NEW d \in Daemon, Release(d), pc[d] \in {"clean", "open"}
      PROVE  RootIsMoved
  <2>1. root'.state = "planned" /\ root'.epoch = root.epoch + 1
    BY <1>5, RootTyped DEF Release, Root
  <2> QED
    BY <1>5, <2>1 DEF RootIsMoved, BootInv, StageInv
<1>6. ASSUME NEW d \in Daemon, Record(d) \/ Confirm(d)
      PROVE  RootIsMoved
  <2>1. /\ Record(d) => root'.state = "spawning"
        /\ Confirm(d) => root'.state = "running"
        /\ root'.epoch = root.epoch
    BY <1>6, RootTyped DEF Record, Confirm, Root
  <2>2. /\ root.epoch # 0
        /\ Record(d) => root.state = "claimed"
        /\ Confirm(d) => root.state = "spawning"
    BY <1>6 DEF Record, Confirm, BootInv, RootInv, Recorded, StageInv
  <2> QED
    BY <1>6, <2>1, <2>2 DEF RootIsMoved
<1>7. ASSUME NEW d \in Daemon, SignOff(d)
      PROVE  RootIsMoved
  <2>1. root'.state = "done" /\ root'.epoch = root.epoch
    BY <1>7, RootTyped DEF SignOff, Root
  <2>2. root.state = "running"
    BY <1>7 DEF SignOff, BootInv, GenesisTypeOK, RootInv
  <2> QED
    BY <1>7, <2>1, <2>2
       DEF SignOff, RootIsMoved, BootInv, RootInv, Recorded
<1>8. \E d \in Daemon :
          \/ Reap(d, TRUE) \/ Reap(d, FALSE)
          \/ TickReaps(d, TRUE) \/ TickReaps(d, FALSE)
          \/ Register(d) \/ Claim(d) \/ Record(d) \/ Confirm(d) \/ SignOff(d)
          \/ Release(d) /\ pc[d] \in {"clean", "open"}
  <2>1. ASSUME NEW d \in Daemon, Boot(d)
        PROVE  \/ Reap(d, FALSE) \/ Register(d) \/ Claim(d)
               \/ Record(d) \/ Confirm(d)
               \/ Release(d) /\ pc[d] \in {"clean", "open"}
    BY <2>1
       DEF Boot, Acquire, Refused, Check, Adopt, KeepSlot, KillStale, Clean,
           Sign, Open, Collide, Kickoff
  <2>2. ASSUME NEW d \in Daemon, SpawnRefused(d)
        PROVE  Release(d) /\ pc[d] \in {"clean", "open"}
    BY <2>2 DEF SpawnRefused
  <2> QED
    BY <2>1, <2>2
       DEF GenesisNext, Start, PaneDies, CredentialLapses, CredentialRenewed,
           Crash
<1> QED
  BY <1>2, <1>3, <1>4, <1>5, <1>6, <1>7, <1>8

\* No step of boot, sweep, spawn or sign-off is one the table would refuse.
THEOREM RootsStepsObeyTable == Spec => RootObeysTable
<1>1. Inv /\ [Next]_vars =>
          [root' # root => RootIsMade \/ RootIsMoved]_genesisVars
  BY StepObeysTable
     DEF Inv, Next, vars, genesisVars, BootsOrServes, Delivers, AgentsWork,
         Dies
<1> QED
  BY <1>1, Invariance, PTL DEF Spec, RootObeysTable

\* What is stamped delivered to the outside has arrived as it was accepted.
THEOREM DeliveredIsVouchedFor == Spec => []DeliveryVouches
<1>1. Inv => DeliveryVouches
  BY DEF Inv, PromoteInv
<1> QED
  BY <1>1, Invariance, PTL

=============================================================================
