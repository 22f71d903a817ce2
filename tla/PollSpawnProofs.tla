--------------------------- MODULE PollSpawnProofs ---------------------------
(***************************************************************************)
(* More proofs about SpawnChokepoint, for a daemon whose poll thread is the *)
(* only one that spawns, collapses or services an outbox: clients pause and *)
(* resume, actors do what they like, the daemon dies at any step, writes    *)
(* into a node's directory fail and calls of tmux fail.                     *)
(***************************************************************************)
EXTENDS SpawnProofs

\* Only the poll thread spawns, collapses or services an outbox: what a client
\* may ask of the IPC thread is a pause or a resumption.
PollSpawnsAlone == Verb \subseteq {"pause", "resume"}

-----------------------------------------------------------------------------
(* The invariant. *)

\* The IPC thread has nothing to do, and the poll thread collapses nodes in
\* its watch and spawns in its outbox and its re-drive.
LegInv ==
    /\ op["ipc"] = NoOp /\ service["ipc"] = {}
    /\ tick.leg \notin {"watch", "outbox", "redrive"} =>
           op["poll"] = NoOp /\ service["poll"] = {}
    /\ tick.leg = "watch" =>
           op["poll"].pc \in {"idle", "collapse"} /\ service["poll"] = {}
    /\ op["poll"].pc = "collapse" => tick.leg = "watch"

\* A slot that a registration may take.
Reopenable(n) ==
    \/ bindings[n] = NoBinding
    \/ bindings[n].state \in {"planned"} \cup TerminalStates

\* What the poll thread has established of the node that it spawns.
SpawnInv ==
    /\ op["poll"].pc \in {"reap", "seed", "write"} =>
           Reopenable(op["poll"].node)
    /\ op["poll"].pc = "write" /\ bindings[op["poll"].node] # NoBinding =>
           op["poll"].token > bindings[op["poll"].node].epoch
    /\ op["poll"].pc \in {"gate", "kill", "sign", "open"} =>
           bindings[op["poll"].node].state = "claimed"
    /\ op["poll"].pc \in {"open", "step4"} =>
           handshake[op["poll"].node] = op["poll"].token
    /\ op["poll"].pc = "step4" /\ pane[op["poll"].node] # NoPane =>
           pane[op["poll"].node].owner = op["poll"].token

\* The actor of a node on record was stamped, and can sign off.
ActorInv(n) ==
    bindings[n].state \in {"spawning", "running"} =>
        /\ bindings[n].stamped
        /\ pane[n] # NoPane => /\ pane[n].owner = bindings[n].epoch
                               /\ handshake[n] = bindings[n].epoch

\* Two bindings that differ at most in the flag of a pause.
SameLife(b, c) ==
    /\ b.state = c.state /\ b.gen = c.gen /\ b.epoch = c.epoch
    /\ b.stamped = c.stamped

\* The sweep works from what still holds of the nodes it has yet to visit,
\* and misses a session only through a call that failed.
SweepInv ==
    /\ ~TmuxFaults => tick.unseen = {}
    /\ tick.leg \in {"map", "sweep"} =>
           \A n \in Node :
               pane[n] # NoPane => n \in tick.listed \/ n \in tick.unseen
    /\ tick.leg = "sweep" =>
           \A n \in tick.todo : SameLife(tick.snap[n], bindings[n])

\* Nothing lives that the watch does not know of.
WatchInv ==
    /\ tick.leg = "watch" =>
           \A m \in Node : Live(bindings, m) => Live(tick.snap, m)
    /\ op["poll"].pc = "collapse" /\ op["poll"].aim = "done" =>
           ~HasLiveDescendant(bindings, op["poll"].node)

PollInv ==
    /\ LegInv /\ SpawnInv /\ SweepInv /\ WatchInv
    /\ \A n \in Node : ActorInv(n)

-----------------------------------------------------------------------------
(* Below a node. *)

\* Whoever has a live descendant in a map has it in one with more life.
LEMMA LiveBelowGrows ==
    ASSUME NEW map1, NEW map2, NEW n \in Node,
           \A m \in Node : Live(map1, m) => Live(map2, m),
           HasLiveDescendant(map1, n)
    PROVE  HasLiveDescendant(map2, n)
<1>1. PICK m \in Descendants(map1, n) : Live(map1, m)
  BY DEF HasLiveDescendant
<1>2. m \in Node
  BY <1>1 DEF Descendants
<1>3. Live(map2, m) /\ map2[m] # NoBinding
  BY <1>1, <1>2 DEF Live
<1>4. m \in Descendants(map2, n)
  BY <1>1, <1>3 DEF Descendants
<1> QED
  BY <1>3, <1>4 DEF HasLiveDescendant

-----------------------------------------------------------------------------
(* The steps of a spawn. *)

\* Such a step is one of the poll thread, in one of two legs.
LEMMA SpawnStepIsPolls ==
    ASSUME Inv, PollInv, NEW t \in Thread, SpawnStep(t)
    PROVE  t = "poll" /\ tick.leg \in {"outbox", "redrive"}
<1>1. op[t].pc \in PC \ {"collapse", "consume", "refuse"}
  BY DEF SpawnStep, CheckParent, LookAtChild, ReapPane, SeedIdentity,
         WriteRegistration, WriteBrief, ReadToken, CheckPause, Claim, Gate,
         KillStalePane, WriteHandshake, OpenActor, RecordActor,
         ConfirmRunning, ReleaseClaim, RollbackSpawning, At, PC
<1>2. op[t].pc # "idle" /\ NoOp.pc = "idle"
  BY <1>1 DEF PC, NoOp
<1>3. t = "poll"
  BY <1>2 DEF PollInv, LegInv, Thread
<1> QED
  BY <1>1, <1>2, <1>3 DEF PollInv, LegInv, Inv, TypeOK, Tick

\* Its legs and snapshots are then those of before.
LEMMA SpawnStepKeepsLegs ==
    ASSUME PollInv, tick.leg \in {"outbox", "redrive"}, OnlyOp("poll"),
           op'["poll"].pc # "collapse", Rest
    PROVE  LegInv' /\ SweepInv' /\ WatchInv'
BY DEF PollInv, LegInv, SweepInv, WatchInv, OnlyOp, Rest, Thread

\* Other actors are left alone.
LEMMA OtherActorsKeep ==
    ASSUME PollInv, NEW n \in Node,
           \A m \in Node : m # n => /\ bindings'[m] = bindings[m]
                                    /\ pane'[m] = pane[m]
                                    /\ handshake'[m] = handshake[m],
           ActorInv(n)'
    PROVE  \A m \in Node : ActorInv(m)'
BY DEF PollInv, ActorInv

\* All of them, and panes may end.
LEMMA ActorsKeep ==
    ASSUME PollInv, UNCHANGED <<bindings, handshake>>,
           \A m \in Node : pane'[m] \in {pane[m], NoPane}
    PROVE  \A m \in Node : ActorInv(m)'
BY DEF PollInv, ActorInv

\* An operation that has ended has established nothing.
LEMMA EndedKnows ==
    ASSUME op'["poll"].pc \in {"idle", "consume", "refuse", "parent", "look",
                               "brief", "fresh", "pause", "claim", "step5",
                               "release", "rollback", "collapse"}
    PROVE  SpawnInv'
BY DEF SpawnInv

\* What is left to show of a step that touches neither ledger, panes nor
\* handshakes.
LEMMA QuietStepKeeps ==
    ASSUME PollInv, tick.leg \in {"outbox", "redrive"}, OnlyOp("poll"),
           op'["poll"].pc # "collapse", Rest, LedgerUnchanged,
           UNCHANGED <<pane, handshake>>, SpawnInv'
    PROVE  PollInv'
<1>1. LegInv' /\ SweepInv' /\ WatchInv'
  BY SpawnStepKeepsLegs
<1>2. \A n \in Node : ActorInv(n)'
  BY ActorsKeep DEF LedgerUnchanged
<1> QED
  BY <1>1, <1>2 DEF PollInv

\* Each step of a spawn keeps the invariant.
LEMMA SpawnStepKnows ==
    ASSUME Inv, PollInv, NEW t \in Thread, SpawnStep(t)
    PROVE  PollInv'
<1>1. t = "poll" /\ tick.leg \in {"outbox", "redrive"}
  BY SpawnStepIsPolls
<1>0. PICK n : n = op["poll"].node
  OBVIOUS
<1> USE <1>0, <1>1 DEF At
<1>2. Inv /\ TypeOK /\ OpInv("poll") /\ SpawnInv
  BY DEF Inv, PollInv
<1>3. op["poll"].pc \in PC => n \in Node /\ op["poll"].token \in Nat
  BY <1>2, AtIsOp
<1>4. CASE CheckParent(t)
  <2>1. SpawnInv'
    BY <1>2, <1>4, CheckParentDoes, EndedKnows DEF Goes, Ends
  <2> QED
    BY <1>2, <1>4, <2>1, CheckParentDoes, QuietStepKeeps
       DEF Goes, Ends, files
<1>5. CASE LookAtChild(t)
  <2>1. Goes("poll", "fresh") => SpawnInv'
    BY EndedKnows DEF Goes
  <2>2. Goes("poll", "seed") /\ bindings[n].state \in {"none", "planned"}
            => SpawnInv'
    <3> SUFFICES ASSUME Goes("poll", "seed"),
                        bindings[n].state \in {"none", "planned"}
                 PROVE  SpawnInv'
      OBVIOUS
    <3>1. Reopenable(n)
      BY <1>2, <1>3, <1>5, BoundIsBinding
         DEF LookAtChild, PC, Reopenable, TypeOK
    <3> QED
      BY <1>2, <1>5, <3>1, LookAtChildDoes
         DEF Goes, SpawnInv, Reopenable, LedgerUnchanged
  <2>3. Goes("poll", "reap") /\ bindings[n].state \in TerminalStates
            => SpawnInv'
    BY <1>2, <1>5, LookAtChildDoes
       DEF Goes, SpawnInv, Reopenable, LedgerUnchanged
  <2>4. SpawnInv'
    BY <1>2, <1>5, <2>1, <2>2, <2>3, LookAtChildDoes
  <2> QED
    BY <1>2, <1>5, <2>4, LookAtChildDoes, QuietStepKeeps DEF Goes, files
<1>6. CASE ReapPane(t)
  <2>1. /\ Goes("poll", "seed")
        /\ pane' \in {pane, [pane EXCEPT ![n] = NoPane]}
        /\ LedgerUnchanged /\ UNCHANGED files /\ Rest
    BY <1>2, <1>6, ReapPaneDoes
  <2>2. SpawnInv'
    BY <1>2, <1>6, <2>1
       DEF ReapPane, Goes, SpawnInv, Reopenable, LedgerUnchanged
  <2>3. \A m \in Node : pane'[m] \in {pane[m], NoPane}
    BY <1>2, <2>1 DEF TypeOK
  <2>4. \A m \in Node : ActorInv(m)'
    BY <2>1, <2>3, ActorsKeep DEF LedgerUnchanged, files
  <2> QED
    BY <2>1, <2>2, <2>4, SpawnStepKeepsLegs DEF Goes, PollInv
<1>7. CASE SeedIdentity(t)
  <2>1. n \in Node /\ Reopenable(n)
    BY <1>2, <1>3, <1>7 DEF SeedIdentity, PC, SpawnInv
  <2>2. CASE Ends("poll") /\ UNCHANGED <<handshake, signal>>
    BY <1>2, <1>7, <2>2, SeedIdentityDoes, EndedKnows, QuietStepKeeps
       DEF Ends
  <2>3. CASE /\ OnlyOp("poll") /\ op'["poll"].pc = "write"
             /\ op'["poll"].node = n /\ op'["poll"].token = SeedEpoch(n)
             /\ handshake' = [handshake EXCEPT ![n] = NoToken]
    <3>1. bindings[n] # NoBinding => SeedEpoch(n) > bindings[n].epoch
      BY <1>2, <2>1, SeedIsAbove
    <3>2. LedgerUnchanged /\ UNCHANGED pane /\ Rest
      BY <1>2, <1>7, SeedIdentityDoes
    <3>3. SpawnInv'
      BY <2>1, <2>3, <3>1, <3>2 DEF SpawnInv, Reopenable, LedgerUnchanged
    <3>4. ActorInv(n)'
      BY <2>1, <3>2 DEF ActorInv, Reopenable, LedgerUnchanged, NoBinding,
                        TerminalStates
    <3>5. \A m \in Node : ActorInv(m)'
      BY <1>2, <2>1, <2>3, <3>2, <3>4, OtherActorsKeep
         DEF LedgerUnchanged, TypeOK
    <3> QED
      BY <2>3, <3>2, <3>3, <3>5, SpawnStepKeepsLegs DEF PollInv
  <2> QED
    BY <1>2, <1>7, <2>2, <2>3, SeedIdentityDoes
<1>8. CASE WriteRegistration(t)
  <2>1. /\ Goes("poll", "brief") /\ OnlyLedger(n)
        /\ UNCHANGED <<pane, files>> /\ Rest
    BY <1>2, <1>8, WriteRegistrationDoes
  <2>2. bindings'[n] = [state |-> "planned", gen |-> 0,
                        epoch |-> op["poll"].token, stamped |-> FALSE,
                        paused |-> FALSE]
    BY <1>2, <1>8, WriteRegistrationDoes
  <2>3. bindings'[n].state = "planned"
    BY <2>2
  <2>4. n \in Node /\ ActorInv(n)'
    BY <1>3, <1>8, <2>3 DEF WriteRegistration, PC, ActorInv
  <2>5. \A m \in Node : ActorInv(m)'
    BY <2>1, <2>4, OtherActorsKeep DEF OnlyLedger, files
  <2>6. SpawnInv'
    BY <2>1, EndedKnows DEF Goes
  <2> QED
    BY <2>1, <2>5, <2>6, SpawnStepKeepsLegs DEF Goes, PollInv
<1>9. CASE WriteBrief(t)
  <2>1. /\ Goes("poll", "fresh") /\ UNCHANGED <<bindings, pane, handshake>>
        /\ Rest
    BY <1>2, <1>9, WriteBriefDoes
  <2>2. SpawnInv'
    BY <2>1, EndedKnows DEF Goes
  <2>3. \A m \in Node : ActorInv(m)'
    BY <2>1, ActorsKeep
  <2> QED
    BY <2>1, <2>2, <2>3, SpawnStepKeepsLegs DEF Goes, PollInv
<1>10. CASE ReadToken(t)
  BY <1>2, <1>10, ReadTokenDoes, EndedKnows, QuietStepKeeps DEF files
<1>11. CASE CheckPause(t)
  BY <1>2, <1>11, CheckPauseDoes, EndedKnows, QuietStepKeeps
     DEF Goes, Ends, files
<1>12. CASE Claim(t)
  <2>1. CASE Ends("poll") /\ LedgerUnchanged
    BY <1>2, <1>12, <2>1, ClaimDoes, EndedKnows, QuietStepKeeps
       DEF Ends, files
  <2>2. CASE /\ OnlyOp("poll") /\ op'["poll"].pc = "gate"
             /\ op'["poll"].node = n
             /\ Advances(n, "claimed", bindings[n].epoch + 1)
    <3>1. n \in Node
      BY <1>3, <1>12 DEF Claim, PC
    <3>2. UNCHANGED <<pane, files>> /\ Rest
      BY <1>2, <1>12, ClaimDoes
    <3>3. SpawnInv' /\ ActorInv(n)'
      BY <2>2 DEF Advances, SpawnInv, ActorInv
    <3>4. \A m \in Node : ActorInv(m)'
      BY <2>2, <3>1, <3>2, <3>3, OtherActorsKeep
         DEF Advances, OnlyLedger, files
    <3> QED
      BY <2>2, <3>2, <3>3, <3>4, SpawnStepKeepsLegs DEF PollInv
  <2> QED
    BY <1>2, <1>12, <2>1, <2>2, ClaimDoes
<1>13. CASE Gate(t)
  <2>1. SpawnInv'
    BY <1>2, <1>13, GateDoes DEF Gate, Goes, SpawnInv, LedgerUnchanged
  <2> QED
    BY <1>2, <1>13, <2>1, GateDoes, QuietStepKeeps DEF Goes, files
<1>14. CASE KillStalePane(t)
  <2>1. /\ Goes("poll", "sign")
        /\ pane' \in {pane, [pane EXCEPT ![n] = NoPane]}
        /\ LedgerUnchanged /\ UNCHANGED files /\ Rest
    BY <1>2, <1>14, KillStalePaneDoes
  <2>2. SpawnInv'
    BY <1>2, <1>14, <2>1 DEF KillStalePane, Goes, SpawnInv, LedgerUnchanged
  <2>3. \A m \in Node : pane'[m] \in {pane[m], NoPane}
    BY <1>2, <2>1 DEF TypeOK
  <2>4. \A m \in Node : ActorInv(m)'
    BY <2>1, <2>3, ActorsKeep DEF LedgerUnchanged, files
  <2> QED
    BY <2>1, <2>2, <2>4, SpawnStepKeepsLegs DEF Goes, PollInv
<1>15. CASE WriteHandshake(t)
  <2>1. n \in Node /\ bindings[n].state = "claimed"
    BY <1>2, <1>3, <1>15 DEF WriteHandshake, PC, SpawnInv
  <2>2. CASE Ends("poll") /\ UNCHANGED handshake
    BY <1>2, <1>15, <2>2, WriteHandshakeDoes, EndedKnows, QuietStepKeeps
       DEF Ends
  <2>3. CASE /\ Goes("poll", "open")
             /\ handshake' = [handshake EXCEPT ![n] = op["poll"].token]
    <3>1. LedgerUnchanged /\ UNCHANGED pane /\ Rest
      BY <1>2, <1>15, WriteHandshakeDoes
    <3>2. handshake'[n] = op["poll"].token
      BY <1>2, <2>1, <2>3 DEF TypeOK
    <3>3. SpawnInv'
      BY <2>1, <2>3, <3>1, <3>2 DEF Goes, SpawnInv, LedgerUnchanged
    <3>4. ActorInv(n)'
      BY <2>1, <3>1 DEF ActorInv, LedgerUnchanged
    <3>5. \A m \in Node : ActorInv(m)'
      BY <1>2, <2>1, <2>3, <3>1, <3>4, OtherActorsKeep
         DEF LedgerUnchanged, TypeOK
    <3> QED
      BY <2>3, <3>1, <3>3, <3>5, SpawnStepKeepsLegs DEF Goes, PollInv
  <2> QED
    BY <1>2, <1>15, <2>2, <2>3, WriteHandshakeDoes
<1>16. CASE OpenActor(t)
  <2>1. n \in Node /\ bindings[n].state = "claimed"
    BY <1>2, <1>3, <1>16 DEF OpenActor, PC, SpawnInv
  <2>2. CASE Goes("poll", "release") /\ UNCHANGED pane
    BY <1>2, <1>16, <2>2, OpenActorDoes, EndedKnows, QuietStepKeeps
       DEF Goes, files
  <2>3. CASE /\ Goes("poll", "step4")
             /\ pane' = [pane EXCEPT ![n] = [owner |-> op["poll"].token]]
    <3>1. LedgerUnchanged /\ UNCHANGED files /\ Rest
      BY <1>2, <1>16, OpenActorDoes
    <3>2. pane'[n].owner = op["poll"].token
      BY <1>2, <2>1, <2>3 DEF TypeOK
    <3>3. SpawnInv'
      BY <1>2, <1>16, <2>1, <2>3, <3>1, <3>2
         DEF OpenActor, Goes, SpawnInv, LedgerUnchanged, files
    <3>4. ActorInv(n)'
      BY <2>1, <3>1 DEF ActorInv, LedgerUnchanged
    <3>5. \A m \in Node : ActorInv(m)'
      BY <1>2, <2>1, <2>3, <3>1, <3>4, OtherActorsKeep
         DEF LedgerUnchanged, TypeOK, files
    <3> QED
      BY <2>3, <3>1, <3>3, <3>5, SpawnStepKeepsLegs DEF Goes, PollInv
  <2> QED
    BY <1>2, <1>16, <2>2, <2>3, OpenActorDoes
<1>17. CASE RecordActor(t)
  <2>1. n \in Node
    BY <1>3, <1>17 DEF RecordActor, PC
  <2>2. CASE Goes("poll", "release") /\ LedgerUnchanged
    BY <1>2, <1>17, <2>2, RecordActorDoes, EndedKnows, QuietStepKeeps
       DEF Goes, files
  <2>3. CASE /\ OnlyOp("poll") /\ op'["poll"].pc = "step5"
             /\ bindings[n].epoch = op["poll"].token
             /\ Advances(n, "spawning", op["poll"].token)
             /\ bindings'[n].stamped
    <3>1. UNCHANGED <<pane, files>> /\ Rest
      BY <1>2, <1>17, RecordActorDoes
    <3>2. SpawnInv'
      BY <2>3, EndedKnows
    <3>3. ActorInv(n)'
      BY <1>2, <1>17, <2>3, <3>1
         DEF RecordActor, SpawnInv, ActorInv, Advances, files
    <3>4. \A m \in Node : ActorInv(m)'
      BY <2>1, <2>3, <3>1, <3>3, OtherActorsKeep
         DEF Advances, OnlyLedger, files
    <3> QED
      BY <2>3, <3>1, <3>2, <3>4, SpawnStepKeepsLegs DEF PollInv
  <2> QED
    BY <1>2, <1>17, <2>2, <2>3, RecordActorDoes
<1>18. CASE ConfirmRunning(t)
  <2>1. n \in Node
    BY <1>3, <1>18 DEF ConfirmRunning, PC
  <2>2. CASE Goes("poll", "rollback") /\ LedgerUnchanged
    BY <1>2, <1>18, <2>2, ConfirmRunningDoes, EndedKnows, QuietStepKeeps
       DEF Goes, files
  <2>3. CASE /\ Ends("poll") /\ bindings[n].state = "spawning"
             /\ Advances(n, "running", bindings[n].epoch)
             /\ bindings'[n].stamped = bindings[n].stamped
    <3>1. UNCHANGED <<pane, files>> /\ Rest
      BY <1>2, <1>18, ConfirmRunningDoes
    <3>2. SpawnInv'
      BY <2>3, EndedKnows DEF Ends
    <3>3. ActorInv(n)'
      BY <2>1, <2>3, <3>1 DEF PollInv, ActorInv, Advances, files
    <3>4. \A m \in Node : ActorInv(m)'
      BY <2>1, <2>3, <3>1, <3>3, OtherActorsKeep
         DEF Advances, OnlyLedger, files
    <3> QED
      BY <2>3, <3>1, <3>2, <3>4, SpawnStepKeepsLegs DEF PollInv, Ends
  <2> QED
    BY <1>2, <1>18, <2>2, <2>3, ConfirmRunningDoes
<1>19. ASSUME NEW from \in {"claimed", "spawning"},
              BackToPlanned("poll", from), op["poll"].pc \in PC
       PROVE  PollInv'
  <2>1. n \in Node /\ Ends("poll") /\ UNCHANGED <<pane, files>> /\ Rest
    BY <1>2, <1>3, <1>19, BackToPlannedDoes
  <2>2. SpawnInv'
    BY <2>1, EndedKnows DEF Ends
  <2>3. CASE LedgerUnchanged
    BY <2>1, <2>2, <2>3, QuietStepKeeps DEF Ends, files
  <2>4. CASE Advances(n, "planned", bindings[n].epoch + 1)
    <3>1. ActorInv(n)'
      BY <2>4 DEF Advances, ActorInv
    <3>2. \A m \in Node : ActorInv(m)'
      BY <2>1, <2>4, <3>1, OtherActorsKeep DEF Advances, OnlyLedger, files
    <3> QED
      BY <2>1, <2>2, <3>2, SpawnStepKeepsLegs DEF PollInv, Ends
  <2> QED
    BY <1>2, <1>19, <2>3, <2>4, BackToPlannedDoes
<1>20. CASE ReleaseClaim(t) \/ RollbackSpawning(t)
  BY <1>19, <1>20 DEF ReleaseClaim, RollbackSpawning, PC
<1> QED
  BY <1>4, <1>5, <1>6, <1>7, <1>8, <1>9, <1>10, <1>11, <1>12, <1>13, <1>14,
     <1>15, <1>16, <1>17, <1>18, <1>20 DEF SpawnStep

-----------------------------------------------------------------------------
(* The other steps. *)

\* A collapse, which the watch has decided on, keeps the invariant.
LEMMA CollapseKnows ==
    ASSUME Inv, PollInv, NEW t \in Thread, Collapse(t)
    PROVE  PollInv'
<1>1. op[t].pc = "collapse" /\ NoOp.pc = "idle"
  BY DEF Collapse, At, NoOp
<1>2. t = "poll" /\ tick.leg = "watch"
  BY <1>1 DEF PollInv, LegInv, Thread
<1>3. PICK n : n = op["poll"].node
  OBVIOUS
<1>4. /\ n \in Node /\ op["poll"].aim \in TerminalStates
  BY <1>1, <1>2, <1>3, AtIsOp DEF Inv, OpInv, PC
<1>5. /\ OnlyOp("poll") /\ op'["poll"] = NoOp
      /\ \/ Advances(n, op["poll"].aim, bindings[n].epoch)
         \/ LedgerUnchanged
      /\ UNCHANGED <<pane, files>> /\ Rest
  BY <1>2, <1>3, CollapseDoes DEF Inv
<1>6. LegInv'
  BY <1>1, <1>2, <1>5 DEF PollInv, LegInv, OnlyOp, Rest, Thread
<1>7. SpawnInv'
  BY <1>1, <1>5, EndedKnows
<1>8. SweepInv'
  BY <1>2, <1>5 DEF PollInv, SweepInv, Rest
<1>9. CASE LedgerUnchanged
  <2>1. WatchInv'
    BY <1>1, <1>5, <1>9
       DEF PollInv, WatchInv, Rest, LedgerUnchanged, Live
  <2>2. \A m \in Node : ActorInv(m)'
    BY <1>5, <1>9, ActorsKeep DEF LedgerUnchanged, files
  <2> QED
    BY <1>6, <1>7, <1>8, <2>1, <2>2 DEF PollInv
<1>10. CASE Advances(n, op["poll"].aim, bindings[n].epoch)
  <2>1. bindings'[n].state \in TerminalStates
    BY <1>4, <1>10 DEF Advances
  <2>2. \A m \in Node : m # n => bindings'[m] = bindings[m]
    BY <1>10 DEF Advances, OnlyLedger
  <2>3. \A m \in Node : Live(bindings', m) => Live(bindings, m)
    BY <2>1, <2>2 DEF Live, IsTerminal
  <2>4. WatchInv'
    BY <1>1, <1>2, <1>5, <2>3 DEF PollInv, WatchInv, Rest, Live
  <2>5. ActorInv(n)'
    BY <2>1 DEF ActorInv, TerminalStates
  <2>6. \A m \in Node : ActorInv(m)'
    BY <1>4, <1>5, <2>2, <2>5, OtherActorsKeep DEF files
  <2> QED
    BY <1>6, <1>7, <1>8, <2>4, <2>6 DEF PollInv
<1> QED
  BY <1>5, <1>9, <1>10

\* A request is answered, or put to a spawn, in the same two legs.
LEMMA RequestStepKnows ==
    ASSUME Inv, PollInv, NEW t \in Thread,
           Consume(t) \/ Refuse(t) \/ ServiceRequest(t)
    PROVE  PollInv'
<1> USE DEF Inv
<1>1. NoOp.pc = "idle"
  BY DEF NoOp
<1>2. CASE Consume(t) \/ Refuse(t)
  <2>1. op[t].pc \in {"consume", "refuse"}
    BY <1>2 DEF Consume, Refuse, At
  <2>2. PICK status \in {"done", "rejected"} : EndRequest(t, status)
    BY <1>2 DEF Consume, Refuse
  <2>3. t = "poll" /\ tick.leg \in {"outbox", "redrive"}
    BY <1>1, <2>1 DEF PollInv, LegInv, Thread, TypeOK, Tick
  <2>4. /\ OnlyOp("poll") /\ op'["poll"] = NoOp /\ LedgerUnchanged
        /\ UNCHANGED <<pane, handshake>> /\ Rest
    BY <2>2, <2>3, EndRequestDoes
  <2>5. SpawnInv'
    BY <1>1, <2>4, EndedKnows
  <2> QED
    BY <1>1, <2>3, <2>4, <2>5, QuietStepKeeps
<1>3. CASE ServiceRequest(t)
  <2>1. /\ op[t] = NoOp /\ service[t] # {}
        /\ OnlyOp(t) /\ op'[t].pc \in {"idle", "parent"}
        /\ \A u \in Thread : u # t => service'[u] = service[u]
        /\ LedgerUnchanged /\ UNCHANGED <<pane, handshake, tick>>
    BY <1>3, ServiceRequestDoes
  <2>2. t = "poll" /\ tick.leg \in {"outbox", "redrive"}
    BY <2>1 DEF PollInv, LegInv, Thread, TypeOK, Tick
  <2>3. LegInv'
    BY <2>1, <2>2 DEF PollInv, LegInv, OnlyOp, Thread
  <2>4. SpawnInv'
    BY <2>1, <2>2, EndedKnows
  <2>5. SweepInv' /\ WatchInv'
    BY <2>1, <2>2 DEF PollInv, SweepInv, WatchInv
  <2>6. \A m \in Node : ActorInv(m)'
    BY <2>1, ActorsKeep DEF LedgerUnchanged
  <2> QED
    BY <2>3, <2>4, <2>5, <2>6 DEF PollInv
<1> QED
  BY <1>2, <1>3

\* With the panes, the handshakes and the spawn left alone.
LEMMA SpawnStands ==
    ASSUME PollInv, LedgerUnchanged, UNCHANGED <<pane, handshake>>,
           op'["poll"] = op["poll"] \/ op'["poll"].pc = "collapse"
                                    \/ op'["poll"].pc = "pause"
    PROVE  SpawnInv' /\ \A m \in Node : ActorInv(m)'
<1>1. \A m \in Node : ActorInv(m)'
  BY ActorsKeep DEF LedgerUnchanged
<1>2. SpawnInv'
  BY EndedKnows DEF PollInv, SpawnInv, Reopenable, LedgerUnchanged
<1> QED
  BY <1>1, <1>2

\* Each step of the tick keeps the invariant.
LEMMA TickStepKnows ==
    ASSUME Inv, PollInv, TickStep
    PROVE  PollInv'
<1> USE DEF Inv
<1>0. NoOp.pc = "idle" /\ tick.todo \subseteq Node
  BY DEF NoOp, TypeOK, Tick
<1>1. ASSUME LedgerUnchanged, UNCHANGED <<pane, handshake, op, service>>,
             op["poll"] = NoOp, service["poll"] = {}, SweepInv', WatchInv'
      PROVE  PollInv'
  <2>1. LegInv'
    BY <1>0, <1>1 DEF PollInv, LegInv
  <2> QED
    BY <1>1, <2>1, SpawnStands DEF PollInv
<1>2. ASSUME NEW l, TickOnly, Leg(l), SweepInv', WatchInv' PROVE PollInv'
  BY <1>1, <1>2 DEF TickOnly, Leg, files
<1>3. ASSUME op["poll"] = NoOp, UNCHANGED op,
             tick'.unseen \in {tick.unseen, {}},
             tick'.leg \notin {"watch", "map", "sweep"}
      PROVE  SweepInv' /\ WatchInv'
  BY <1>0, <1>3 DEF PollInv, SweepInv, WatchInv
<1>4. CASE ListTargets
  <2>1. PICK blind \in Failing :
             Carries("map", Listing(blind), Hidden(blind), tick.snap,
                     tick.todo, tick.boot)
    BY <1>4, ListTargetsDoes
  <2>2. UNCHANGED <<pane, op>> /\ op["poll"] = NoOp
    BY <1>4, ListTargetsDoes DEF Leg, TickOnly
  <2>3. SweepInv' /\ WatchInv'
    BY <1>0, <2>1, <2>2, ListingIs DEF Carries, SweepInv, WatchInv
  <2> QED
    BY <1>2, <1>4, <2>3, ListTargetsDoes
<1>5. CASE ReadBindings
  <2>1. tick.leg = "map" /\ op["poll"] = NoOp /\ TickOnly
    BY <1>5, ReadBindingsDoes DEF Leg
  <2>2. /\ tick'.leg = "sweep" /\ tick'.listed = tick.listed
        /\ tick'.snap = bindings /\ tick'.unseen = tick.unseen
    BY <1>5, ReadBindingsDoes DEF Carries
  <2>3. SweepInv' /\ WatchInv'
    BY <1>0, <2>1, <2>2
       DEF PollInv, TickOnly, LedgerUnchanged, SweepInv, WatchInv, SameLife
  <2> QED
    BY <1>2, <1>5, <2>3, ReadBindingsDoes
<1>6. CASE EndSweep
  <2>1. CASE tick'.leg = "list"
    BY <1>2, <1>3, <1>6, <2>1, EndSweepDoes DEF Leg, TickOnly
  <2>2. CASE Carries("watch", {}, {}, bindings, Bound, tick.boot)
    <3>1. SweepInv' /\ WatchInv'
      BY <1>0, <1>6, <2>2, EndSweepDoes
         DEF Leg, TickOnly, Carries, LedgerUnchanged, SweepInv, WatchInv
    <3> QED
      BY <1>2, <1>6, <3>1, EndSweepDoes
  <2> QED
    BY <1>6, <2>1, <2>2, EndSweepDoes
<1>7. CASE EndWatch
  BY <1>2, <1>3, <1>7, EndWatchDoes DEF Leg, TickOnly
<1>8. CASE EndOutbox
  BY <1>2, <1>3, <1>8, EndOutboxDoes DEF Leg, TickOnly, Carries
<1>9. CASE ListSessions
  BY <1>2, <1>3, <1>9, ListSessionsDoes DEF Leg, TickOnly, Carries
<1>10. CASE EndTick
  BY <1>2, <1>3, <1>10, EndTickDoes DEF Leg, TickOnly
<1>11. ASSUME NEW n \in Node, Sweep(n) PROVE PollInv'
  <2>1. PICK blind \in Failing :
             Carries("sweep", tick.listed,
                     tick.unseen \cup (Hidden(blind) \cap {n}), tick.snap,
                     tick.todo \ {n}, tick.boot)
    BY <1>11, SweepVisits
  <2>2. /\ tick.leg = "sweep" /\ op["poll"] = NoOp /\ service["poll"] = {}
        /\ tick'.leg = "sweep" /\ tick'.listed = tick.listed
        /\ tick'.snap = tick.snap /\ tick'.todo = tick.todo \ {n}
        /\ tick.unseen \subseteq tick'.unseen
        /\ ~TmuxFaults /\ tick.unseen = {} => tick'.unseen = {}
    BY <1>11, <2>1, SweepVisits, ListingIs DEF Leg, Carries
  <2>3. UNCHANGED <<pane, files, op, service>>
    BY <1>11 DEF Sweep
  <2>4. \A m \in Node : m # n => bindings'[m] = bindings[m]
    BY <1>11, SweepDoes DEF Advances, OnlyLedger, LedgerUnchanged
  <2>5. SweepInv' /\ WatchInv'
    BY <1>0, <2>2, <2>3, <2>4 DEF PollInv, SweepInv, WatchInv
  <2>6. CASE LedgerUnchanged
    BY <1>1, <2>2, <2>3, <2>5, <2>6 DEF files
  <2>7. CASE bindings'[n].state \in {"dead", "failed"}
    <3>1. ActorInv(n)'
      BY <2>7 DEF ActorInv
    <3>2. \A m \in Node : ActorInv(m)'
      BY <2>3, <2>4, <3>1, OtherActorsKeep DEF files
    <3>3. SpawnInv'
      BY <1>0, <2>2, <2>3, EndedKnows
    <3>4. LegInv'
      BY <1>0, <2>2, <2>3 DEF PollInv, LegInv
    <3> QED
      BY <2>5, <3>2, <3>3, <3>4 DEF PollInv
  <2> QED
    BY <1>11, <2>6, <2>7, SweepDoes
<1>12. ASSUME NEW n \in Node, ReadSignOff(n) \/ FailIdleLeaf(n)
       PROVE  PollInv'
  <2>1. Visit("watch", n)
    BY <1>12 DEF ReadSignOff, FailIdleLeaf
  <2>2. /\ tick.leg = "watch" /\ service["poll"] = {}
        /\ tick'.leg = "watch" /\ tick'.snap = tick.snap
        /\ tick'.unseen = tick.unseen
    BY <2>1, VisitDoes DEF Leg, Carries
  <2>3. /\ OnlyOp("poll") /\ op'["poll"].pc = "collapse"
        /\ op'["poll"].node = n
        /\ op'["poll"].aim = "done" => ~HasLiveDescendant(tick.snap, n)
        /\ LedgerUnchanged /\ UNCHANGED <<pane, files, service>>
    BY <1>12, ReadSignOffDoes, FailIdleLeafDoes
  <2>4. ~HasLiveDescendant(tick.snap, n) => ~HasLiveDescendant(bindings, n)
    BY <2>2, LiveBelowGrows DEF PollInv, WatchInv
  <2>5. WatchInv'
    BY <2>2, <2>3, <2>4 DEF PollInv, WatchInv, LedgerUnchanged
  <2>6. LegInv' /\ SweepInv'
    BY <2>2, <2>3 DEF PollInv, LegInv, SweepInv, OnlyOp, Thread
  <2>7. SpawnInv' /\ \A m \in Node : ActorInv(m)'
    BY <2>3, SpawnStands DEF files
  <2> QED
    BY <2>5, <2>6, <2>7 DEF PollInv
<1>13. ASSUME NEW n \in Node, NEW l, Visit(l, n), LedgerUnchanged,
              UNCHANGED <<pane, files, op, service>>
       PROVE  PollInv'
  <2>1. /\ tick.leg = l /\ op["poll"] = NoOp /\ service["poll"] = {}
        /\ tick'.leg = l /\ tick'.listed = tick.listed
        /\ tick'.snap = tick.snap /\ tick'.todo \subseteq tick.todo
        /\ tick'.unseen = tick.unseen
    BY <1>13, VisitDoes DEF Leg, Carries
  <2>2. SweepInv' /\ WatchInv'
    BY <1>0, <1>13, <2>1
       DEF PollInv, SweepInv, WatchInv, LedgerUnchanged
  <2> QED
    BY <1>1, <1>13, <2>1, <2>2 DEF files
<1>14. ASSUME NEW n \in Node, LeaveNode(n) \/ LeaveSlot(n) PROVE PollInv'
  BY <1>13, <1>14 DEF LeaveNode, LeaveSlot
<1>15. ASSUME NEW n \in Node, OpenOutbox(n) PROVE PollInv'
  <2>1. Visit("outbox", n)
    BY <1>15 DEF OpenOutbox
  <2>2. /\ tick.leg = "outbox" /\ op["poll"] = NoOp
        /\ tick'.leg = "outbox" /\ tick'.unseen = tick.unseen
    BY <2>1, VisitDoes DEF Leg, Carries
  <2>3. /\ service'["ipc"] = service["ipc"]
        /\ LedgerUnchanged /\ UNCHANGED <<pane, files, op>>
    BY <1>15, OpenOutboxDoes
  <2>4. LegInv'
    BY <1>0, <2>2, <2>3 DEF PollInv, LegInv
  <2>5. SweepInv' /\ WatchInv'
    BY <1>3, <2>2, <2>3
  <2>6. SpawnInv' /\ \A m \in Node : ActorInv(m)'
    BY <2>3, SpawnStands DEF files
  <2> QED
    BY <2>4, <2>5, <2>6 DEF PollInv
<1>16. ASSUME NEW n \in Node, Redrive(n) PROVE PollInv'
  <2>1. Visit("redrive", n)
    BY <1>16 DEF Redrive
  <2>2. tick'.leg = "redrive" /\ tick'.unseen = tick.unseen
    BY <2>1, VisitDoes DEF Leg, Carries
  <2>3. /\ OnlyOp("poll") /\ op'["poll"].pc = "pause"
        /\ LedgerUnchanged /\ UNCHANGED <<pane, files, service>>
    BY <1>16, RedriveDoes
  <2>4. LegInv'
    BY <2>2, <2>3 DEF PollInv, LegInv, OnlyOp, Thread
  <2>5. SweepInv' /\ WatchInv'
    BY <2>2, <2>3 DEF PollInv, SweepInv, WatchInv
  <2>6. SpawnInv' /\ \A m \in Node : ActorInv(m)'
    BY <2>3, SpawnStands DEF files
  <2> QED
    BY <2>4, <2>5, <2>6 DEF PollInv
<1> QED
  BY <1>4, <1>5, <1>6, <1>7, <1>8, <1>9, <1>10, <1>11, <1>12, <1>14, <1>15,
     <1>16 DEF TickStep

\* Of the verbs only the pauses are served.
LEMMA ClientStepPauses ==
    ASSUME PollSpawnsAlone, ClientStep
    PROVE  \E n \in Node : \E flag \in BOOLEAN : ClientPause(n, flag)
<1>1. ASSUME NEW n \in Node
      PROVE  ~ \/ ClientSpawn(n) \/ ClientSpawnChild(n)
               \/ ClientServiceOutbox(n) \/ ClientKill(n)
  BY DEF ClientSpawn, ClientSpawnChild, ClientServiceOutbox, ClientKill,
         Serving, PollSpawnsAlone
<1> QED
  BY <1>1 DEF ClientStep

\* A pause keeps the invariant.
LEMMA ClientPauseKnows ==
    ASSUME Inv, PollInv, NEW n \in Node, NEW flag \in BOOLEAN,
           ClientPause(n, flag)
    PROVE  PollInv'
<1> USE DEF Inv
<1>1. /\ OnlyLedger(n) /\ bindings[n] # NoBinding
      /\ SameLife(bindings[n], bindings'[n])
      /\ UNCHANGED <<pane, files, op, service, tick>>
  BY ClientPauseDoes, Absences DEF SameLife
<1>2. \A m \in Node : /\ bindings'[m] = NoBinding <=> bindings[m] = NoBinding
                      /\ SameLife(bindings[m], bindings'[m])
  BY <1>1 DEF OnlyLedger, SameLife
<1>3. op["poll"].pc \in PC => op["poll"].node \in Node
  BY AtIsOp DEF Thread
<1>4. LegInv'
  BY <1>1 DEF PollInv, LegInv
<1>5. SpawnInv'
  BY <1>1, <1>2, <1>3
     DEF PollInv, SpawnInv, Reopenable, SameLife, files, PC
<1>6. SweepInv'
  <2>1. tick.todo \subseteq Node
    BY DEF TypeOK, Tick
  <2> QED
    BY <1>1, <1>2, <2>1 DEF PollInv, SweepInv, SameLife
<1>7. WatchInv'
  <2>1. \A m \in Node : Live(bindings', m) <=> Live(bindings, m)
    BY <1>2 DEF Live, SameLife
  <2>2. op["poll"].pc = "collapse" /\ op["poll"].aim = "done"
            => ~HasLiveDescendant(bindings', op["poll"].node)
    BY <1>3, <2>1, LiveBelowGrows DEF PollInv, WatchInv, PC
  <2> QED
    BY <1>1, <2>1, <2>2 DEF PollInv, WatchInv
<1>8. \A m \in Node : ActorInv(m)'
  BY <1>1, <1>2 DEF PollInv, ActorInv, SameLife, files
<1> QED
  BY <1>4, <1>5, <1>6, <1>7, <1>8 DEF PollInv

\* Each thing that an actor does keeps the invariant.
LEMMA ActorStepKnows ==
    ASSUME Inv, PollInv, ActorStep
    PROVE  PollInv'
<1> USE DEF Inv
<1>1. /\ LedgerUnchanged /\ UNCHANGED <<handshake, op, service, tick>>
      /\ \A m \in Node : pane'[m] \in {pane[m], NoPane}
  BY ActorStepDoes
<1>2. op["poll"].pc = "step4" => op["poll"].node \in Node
  BY AtIsOp DEF PC, Thread
<1>3. LegInv'
  BY <1>1 DEF PollInv, LegInv
<1>4. SpawnInv'
  BY <1>1, <1>2 DEF PollInv, SpawnInv, Reopenable, LedgerUnchanged
<1>5. SweepInv' /\ WatchInv'
  BY <1>1 DEF PollInv, SweepInv, WatchInv, LedgerUnchanged
<1>6. \A m \in Node : ActorInv(m)'
  BY <1>1, ActorsKeep DEF LedgerUnchanged
<1> QED
  BY <1>3, <1>4, <1>5, <1>6 DEF PollInv

\* A crash keeps the invariant.
LEMMA CrashKnows ==
    ASSUME Inv, PollInv, Crash
    PROVE  PollInv'
<1>1. /\ op' = Idle /\ service' = [t \in Thread |-> {}]
      /\ tick' = StartTick(TRUE) /\ LedgerUnchanged
      /\ UNCHANGED <<pane, files>>
  BY DEF Crash
<1>2. /\ op'["poll"] = NoOp /\ op'["ipc"] = NoOp /\ NoOp.pc = "idle"
      /\ service'["poll"] = {} /\ service'["ipc"] = {}
  BY <1>1 DEF Idle, Thread, NoOp
<1>3. tick'.leg = "list" /\ tick'.unseen = {}
  BY <1>1, StartTickIs
<1>4. LegInv' /\ SpawnInv' /\ SweepInv' /\ WatchInv'
  BY <1>2, <1>3 DEF LegInv, SpawnInv, SweepInv, WatchInv
<1>5. \A m \in Node : ActorInv(m)'
  BY <1>1, ActorsKeep DEF LedgerUnchanged, files
<1> QED
  BY <1>4, <1>5 DEF PollInv

\* The invariant holds as the daemon starts.
LEMMA InitKnows ==
    ASSUME Init
    PROVE  PollInv
<1>1. /\ op["poll"] = NoOp /\ op["ipc"] = NoOp /\ NoOp.pc = "idle"
      /\ service["poll"] = {} /\ service["ipc"] = {}
  BY DEF Init, Idle, Thread, NoOp
<1>2. tick.leg = "list" /\ tick.unseen = {}
  BY StartTickIs DEF Init
<1>3. LegInv /\ SpawnInv /\ SweepInv /\ WatchInv
  BY <1>1, <1>2 DEF LegInv, SpawnInv, SweepInv, WatchInv
<1>4. ASSUME NEW n \in Node PROVE ActorInv(n)
  BY DEF Init, ActorInv, NoBinding, NoPane
<1> QED
  BY <1>3, <1>4 DEF PollInv

\* Each step of the system keeps the invariant.
LEMMA NextKnows ==
    ASSUME PollSpawnsAlone, Inv, PollInv, [Next]_vars
    PROVE  PollInv'
<1>1. CASE UNCHANGED vars
  BY <1>1 DEF vars, files, spent, PollInv, LegInv, SpawnInv, SweepInv,
              WatchInv, ActorInv, Reopenable, Live
<1>2. CASE ClientStep
  BY <1>2, ClientStepPauses, ClientPauseKnows
<1>3. ASSUME NEW t \in Thread, OperationStep(t) PROVE PollInv'
  BY <1>3, SpawnStepKnows, CollapseKnows, RequestStepKnows
     DEF OperationStep
<1> QED
  BY <1>1, <1>2, <1>3, TickStepKnows, ActorStepKnows, CrashKnows
     DEF Next, PollStep, IpcStep, Thread

\* What the legs of poll_once have established when they act still holds then,
\* if nothing but the poll thread spawns or collapses.
THEOREM PollInvariance == PollSpawnsAlone => (Spec => [](Inv /\ PollInv))
<1> SUFFICES ASSUME PollSpawnsAlone PROVE Spec => [](Inv /\ PollInv)
  OBVIOUS
<1> QED
  BY InitKnows, NextKnows, Invariance, PTL DEF Spec

\* Whoever runs on record can sign off, whatever crash or fault came first.
THEOREM ActorsCanSignOff == PollSpawnsAlone => (Spec => []ActorCanSignOff)
<1> SUFFICES ASSUME PollSpawnsAlone PROVE Spec => []ActorCanSignOff
  OBVIOUS
<1>1. PollInv => ActorCanSignOff
  BY DEF PollInv, ActorInv, ActorCanSignOff
<1> QED
  BY <1>1, PollInvariance, PTL

-----------------------------------------------------------------------------
(* What a step may do to the ledger. *)

\* A slot that may be taken is taken under a higher epoch.
Registered(n, epoch) ==
    /\ OnlyLedger(n) /\ Reopenable(n)
    /\ bindings'[n] = [state |-> "planned", gen |-> 0, epoch |-> epoch,
                       stamped |-> FALSE, paused |-> FALSE]
    /\ bindings[n] # NoBinding => epoch > bindings[n].epoch
    /\ UNCHANGED tick

\* A node advances: to "done" only bottom up, and in a tick only as one whose
\* actor, if it is on record, has no session or has not been seen.
Advanced(n, to, epoch) ==
    /\ Advances(n, to, epoch)
    /\ epoch \in {bindings[n].epoch, bindings[n].epoch + 1}
    /\ to = "done" => ~HasLiveDescendant(bindings, n)
    /\ \/ UNCHANGED tick
       \/ bindings[n].state \in {"spawning", "running"} =>
              pane[n] = NoPane \/ n \in tick'.unseen

Paused(n) ==
    /\ OnlyLedger(n)
    /\ bindings[n] \in Binding /\ bindings'[n] \in Binding
    /\ SameLife(bindings[n], bindings'[n])
    /\ UNCHANGED tick

Changes ==
    \/ UNCHANGED bindings
    \/ \E n \in Node : \/ \E epoch \in Nat : Registered(n, epoch)
                       \/ \E to \in KnownStates, epoch \in Nat :
                              Advanced(n, to, epoch)
                       \/ Paused(n)

\* An advance that is none to "done", at no step of the tick.
LEMMA PlainAdvance ==
    ASSUME NEW n \in Node, NEW to \in KnownStates \ {"done"}, NEW epoch,
           Advances(n, to, epoch), UNCHANGED tick,
           epoch \in {bindings[n].epoch, bindings[n].epoch + 1}
    PROVE  Changes
<1>1. epoch \in Nat
  BY DEF Advances, Binding
<1>2. Advanced(n, to, epoch)
  BY DEF Advanced
<1> QED
  BY <1>1, <1>2 DEF Changes

\* Each step of a spawn changes the ledger in one of these ways.
LEMMA SpawnStepChanges ==
    ASSUME Inv, PollInv, NEW t \in Thread, SpawnStep(t)
    PROVE  Changes
<1>1. t = "poll"
  BY SpawnStepIsPolls
<1>0. PICK n : n = op["poll"].node
  OBVIOUS
<1> USE <1>0, <1>1 DEF At
<1>2. Inv /\ TypeOK /\ OpInv("poll") /\ SpawnInv
  BY DEF Inv, PollInv
<1>3. op["poll"].pc \in PC => n \in Node /\ op["poll"].token \in Nat
  BY <1>2, AtIsOp
<1>4. LedgerUnchanged => Changes
  BY DEF LedgerUnchanged, Changes
<1>5. CASE \/ CheckParent(t) \/ LookAtChild(t) \/ ReapPane(t)
           \/ SeedIdentity(t) \/ ReadToken(t) \/ CheckPause(t) \/ Gate(t)
           \/ KillStalePane(t) \/ WriteHandshake(t) \/ OpenActor(t)
  BY <1>4, <1>5
     DEF CheckParent, LookAtChild, ReapPane, SeedIdentity, ReadToken,
         CheckPause, Gate, KillStalePane, WriteHandshake, OpenActor
<1>6. CASE WriteBrief(t)
  BY <1>6 DEF WriteBrief, Changes
<1>7. CASE WriteRegistration(t)
  <2>1. n \in Node /\ op["poll"].token \in Nat
    BY <1>3, <1>7 DEF WriteRegistration, PC
  <2>2. /\ Reopenable(n)
        /\ bindings[n] # NoBinding => op["poll"].token > bindings[n].epoch
    BY <1>2, <1>7 DEF WriteRegistration, SpawnInv
  <2>3. Registered(n, op["poll"].token)
    BY <1>2, <1>7, <2>2, WriteRegistrationDoes DEF Registered, Rest
  <2> QED
    BY <2>1, <2>3 DEF Changes
<1>8. CASE Claim(t)
  <2>1. n \in Node
    BY <1>3, <1>8 DEF Claim, PC
  <2>2. CASE Advances(n, "claimed", bindings[n].epoch + 1)
    BY <1>2, <1>8, <2>1, <2>2, ClaimDoes, PlainAdvance DEF Rest, KnownStates
  <2> QED
    BY <1>2, <1>4, <1>8, <2>2, ClaimDoes
<1>9. CASE RecordActor(t)
  <2>1. n \in Node
    BY <1>3, <1>9 DEF RecordActor, PC
  <2>2. CASE /\ Advances(n, "spawning", op["poll"].token)
             /\ bindings[n].epoch = op["poll"].token
    BY <1>2, <1>9, <2>1, <2>2, RecordActorDoes, PlainAdvance
       DEF Rest, KnownStates
  <2> QED
    BY <1>2, <1>4, <1>9, <2>2, RecordActorDoes
<1>10. CASE ConfirmRunning(t)
  <2>1. n \in Node
    BY <1>3, <1>10 DEF ConfirmRunning, PC
  <2>2. CASE Advances(n, "running", bindings[n].epoch)
    BY <1>2, <1>10, <2>1, <2>2, ConfirmRunningDoes, PlainAdvance
       DEF Rest, KnownStates
  <2> QED
    BY <1>2, <1>4, <1>10, <2>2, ConfirmRunningDoes
<1>11. ASSUME NEW from \in {"claimed", "spawning"},
              BackToPlanned("poll", from), op["poll"].pc \in PC
       PROVE  Changes
  <2>1. n \in Node
    BY <1>3, <1>11
  <2>2. CASE Advances(n, "planned", bindings[n].epoch + 1)
    BY <1>2, <1>11, <2>1, <2>2, BackToPlannedDoes, PlainAdvance
       DEF Rest, KnownStates
  <2> QED
    BY <1>2, <1>4, <1>11, <2>2, BackToPlannedDoes
<1>12. CASE ReleaseClaim(t) \/ RollbackSpawning(t)
  BY <1>11, <1>12 DEF ReleaseClaim, RollbackSpawning, PC
<1> QED
  BY <1>5, <1>6, <1>7, <1>8, <1>9, <1>10, <1>12 DEF SpawnStep

\* A collapse to "done" is bottom up still when it is made.
LEMMA CollapseChanges ==
    ASSUME Inv, PollInv, NEW t \in Thread, Collapse(t)
    PROVE  Changes
<1>1. op[t].pc = "collapse" /\ NoOp.pc = "idle"
  BY DEF Collapse, At, NoOp
<1>2. t = "poll"
  BY <1>1 DEF PollInv, LegInv, Thread
<1>3. PICK n : n = op["poll"].node
  OBVIOUS
<1>4. n \in Node /\ op["poll"].aim \in KnownStates
  BY <1>1, <1>2, <1>3, AtIsOp DEF Inv, PC
<1>5. CASE LedgerUnchanged
  BY <1>5 DEF LedgerUnchanged, Changes
<1>6. CASE Advances(n, op["poll"].aim, bindings[n].epoch)
  <2>1. bindings[n].epoch \in Nat
    BY <1>6 DEF Advances, Binding
  <2>2. UNCHANGED tick
    BY DEF Collapse
  <2>3. op["poll"].aim = "done" => ~HasLiveDescendant(bindings, n)
    BY <1>1, <1>2, <1>3 DEF PollInv, WatchInv
  <2>4. Advanced(n, op["poll"].aim, bindings[n].epoch)
    BY <1>6, <2>2, <2>3 DEF Advanced
  <2> QED
    BY <1>4, <2>1, <2>4 DEF Changes
<1> QED
  BY <1>2, <1>3, <1>5, <1>6, CollapseDoes DEF Inv

\* The sweep stamps a recorded actor's node only for want of a session.
LEMMA SweepChanges ==
    ASSUME Inv, PollInv, NEW n \in Node, Sweep(n)
    PROVE  Changes
<1>2. tick.leg = "sweep" /\ n \in tick.todo
  BY SweepVisits DEF Inv, Leg
<1>6. tick.unseen \subseteq tick'.unseen
  BY SweepVisits DEF Inv, Carries
<1>3. SameLife(tick.snap[n], bindings[n])
  BY <1>2 DEF PollInv, SweepInv
<1>4. CASE LedgerUnchanged
  BY <1>4 DEF LedgerUnchanged, Changes
<1>5. CASE /\ Missed(n)
           /\ Advances(n, bindings'[n].state, tick.snap[n].epoch + 1)
           /\ bindings'[n].state \in {"dead", "failed"}
  <2>1. PICK to \in KnownStates \ {"done"} : to = bindings'[n].state
    BY <1>5 DEF KnownStates
  <2>2. PICK e \in Nat : e = bindings[n].epoch + 1
    BY <1>5 DEF Advances, Binding
  <2>3. Advances(n, to, e)
    BY <1>3, <1>5, <2>1, <2>2 DEF SameLife
  <2>4. bindings[n].state \in {"spawning", "running"} =>
            pane[n] = NoPane \/ n \in tick'.unseen
    BY <1>2, <1>3, <1>5, <1>6
       DEF PollInv, SweepInv, ActorInv, SameLife, Missed
  <2>5. Advanced(n, to, e)
    BY <2>1, <2>2, <2>3, <2>4 DEF Advanced
  <2> QED
    BY <2>5 DEF Changes
<1> QED
  BY <1>4, <1>5, SweepDoes

\* Each step of the system does.
LEMMA StepChanges ==
    ASSUME PollSpawnsAlone, Inv, PollInv, [Next]_vars
    PROVE  Changes
<1>1. LedgerUnchanged => Changes
  BY DEF LedgerUnchanged, Changes
<1>2. CASE UNCHANGED vars
  BY <1>2 DEF vars, Changes
<1>3. ASSUME NEW t \in Thread, OperationStep(t) PROVE Changes
  <2>1. CASE Consume(t) \/ Refuse(t) \/ ServiceRequest(t)
    BY <1>1, <2>1 DEF Consume, Refuse, EndRequest, ServiceRequest
  <2> QED
    BY <1>3, <2>1, SpawnStepChanges, CollapseChanges DEF OperationStep
<1>4. CASE TickStep
  <2>1. CASE \/ ListTargets \/ ReadBindings \/ EndSweep \/ EndWatch
             \/ EndOutbox \/ ListSessions \/ EndTick
    BY <1>1, <2>1
       DEF ListTargets, ReadBindings, EndSweep, EndWatch, EndOutbox,
           ListSessions, EndTick, TickOnly
  <2>2. ASSUME NEW n \in Node,
               \/ ReadSignOff(n) \/ FailIdleLeaf(n) \/ LeaveNode(n)
               \/ OpenOutbox(n) \/ Redrive(n) \/ LeaveSlot(n)
        PROVE  Changes
    BY <1>1, <2>2
       DEF ReadSignOff, FailIdleLeaf, LeaveNode, OpenOutbox, Redrive,
           LeaveSlot
  <2> QED
    BY <1>4, <2>1, <2>2, SweepChanges DEF TickStep
<1>5. CASE ClientStep
  <2>1. PICK n \in Node, flag \in BOOLEAN : ClientPause(n, flag)
    BY <1>5, ClientStepPauses
  <2>2. Paused(n)
    BY <2>1, ClientPauseDoes DEF Inv, Paused, SameLife
  <2> QED
    BY <2>2 DEF Changes
<1>6. CASE ActorStep
  BY <1>1, <1>6, ActorStepDoes DEF Inv
<1>7. CASE Crash
  BY <1>1, <1>7 DEF Crash
<1> QED
  BY <1>2, <1>3, <1>4, <1>5, <1>6, <1>7 DEF Next, PollStep, IpcStep, Thread

-----------------------------------------------------------------------------
(* The action properties. *)

\* At one node at most the binding changes.
LEMMA OneNodeChanges ==
    ASSUME Changes, NEW n \in Node, bindings'[n] # bindings[n]
    PROVE  \/ \E epoch \in Nat : Registered(n, epoch)
           \/ \E to \in KnownStates, epoch \in Nat : Advanced(n, to, epoch)
           \/ Paused(n)
BY DEF Changes, Registered, Advanced, Advances, Paused, OnlyLedger

\* The sweep stamps a node whose recorded actor has a session only where a
\* listing of that sweep has failed to show it.
THEOREM SweepSpares == PollSpawnsAlone => (Spec => SweepReapsTheUnseen)
<1> SUFFICES ASSUME PollSpawnsAlone PROVE Spec => SweepReapsTheUnseen
  OBVIOUS
<1> DEFINE Spares == \A n \in Node :
               Necroed(n) /\ bindings[n].state \in {"spawning", "running"}
               => pane[n] = NoPane \/ n \in tick'.unseen
<1>1. Inv /\ PollInv /\ [Next]_vars => [Spares]_vars
  <2> SUFFICES ASSUME Inv, PollInv, [Next]_vars, NEW n \in Node, Necroed(n),
                      bindings[n].state \in {"spawning", "running"}
               PROVE  pane[n] = NoPane \/ n \in tick'.unseen
    OBVIOUS
  <2>1. bindings'[n] # bindings[n] /\ tick' # tick
    BY DEF Necroed
  <2>2. Changes
    BY StepChanges
  <2> QED
    BY <2>1, <2>2, OneNodeChanges DEF Registered, Advanced, Paused
<1> HIDE DEF Spares
<1>2. SweepReapsTheUnseen <=> [][Spares]_vars
  BY DEF SweepReapsTheUnseen, Spares
<1> QED
  BY <1>1, <1>2, PollInvariance, PTL DEF Spec

\* As long as no call of tmux fails, the sweep stamps no node whose recorded
\* actor has a session.
THEOREM SweepSparesTheSeen ==
    PollSpawnsAlone /\ ~TmuxFaults => (Spec => NecroSparesTheRecorded)
<1> SUFFICES ASSUME PollSpawnsAlone, ~TmuxFaults
             PROVE  Spec => NecroSparesTheRecorded
  OBVIOUS
<1> DEFINE Spares == \A n \in Node :
               Necroed(n) /\ bindings[n].state \in {"spawning", "running"}
               => pane[n] = NoPane
<1>1. Inv /\ PollInv /\ [Next]_vars => [Spares]_vars
  <2> SUFFICES ASSUME Inv, PollInv, [Next]_vars, NEW n \in Node, Necroed(n),
                      bindings[n].state \in {"spawning", "running"}
               PROVE  pane[n] = NoPane
    OBVIOUS
  <2>1. bindings'[n] # bindings[n] /\ tick' # tick
    BY DEF Necroed
  <2>2. Changes
    BY StepChanges
  <2>3. n \notin tick'.unseen
    BY NextKnows DEF PollInv, SweepInv
  <2> QED
    BY <2>1, <2>2, <2>3, OneNodeChanges DEF Registered, Advanced, Paused
<1> HIDE DEF Spares
<1>2. NecroSparesTheRecorded <=> [][Spares]_vars
  BY DEF NecroSparesTheRecorded, Spares
<1> QED
  BY <1>1, <1>2, PollInvariance, PTL DEF Spec

\* A node is done only when nothing below it lives.
THEOREM DoneFromBelow == PollSpawnsAlone => (Spec => DoneIsBottomUp)
<1> SUFFICES ASSUME PollSpawnsAlone PROVE Spec => DoneIsBottomUp
  OBVIOUS
<1> DEFINE BottomUp == \A n \in Node :
               bindings[n].state # "done" /\ bindings'[n].state = "done"
               => ~HasLiveDescendant(bindings, n)
<1>1. Inv /\ PollInv /\ [Next]_vars => [BottomUp]_vars
  <2> SUFFICES ASSUME Inv, PollInv, [Next]_vars, NEW n \in Node,
                      bindings[n].state # "done",
                      bindings'[n].state = "done"
               PROVE  ~HasLiveDescendant(bindings, n)
    OBVIOUS
  <2>1. Changes
    BY StepChanges
  <2>2. ~Paused(n)
    BY DEF Paused, SameLife
  <2>3. ASSUME NEW epoch, Registered(n, epoch) PROVE FALSE
    <3>1. bindings'[n] = [state |-> "planned", gen |-> 0, epoch |-> epoch,
                          stamped |-> FALSE, paused |-> FALSE]
      BY <2>3 DEF Registered
    <3> QED
      BY <3>1
  <2> QED
    BY <2>1, <2>2, <2>3, OneNodeChanges DEF Advanced, Advances
<1> HIDE DEF BottomUp
<1>2. DoneIsBottomUp <=> [][BottomUp]_vars
  BY DEF DoneIsBottomUp, BottomUp
<1> QED
  BY <1>1, <1>2, PollInvariance, PTL DEF Spec

\* The generation of a node that no registration may take only grows.
THEOREM LiveIsSpared == PollSpawnsAlone => (Spec => RegistrationSparesLive)
<1> SUFFICES ASSUME PollSpawnsAlone PROVE Spec => RegistrationSparesLive
  OBVIOUS
<1> DEFINE Grow == \A n \in Node :
               bindings[n].state \notin
                   {"none", "planned"} \cup TerminalStates
               => bindings'[n].gen >= bindings[n].gen
<1>1. Inv /\ PollInv /\ [Next]_vars => [Grow]_vars
  <2> SUFFICES ASSUME Inv, PollInv, [Next]_vars, NEW n \in Node,
                      bindings[n].state \notin
                          {"none", "planned"} \cup TerminalStates
               PROVE  bindings'[n].gen >= bindings[n].gen
    OBVIOUS
  <2>1. Changes
    BY StepChanges
  <2>2. bindings[n] \in Binding
    BY BoundIsBinding DEF Inv, TypeOK
  <2>3. bindings[n].gen \in Nat
    BY <2>2 DEF Binding
  <2>4. ASSUME NEW epoch PROVE ~Registered(n, epoch)
    BY <2>2, Absences DEF Registered, Reopenable
  <2>5. CASE bindings'[n] = bindings[n]
    BY <2>3, <2>5
  <2>6. CASE bindings'[n] # bindings[n]
    BY <2>1, <2>3, <2>4, <2>6, OneNodeChanges
       DEF Advanced, Advances, Paused, SameLife
  <2> QED
    BY <2>5, <2>6
<1> HIDE DEF Grow
<1>2. RegistrationSparesLive <=> [][Grow]_vars
  BY DEF RegistrationSparesLive, Grow
<1> QED
  BY <1>1, <1>2, PollInvariance, PTL DEF Spec

-----------------------------------------------------------------------------
(* The refinement. *)

\* The register that a binding implements.
RegisterOf(b) ==
    IF b = NoBinding THEN NoBinding
    ELSE [state |-> b.state, gen |-> b.gen, epoch |-> b.epoch,
          slice |-> IF b.paused THEN "paused" ELSE "plain"]

\* A register shows the binding of its node.
LEMMA RegistersAre ==
    ASSUME NEW n \in Node
    PROVE  /\ Registers[n] = RegisterOf(bindings[n])
           /\ Registers'[n] = RegisterOf(bindings'[n])
BY DEF Registers, RegisterOf

\* A register shows state, generation, epoch and pause of a binding.
LEMMA RegisterOfIs ==
    ASSUME NEW b \in Binding
    PROVE  /\ RegisterOf(b) # NoBinding
           /\ RegisterOf(b).state = b.state /\ RegisterOf(b).gen = b.gen
           /\ RegisterOf(b).epoch = b.epoch
           /\ RegisterOf(b).slice = IF b.paused THEN "paused" ELSE "plain"
<1>1. b # NoBinding /\ b.state # "none"
  BY Absences DEF Binding, KnownStates
<1>2. RegisterOf(b).state = b.state
  BY <1>1 DEF RegisterOf
<1> QED
  BY <1>1, <1>2 DEF RegisterOf, NoBinding

\* The table of the ledger is that of the bindings.
LEMMA SameTable ==
    /\ \A s, r : Ledger!IsLegal(s, r) <=> IsLegal(s, r)
    /\ \A s : Ledger!IsTerminal(s) <=> IsTerminal(s)
BY DEF IsLegal, Ledger!IsLegal, AllowedTransitions,
       Ledger!AllowedTransitions, ExplicitTransitions,
       Ledger!ExplicitTransitions, KnownStates, Ledger!KnownStates,
       NonTerminalStates, Ledger!NonTerminalStates, TerminalStates,
       Ledger!TerminalStates, IsTerminal, Ledger!IsTerminal

\* A step of one register is a step of the ledger.
LEMMA OneRegister ==
    ASSUME NEW n \in Node, OnlyLedger(n),
           Ledger!Step(RegisterOf(bindings[n]), RegisterOf(bindings'[n]))
    PROVE  Ledger!Next
<1>1. \A m \in Node \ {n} : Registers'[m] = Registers[m]
  BY RegistersAre DEF OnlyLedger
<1>2. Ledger!Step(Registers[n], Registers'[n])
  BY RegistersAre
<1> QED
  BY <1>1, <1>2 DEF Ledger!Next

\* Each such change is a step of the atomic ledger.
LEMMA ChangesAreLedgerSteps ==
    ASSUME TypeOK, Changes
    PROVE  [Ledger!Next]_Registers
<1>1. CASE UNCHANGED bindings
  BY <1>1 DEF Registers
<1>2. ASSUME NEW n \in Node, NEW epoch \in Nat, Registered(n, epoch)
      PROVE  Ledger!Next
  <2>1. PICK b : b = bindings'[n]
    OBVIOUS
  <2>2. b = [state |-> "planned", gen |-> 0, epoch |-> epoch,
             stamped |-> FALSE, paused |-> FALSE]
    BY <1>2, <2>1 DEF Registered
  <2>3. /\ b \in Binding /\ b.state = "planned" /\ b.gen = 0
        /\ b.epoch = epoch /\ b.paused = FALSE
    BY <2>2 DEF Binding, KnownStates
  <2>4. Ledger!Reregistrable(RegisterOf(bindings[n]))
    <3>1. CASE bindings[n] = NoBinding
      BY <3>1 DEF RegisterOf, Ledger!Reregistrable
    <3>2. CASE bindings[n] # NoBinding
      BY <1>2, <3>2, RegisterOfIs, SameTable
         DEF TypeOK, Registered, Reopenable, Ledger!Reregistrable, IsTerminal
    <3> QED
      BY <3>1, <3>2
  <2>5. RegisterOf(bindings[n]) # NoBinding
            => epoch > RegisterOf(bindings[n]).epoch
    BY <1>2, RegisterOfIs DEF TypeOK, Registered, RegisterOf
  <2>6. Ledger!Register(RegisterOf(bindings[n]), RegisterOf(b))
    BY <2>3, <2>4, <2>5, RegisterOfIs DEF Ledger!Register
  <2> QED
    BY <1>2, <2>1, <2>6, OneRegister DEF Registered, Ledger!Step
<1>3. ASSUME NEW n \in Node, NEW to \in KnownStates, NEW epoch \in Nat,
             Advanced(n, to, epoch)
      PROVE  Ledger!Next
  <2>1. /\ bindings[n] \in Binding /\ bindings'[n] \in Binding
        /\ IsLegal(bindings[n].state, bindings'[n].state)
        /\ bindings'[n].gen = bindings[n].gen + 1
        /\ bindings'[n].epoch \in {bindings[n].epoch, bindings[n].epoch + 1}
        /\ OnlyLedger(n)
    BY <1>3 DEF Advanced, Advances
  <2>2. PICK old, new : /\ old = RegisterOf(bindings[n])
                        /\ new = RegisterOf(bindings'[n])
    OBVIOUS
  <2>3. /\ old # NoBinding /\ new # NoBinding
        /\ new.gen = old.gen + 1 /\ new.epoch \in {old.epoch, old.epoch + 1}
        /\ IsLegal(old.state, new.state)
        /\ new.slice \in {"paused", "plain"}
    BY <2>1, <2>2, RegisterOfIs
  <2>4. Ledger!Admissible(old.state, new.state, new.slice = "escalated")
    BY <2>3, SameTable DEF Ledger!Admissible
  <2>5. Ledger!Advance(old, new)
    BY <2>3, <2>4 DEF Ledger!Advance
  <2> QED
    BY <2>1, <2>2, <2>5, OneRegister DEF Ledger!Step
<1>4. ASSUME NEW n \in Node, Paused(n) PROVE Ledger!Next
  <2>1. /\ bindings[n] \in Binding /\ bindings'[n] \in Binding
        /\ SameLife(bindings[n], bindings'[n]) /\ OnlyLedger(n)
    BY <1>4 DEF Paused
  <2>2. PICK b, c : b = bindings[n] /\ c = bindings'[n]
    OBVIOUS
  <2>3. /\ RegisterOf(b) =
               [state |-> b.state, gen |-> b.gen, epoch |-> b.epoch,
                slice |-> IF b.paused THEN "paused" ELSE "plain"]
        /\ RegisterOf(c) =
               [state |-> b.state, gen |-> b.gen, epoch |-> b.epoch,
                slice |-> IF c.paused THEN "paused" ELSE "plain"]
    BY <2>1, <2>2, Absences DEF RegisterOf, SameLife
  <2>4. RegisterOf(c) =
            [RegisterOf(b) EXCEPT !.slice = RegisterOf(c).slice]
    BY <2>3
  <2>5. RegisterOf(b) # NoBinding /\ RegisterOf(c) # NoBinding
    BY <2>1, <2>2, RegisterOfIs
  <2>6. Ledger!Observe(RegisterOf(b), RegisterOf(c))
    BY <2>4, <2>5 DEF Ledger!Observe
  <2> QED
    BY <2>1, <2>2, <2>6, OneRegister DEF Ledger!Step
<1> QED
  BY <1>1, <1>2, <1>3, <1>4 DEF Changes

\* Every step of the poll thread, and every pause beside it, is a step of the
\* ledger or leaves the ledger alone.
THEOREM ImplementsLedger == PollSpawnsAlone => (Spec => StepsAreLedgerSteps)
<1> SUFFICES ASSUME PollSpawnsAlone PROVE Spec => StepsAreLedgerSteps
  OBVIOUS
<1>1. Inv /\ PollInv /\ [Next]_vars => [Ledger!Next]_Registers
  BY StepChanges, ChangesAreLedgerSteps DEF Inv
<1>2. StepsAreLedgerSteps <=> [][Ledger!Next]_Registers
  BY DEF StepsAreLedgerSteps
<1> QED
  BY <1>1, <1>2, PollInvariance, PTL DEF Spec
=============================================================================
