--------------------------- MODULE SpawnChokepoint ---------------------------
(***************************************************************************)
(* The one spawn path of harnessd (spawn/chokepoint.py) and the two threads *)
(* of the daemon that use it: the poll thread, whose tick sweeps bindings   *)
(* against tmux (reconcile.py), reads sign-offs (watchdog.py), services     *)
(* spawn requests (spawn/outbox.py) and re-drives planned slots             *)
(* (daemon.py), and the IPC thread, which serves one client verb at a time  *)
(* (ipc.py).                                                                *)
(*                                                                         *)
(* A binding changes in one indivisible, compare-and-swapped step: that is  *)
(* what AtomicLedger promises and RunLedger is checked to deliver.  All     *)
(* that happens between two such steps is interleaved here: unlocked reads, *)
(* the registration's look and its later write, files in the node's         *)
(* directory, and the tmux session, of which an address has one name and    *)
(* hence at most one.  An owner token is written as the lease epoch it was  *)
(* minted at (RunLedger's TokenMintedAtEpoch).                              *)
(***************************************************************************)
EXTENDS Integers, FiniteSetsExt, Lifecycle

CONSTANTS
    Node,        \* addresses
    Parent,      \* the supervision tree: a node's parent, or NoParent
    Signer,      \* the nodes whose actor may sign off
    Mortal,      \* the nodes whose session may end by itself
    Verb,        \* the client verbs that are used
    MaxEpoch,    \* where it is reached, claims and registrations fail, as
                 \* they do on a full disk
    MaxCrashes,
    MaxCalls,    \* client verbs served
    DiskFaults,  \* whether a write into a node's directory may fail
    TmuxFaults   \* whether a call of tmux may fail

NoParent == "none"

ASSUME TreeAssumption == Parent \in [Node -> Node \cup {NoParent}]

ASSUME ActorAssumption == Signer \subseteq Node /\ Mortal \subseteq Node

ASSUME VerbAssumption ==
    Verb \subseteq {"spawn", "spawn_child", "service_outbox", "kill",
                    "pause", "resume"}

ASSUME BoundAssumption ==
    /\ MaxEpoch \in Nat /\ MaxCrashes \in Nat /\ MaxCalls \in Nat
    /\ DiskFaults \in BOOLEAN /\ TmuxFaults \in BOOLEAN

Thread == {"poll", "ipc"}

NoBinding == [state |-> "none"]
NoPane == [owner |-> 0]
NoSignal == [kind |-> "none", token |-> 0]
NoToken == 0
NoOp == [pc |-> "idle"]
Idle == [t \in Thread |-> NoOp]

(***************************************************************************)
(* stamped: tmux_target holds the triple that tmux reported, not the bare   *)
(* session name written at registration.                                   *)
(***************************************************************************)
Binding == [state : KnownStates, gen : Nat, epoch : Nat, stamped : BOOLEAN,
            paused : BOOLEAN]

PC == {"parent", "look", "reap", "seed", "write", "brief", "fresh", "pause",
       "claim", "gate", "kill", "sign", "open", "step4", "step5", "release",
       "rollback", "collapse", "consume", "refuse"}

\* The steps of an operation that holds a claim.
Claimant == {"gate", "kill", "sign", "open", "step4", "step5", "release",
             "rollback"}

(***************************************************************************)
(* An operation of a thread: st, gen and token are the arguments of its     *)
(* next compare-and-swap, aim the state it drives to, requested whether it  *)
(* services a request file, and ok its outcome.                             *)
(***************************************************************************)
Op == [pc : PC, node : Node, st : KnownStates, gen : Nat, token : Nat,
       aim : KnownStates, requested : BOOLEAN, ok : BOOLEAN]

(***************************************************************************)
(* The poll thread's tick: where it is, the sessions tmux listed, the       *)
(* bindings it works from, the nodes it has yet to visit, and whether it is *)
(* the sweep of a boot, before which the IPC socket is not served.  unseen, *)
(* which only a property reads, keeps the live sessions that a failed call  *)
(* of this sweep did not show.                                              *)
(***************************************************************************)
Tick == [leg : {"list", "map", "sweep", "watch", "outbox", "sessions",
                "redrive"},
         listed : SUBSET Node,
         unseen : SUBSET Node,
         snap : [Node -> Binding \cup {NoBinding}],
         todo : SUBSET Node,
         boot : BOOLEAN]

StartTick(boot) ==
    [leg |-> "list", listed |-> {}, unseen |-> {}, snap |-> [n \in Node |-> NoBinding],
     todo |-> {}, boot |-> boot]

VARIABLES
    bindings,    \* the binding ledger
    walEpoch,    \* per address, the highest epoch in the run-ledger
    pane,        \* the live tmux session and the token its opener held
    handshake,   \* .sign-off.<seat>.json: the token an actor may present
    signal,      \* .signal.<seat>.json: the sign-off and its token
    request,     \* the parent's outbox: "none", "pending", "done", "rejected"
    briefed,     \* whether brief.md is in the node's directory
    op,          \* per thread, the operation in progress
    service,     \* per thread, the requests of the outbox it is servicing
    tick,        \* the poll thread's tick
    crashes,     \* the daemon's deaths so far
    calls        \* the client verbs served so far

files == <<handshake, signal, request, briefed>>
spent == <<crashes, calls>>
vars == <<bindings, walEpoch, pane, files, op, service, tick, spent>>

-----------------------------------------------------------------------------
(* The calls of tmux.  An exit status is not looked at or its error is      *)
(* swallowed: a failed listing reads as no session at all, and a failed     *)
(* kill leaves the session where it is.                                     *)

Failing == IF TmuxFaults THEN BOOLEAN ELSE {FALSE}

Hidden(blind) == {n \in Node : blind /\ pane[n] # NoPane}

Listing(blind) == {n \in Node : pane[n] # NoPane} \ Hidden(blind)

TearDown(n) ==
    \E failed \in Failing :
        pane' = IF failed THEN pane ELSE [pane EXCEPT ![n] = NoPane]

-----------------------------------------------------------------------------
(* Reading the tree. *)

Live(map, n) == map[n] # NoBinding /\ ~IsTerminal(map[n].state)

\* The node or an ancestor is paused; a missing binding ends the walk.
SubtreePaused(n) ==
    LET up[m \in Node] ==
            /\ bindings[m] # NoBinding
            /\ \/ bindings[m].paused
               \/ Parent[m] # NoParent /\ up[Parent[m]]
    IN  up[n]

Descendants(map, n) ==
    LET under[m \in Node] ==
            Parent[m] # NoParent /\ (Parent[m] = n \/ under[Parent[m]])
    IN  {m \in Node \ {n} : under[m] /\ map[m] # NoBinding}

IsCoordinator(map, n) == Descendants(map, n) # {}

HasLiveDescendant(map, n) == \E m \in Descendants(map, n) : Live(map, m)

-----------------------------------------------------------------------------
(* The compare-and-swap and its commit. *)

Cas(n, st, gen, token) ==
    /\ bindings[n] # NoBinding
    /\ bindings[n].state = st
    /\ bindings[n].gen = gen
    /\ token # NoToken => bindings[n].epoch = token

CommitBinding(n, b) ==
    /\ bindings' = [bindings EXCEPT ![n] = b]
    /\ walEpoch' = [walEpoch EXCEPT ![n] = Max({@, b.epoch})]

\* The candidate of a transition; rotate bumps the epoch, and so the token.
Moved(b, to, rotate) ==
    [b EXCEPT !.state = to, !.gen = @ + 1,
              !.epoch = IF rotate THEN @ + 1 ELSE @]

Transition(n, to, rotate) == CommitBinding(n, Moved(bindings[n], to, rotate))

LedgerUnchanged == UNCHANGED <<bindings, walEpoch>>

-----------------------------------------------------------------------------
(* Operations of a thread. *)

At(t, pc) == op[t].pc = pc

Step(t, pc) == op' = [op EXCEPT ![t].pc = pc]

\* A spawn for a request ends by consuming the request file.
Finish(t, ok) ==
    op' = [op EXCEPT ![t] =
              IF @.requested THEN [@ EXCEPT !.pc = "consume", !.ok = ok]
              ELSE NoOp]

\* An exception ends it instead, and refuses the request it was for.
Raise(t) ==
    op' = [op EXCEPT ![t] =
              IF @.requested THEN [@ EXCEPT !.pc = "refuse"] ELSE NoOp]

NewOp(pc, n, st, gen, token, aim, requested) ==
    [pc |-> pc, node |-> n, st |-> st, gen |-> gen, token |-> token,
     aim |-> aim, requested |-> requested, ok |-> FALSE]

Start(t, o) == op[t] = NoOp /\ op' = [op EXCEPT ![t] = o]

ClaimOp(n, st, gen, token) ==
    NewOp("pause", n, st, gen, token, "claimed", FALSE)

ChildOp(c, parentToken, requested) ==
    NewOp("parent", c, "planned", 0, parentToken, "claimed", requested)

CollapseOp(n, token, aim) ==
    NewOp("collapse", n, bindings[n].state, bindings[n].gen, token, aim, FALSE)

-----------------------------------------------------------------------------
(* register_and_spawn_child, up to its claim. *)

\* Only a live parent spawns, and only under its own token when one is given.
CheckParent(t) ==
    /\ At(t, "parent")
    /\ LET p == Parent[op[t].node] IN
       IF /\ Live(bindings, p)
          /\ op[t].token # NoToken => bindings[p].epoch = op[t].token
       THEN Step(t, "look") ELSE Finish(t, FALSE)
    /\ LedgerUnchanged /\ UNCHANGED <<pane, files, service, tick, spent>>

\* A live child that is not planned is left alone, for the claim to lose to.
LookAtChild(t) ==
    /\ At(t, "look")
    /\ LET n == op[t].node
           b == bindings[n]
       IN  IF b.state \in {"none", "planned"} THEN Step(t, "seed")
           ELSE IF IsTerminal(b.state) THEN Step(t, "reap")
           ELSE op' = [op EXCEPT ![t].pc = "fresh", ![t].gen = b.gen]
    /\ LedgerUnchanged /\ UNCHANGED <<pane, files, service, tick, spent>>

\* The pane of a terminal incarnation is torn down before the slot reopens.
ReapPane(t) ==
    /\ At(t, "reap")
    /\ TearDown(op[t].node)
    /\ Step(t, "seed")
    /\ LedgerUnchanged /\ UNCHANGED <<files, service, tick, spent>>

\* A slip: a registration starts again at epoch 1.
SeedEpochReset(n) == 1

\* A slip: a registration counts down.
SeedEpochBehind(n) == walEpoch[n] - 1

SeedEpoch(n) ==
    LET known == {walEpoch[n]} \cup
                 (IF bindings[n] = NoBinding THEN {} ELSE {bindings[n].epoch})
    IN  Max(known) + 1

\* The seed is read, and the dead incarnation's seat files are purged.
SeedIdentity(t) ==
    /\ At(t, "seed")
    /\ LET n == op[t].node IN
       IF SeedEpoch(n) + 2 <= MaxEpoch
       THEN /\ op' = [op EXCEPT ![t].pc = "write", ![t].gen = 0,
                                ![t].token = SeedEpoch(n)]
            /\ handshake' = [handshake EXCEPT ![n] = NoToken]
            /\ signal' = [signal EXCEPT ![n] = NoSignal]
       ELSE Raise(t) /\ UNCHANGED <<handshake, signal>>
    /\ LedgerUnchanged
    /\ UNCHANGED <<pane, request, briefed, service, tick, spent>>

\* Under the lock, but without a second look at what is overwritten.
WriteRegistration(t) ==
    /\ At(t, "write")
    /\ bindings' = [bindings EXCEPT ![op[t].node] =
            [state |-> "planned", gen |-> 0, epoch |-> op[t].token,
             stamped |-> FALSE, paused |-> FALSE]]
    /\ Step(t, "brief")
    /\ UNCHANGED <<walEpoch, pane, files, service, tick, spent>>

\* brief.md is written or left intact, and deliver journals it.
WriteBrief(t) ==
    /\ At(t, "brief")
    /\ LET n == op[t].node IN
       /\ briefed' = [briefed EXCEPT ![n] = TRUE]
       /\ walEpoch' = [walEpoch EXCEPT ![n] = Max({@, bindings[n].epoch})]
    /\ Step(t, "fresh")
    /\ UNCHANGED <<bindings, pane, handshake, signal, request, service, tick,
                   spent>>

\* The token for the claim is read afresh, the generation is not.
ReadToken(t) ==
    /\ At(t, "fresh")
    /\ op' = [op EXCEPT ![t].pc = "pause",
                        ![t].token = bindings[op[t].node].epoch]
    /\ LedgerUnchanged /\ UNCHANGED <<pane, files, service, tick, spent>>

-----------------------------------------------------------------------------
(* claim_and_spawn. *)

\* STEP0: a paused subtree admits no child.
CheckPause(t) ==
    /\ At(t, "pause")
    /\ IF SubtreePaused(op[t].node) THEN Finish(t, FALSE) ELSE Step(t, "claim")
    /\ LedgerUnchanged /\ UNCHANGED <<pane, files, service, tick, spent>>

\* STEP1: from here on the thread holds the token minted by its claim.
Claim(t) ==
    /\ At(t, "claim")
    /\ LET n == op[t].node
           b == bindings[n]
       IN  IF /\ Cas(n, op[t].st, op[t].gen, op[t].token)
              /\ IsLegal(b.state, "claimed")
              /\ b.epoch + 2 <= MaxEpoch
           THEN /\ Transition(n, "claimed", TRUE)
                /\ op' = [op EXCEPT ![t].pc = "gate", ![t].gen = b.gen + 1,
                                    ![t].token = b.epoch + 1]
           ELSE Finish(t, FALSE) /\ LedgerUnchanged
    /\ UNCHANGED <<pane, files, service, tick, spent>>

\* STEP2: the pieces-present gate, which may refuse.
Gate(t) ==
    /\ At(t, "gate")
    /\ Step(t, "kill") \/ Step(t, "release")
    /\ LedgerUnchanged /\ UNCHANGED <<pane, files, service, tick, spent>>

\* The session that an earlier incarnation may have left is torn down.
KillStalePane(t) ==
    /\ At(t, "kill")
    /\ TearDown(op[t].node)
    /\ Step(t, "sign")
    /\ LedgerUnchanged /\ UNCHANGED <<files, service, tick, spent>>

\* A slip: a handshake that is there already is left in place.
WriteHandshakeOnce(t) ==
    /\ At(t, "sign")
    /\ handshake' = [handshake EXCEPT ![op[t].node] =
                        IF @ = NoToken THEN op[t].token ELSE @]
    /\ Step(t, "open")
    /\ LedgerUnchanged
    /\ UNCHANGED <<pane, signal, request, briefed, service, tick,
                   spent>>

\* An error here is not among those that release the claim.
WriteHandshake(t) ==
    /\ At(t, "sign")
    /\ \/ /\ handshake' = [handshake EXCEPT ![op[t].node] = op[t].token]
          /\ Step(t, "open")
       \/ DiskFaults /\ Raise(t) /\ UNCHANGED handshake
    /\ LedgerUnchanged
    /\ UNCHANGED <<pane, signal, request, briefed, service, tick, spent>>

\* STEP3: the open fails on a session of that name, or for its own reasons.
OpenActor(t) ==
    /\ At(t, "open")
    /\ \/ /\ pane[op[t].node] = NoPane
          /\ pane' = [pane EXCEPT ![op[t].node] = [owner |-> op[t].token]]
          /\ Step(t, "step4")
       \/ UNCHANGED pane /\ Step(t, "release")
    /\ LedgerUnchanged /\ UNCHANGED <<files, service, tick, spent>>

\* A slip: the registration's placeholder is kept as the target.
RecordActorUnstamped(t) ==
    /\ At(t, "step4")
    /\ LET n == op[t].node IN
       IF Cas(n, "claimed", op[t].gen, op[t].token)
       THEN /\ Transition(n, "spawning", FALSE)
            /\ op' = [op EXCEPT ![t].pc = "step5", ![t].gen = @ + 1]
       ELSE Step(t, "release") /\ LedgerUnchanged
    /\ UNCHANGED <<pane, files, service, tick, spent>>

\* STEP4: claimed -> spawning, with the triple tmux reported.
RecordActor(t) ==
    /\ At(t, "step4")
    /\ LET n == op[t].node IN
       IF Cas(n, "claimed", op[t].gen, op[t].token)
       THEN /\ CommitBinding(n, [Moved(bindings[n], "spawning", FALSE)
                                    EXCEPT !.stamped = TRUE])
            /\ op' = [op EXCEPT ![t].pc = "step5", ![t].gen = @ + 1]
       ELSE Step(t, "release") /\ LedgerUnchanged
    /\ UNCHANGED <<pane, files, service, tick, spent>>

\* STEP5: spawning -> running.
ConfirmRunning(t) ==
    /\ At(t, "step5")
    /\ LET n == op[t].node IN
       IF Cas(n, "spawning", op[t].gen, op[t].token)
       THEN Transition(n, "running", FALSE) /\ Finish(t, TRUE)
       ELSE Step(t, "rollback") /\ LedgerUnchanged
    /\ UNCHANGED <<pane, files, service, tick, spent>>

\* release_claim and _rollback_spawning: only for the token's holder.
BackToPlanned(t, from) ==
    /\ LET n == op[t].node IN
       IF bindings[n].state = from /\ bindings[n].epoch = op[t].token
       THEN Transition(n, "planned", TRUE)
       ELSE LedgerUnchanged
    /\ Finish(t, FALSE)
    /\ UNCHANGED <<pane, files, service, tick, spent>>

\* A slip: a refused spawn leaves its claim behind.
ReleaseNothing(t) ==
    /\ At(t, "release")
    /\ Finish(t, FALSE)
    /\ LedgerUnchanged /\ UNCHANGED <<pane, files, service, tick, spent>>

ReleaseClaim(t) == At(t, "release") /\ BackToPlanned(t, "claimed")

RollbackSpawning(t) == At(t, "rollback") /\ BackToPlanned(t, "spawning")

SpawnStep(t) ==
    \/ CheckParent(t) \/ LookAtChild(t) \/ ReapPane(t) \/ SeedIdentity(t)
    \/ WriteRegistration(t) \/ WriteBrief(t) \/ ReadToken(t) \/ CheckPause(t)
    \/ Claim(t) \/ Gate(t) \/ KillStalePane(t) \/ WriteHandshake(t) \/ OpenActor(t)
    \/ RecordActor(t) \/ ConfirmRunning(t) \/ ReleaseClaim(t)
    \/ RollbackSpawning(t)

-----------------------------------------------------------------------------
(* The ends of operations. *)

\* collapse: of the binding that was read when the operation began.
Collapse(t) ==
    /\ At(t, "collapse")
    /\ LET o == op[t] IN
       IF Cas(o.node, o.st, o.gen, o.token) /\ IsLegal(o.st, o.aim)
       THEN Transition(o.node, o.aim, FALSE) ELSE LedgerUnchanged
    /\ op' = [op EXCEPT ![t] = NoOp]
    /\ UNCHANGED <<pane, files, service, tick, spent>>

EndRequest(t, status) ==
    /\ request' = [request EXCEPT ![op[t].node] = status]
    /\ op' = [op EXCEPT ![t] = NoOp]
    /\ LedgerUnchanged
    /\ UNCHANGED <<pane, handshake, signal, briefed, service, tick, spent>>

\* A child that lives whoever spawned it makes the request a success.
Consume(t) ==
    /\ At(t, "consume")
    /\ EndRequest(t, IF op[t].ok \/ Live(bindings, op[t].node)
                     THEN "done" ELSE "rejected")

\* A slip: an exception strands its request.
RefuseNothing(t) == At(t, "refuse") /\ EndRequest(t, request[op[t].node])

Refuse(t) == At(t, "refuse") /\ EndRequest(t, "rejected")

-----------------------------------------------------------------------------
(* service_outbox: a parent's requests, all under the token read once. *)

Requests(p) ==
    IF Live(bindings, p)
    THEN {[node |-> c, token |-> bindings[p].epoch] :
              c \in {m \in Node : Parent[m] = p /\ request[m] = "pending"}}
    ELSE {}

\* A file that another thread has renamed away ends the servicing.
ServiceRequest(t) ==
    /\ op[t] = NoOp
    /\ \E r \in service[t] :
        LET c == r.node
            status == IF Live(bindings, c) THEN "done" ELSE "rejected"
        IN  \/ /\ request[c] # "pending"
               /\ service' = [service EXCEPT ![t] = {}]
               /\ UNCHANGED <<op, request>>
            \/ /\ request[c] = "pending"
               /\ service' = [service EXCEPT ![t] = @ \ {r}]
               /\ request' = [request EXCEPT ![c] = status]
               /\ UNCHANGED op
            \/ /\ request[c] = "pending" /\ ~Live(bindings, c)
               /\ service' = [service EXCEPT ![t] = @ \ {r}]
               /\ Start(t, ChildOp(c, r.token, TRUE))
               /\ UNCHANGED request
    /\ LedgerUnchanged
    /\ UNCHANGED <<pane, handshake, signal, briefed, tick, spent>>

OperationStep(t) ==
    SpawnStep(t) \/ Collapse(t) \/ Consume(t) \/ Refuse(t) \/ ServiceRequest(t)

-----------------------------------------------------------------------------
(* The poll thread's tick (poll_once), and the sweep of a boot. *)

Leg(l) == tick.leg = l /\ op["poll"] = NoOp /\ service["poll"] = {}

TickOnly == LedgerUnchanged /\ UNCHANGED <<pane, files, op, service, spent>>

Bound == {n \in Node : bindings[n] # NoBinding}

\* The sweep lists the tmux sessions first and reads the bindings second.
ListTargets ==
    /\ Leg("list")
    /\ \E blind \in Failing :
            tick' = [tick EXCEPT !.leg = "map", !.listed = Listing(blind),
                                 !.unseen = Hidden(blind)]
    /\ TickOnly

ReadBindings ==
    /\ Leg("map")
    /\ tick' = [tick EXCEPT !.leg = "sweep", !.snap = bindings, !.todo = Bound]
    /\ TickOnly

Leave(l, n) == Leg(l) /\ n \in tick.todo

Visit(l, n) == Leave(l, n) /\ tick' = [tick EXCEPT !.todo = @ \ {n}]

\* Listed under its recorded target, and alive when the detector lists the
\* sessions once more, which it does not do for the sweep of a boot.
Present(n, blind) ==
    /\ tick.snap[n].stamped
    /\ n \in tick.listed
    /\ tick.boot \/ n \in Listing(blind)

\* _terminal_necro: no token, the epoch counted from the binding as read.
Necro(n) ==
    LET b == tick.snap[n] IN
    IF Cas(n, b.state, b.gen, NoToken)
    THEN CommitBinding(n, [Moved(bindings[n],
                                 IF IsCoordinator(tick.snap, n)
                                 THEN "dead" ELSE "failed", FALSE)
                              EXCEPT !.epoch = b.epoch + 1])
    ELSE LedgerUnchanged

Sweep(n) ==
    /\ Leave("sweep", n)
    /\ \E blind \in Failing :
        /\ tick' = [tick EXCEPT !.todo = @ \ {n},
                                !.unseen = @ \cup (Hidden(blind) \cap {n})]
        /\ LET b == tick.snap[n] IN
           IF /\ ~IsTerminal(b.state) /\ b.state # "planned"
              /\ ~Present(n, blind)
           THEN Necro(n) ELSE LedgerUnchanged
    /\ UNCHANGED <<pane, files, op, service, spent>>

EndSweep ==
    /\ Leg("sweep") /\ tick.todo = {}
    /\ tick' = IF tick.boot THEN StartTick(FALSE)
               ELSE [tick EXCEPT !.leg = "watch", !.snap = bindings,
                                 !.listed = {}, !.unseen = {},
                                 !.todo = Bound]
    /\ TickOnly

\* A sign-off counts under the token the binding had when it was read.
SignedOff(n) ==
    signal[n].kind # "none" /\ signal[n].token = tick.snap[n].epoch

\* A slip: a sign-off ends a coordinator over its live descendants.
MayEndAtAnyTime(n) == ~IsTerminal(tick.snap[n].state)

\* A coordinator ends only when no descendant of it lives.
MayEnd(n) ==
    /\ ~IsTerminal(tick.snap[n].state)
    /\ ~HasLiveDescendant(tick.snap, n)

ReadSignOff(n) ==
    /\ Visit("watch", n)
    /\ MayEnd(n) /\ SignedOff(n)
    /\ Start("poll", CollapseOp(n, tick.snap[n].epoch, signal[n].kind))
    /\ LedgerUnchanged /\ UNCHANGED <<pane, files, service, spent>>

\* The last rung of the idle ladder; a paused subtree is left in peace.
FailIdleLeaf(n) ==
    LET b == tick.snap[n] IN
    /\ Visit("watch", n)
    /\ ~IsTerminal(b.state) /\ ~IsCoordinator(tick.snap, n) /\ ~SignedOff(n)
    /\ b.stamped /\ pane[n] # NoPane
    /\ ~SubtreePaused(n)
    /\ Start("poll", NewOp("collapse", n, b.state, b.gen, b.epoch, "failed",
                           FALSE))
    /\ LedgerUnchanged /\ UNCHANGED <<pane, files, service, spent>>

\* Nothing to act on, or a "done" that the return contract refuses.
LeaveNode(n) ==
    /\ Visit("watch", n)
    /\ MayEnd(n) /\ SignedOff(n) => signal[n].kind = "done"
    /\ LedgerUnchanged /\ UNCHANGED <<pane, files, op, service, spent>>

EndWatch ==
    /\ Leg("watch") /\ tick.todo = {}
    /\ tick' = [StartTick(FALSE) EXCEPT !.leg = "outbox",
                    !.todo = {n \in Node : Live(bindings, n)}]
    /\ TickOnly

OpenOutbox(n) ==
    /\ Visit("outbox", n)
    /\ service' = [service EXCEPT !["poll"] = Requests(n)]
    /\ LedgerUnchanged /\ UNCHANGED <<pane, files, op, spent>>

EndOutbox ==
    /\ Leg("outbox") /\ tick.todo = {}
    /\ tick' = [tick EXCEPT !.leg = "sessions", !.snap = bindings]
    /\ TickOnly

\* The re-drive reads the bindings first and lists the sessions second.
ListSessions ==
    /\ Leg("sessions")
    /\ \E blind \in Failing :
            tick' = [tick EXCEPT !.leg = "redrive", !.listed = Listing(blind),
                        !.todo = {n \in Node : tick.snap[n].state = "planned"}]
    /\ TickOnly

Redrive(n) ==
    /\ Visit("redrive", n)
    /\ n \notin tick.listed /\ briefed[n]
    /\ Start("poll", ClaimOp(n, "planned", tick.snap[n].gen,
                             tick.snap[n].epoch))
    /\ LedgerUnchanged /\ UNCHANGED <<pane, files, service, spent>>

\* Not a candidate, or within its cooldown.
LeaveSlot(n) ==
    /\ Visit("redrive", n)
    /\ LedgerUnchanged /\ UNCHANGED <<pane, files, op, service, spent>>

EndTick ==
    /\ Leg("redrive") /\ tick.todo = {}
    /\ tick' = StartTick(FALSE)
    /\ TickOnly

TickStep ==
    \/ ListTargets \/ ReadBindings \/ EndSweep \/ EndWatch \/ EndOutbox
    \/ ListSessions \/ EndTick
    \/ \E n \in Node : \/ Sweep(n) \/ ReadSignOff(n) \/ FailIdleLeaf(n)
                       \/ LeaveNode(n) \/ OpenOutbox(n)
                       \/ Redrive(n) \/ LeaveSlot(n)

-----------------------------------------------------------------------------
(* The IPC thread takes one verb at a time. *)

Serving(verb) ==
    /\ verb \in Verb
    /\ ~tick.boot /\ op["ipc"] = NoOp /\ service["ipc"] = {}
    /\ calls < MaxCalls /\ calls' = calls + 1

ClientSpawn(n) ==
    /\ Serving("spawn") /\ n \in Bound
    /\ Start("ipc", ClaimOp(n, bindings[n].state, bindings[n].gen, NoToken))
    /\ LedgerUnchanged /\ UNCHANGED <<pane, files, service, tick, crashes>>

\* The client may present the parent's token.
ClientSpawnChild(c) ==
    /\ Serving("spawn_child") /\ Parent[c] \in Bound
    /\ \E token \in {NoToken, bindings[Parent[c]].epoch} :
            Start("ipc", ChildOp(c, token, FALSE))
    /\ LedgerUnchanged /\ UNCHANGED <<pane, files, service, tick, crashes>>

ClientServiceOutbox(p) ==
    /\ Serving("service_outbox")
    /\ service' = [service EXCEPT !["ipc"] = Requests(p)]
    /\ LedgerUnchanged /\ UNCHANGED <<pane, files, op, tick, crashes>>

ClientKill(n) ==
    /\ Serving("kill") /\ n \in Bound
    /\ \E aim \in TerminalStates : Start("ipc", CollapseOp(n, NoToken, aim))
    /\ LedgerUnchanged /\ UNCHANGED <<pane, files, service, tick, crashes>>

\* pause and resume: one own-slice write, the generation stays.
ClientPause(n, flag) ==
    /\ Serving(IF flag THEN "pause" ELSE "resume") /\ n \in Bound
    /\ bindings[n].paused # flag
    /\ CommitBinding(n, [bindings[n] EXCEPT !.paused = flag])
    /\ UNCHANGED <<pane, files, op, service, tick, crashes>>

ClientStep ==
    \E n \in Node :
        \/ ClientSpawn(n) \/ ClientSpawnChild(n) \/ ClientServiceOutbox(n)
        \/ ClientKill(n) \/ \E flag \in BOOLEAN : ClientPause(n, flag)

-----------------------------------------------------------------------------
(* Actors, tmux and the daemon's death. *)

\* The parent's actor asks for a child, whose brief it may have written.
ParentRequests(c) ==
    /\ Parent[c] \in Node /\ pane[Parent[c]] # NoPane
    /\ request[c] # "pending"
    /\ request' = [request EXCEPT ![c] = "pending"]
    /\ \E authored \in BOOLEAN :
            briefed' = [briefed EXCEPT ![c] = @ \/ authored]
    /\ LedgerUnchanged
    /\ UNCHANGED <<pane, handshake, signal, op, service, tick, spent>>

\* An actor signs off under a token it found in its handshake file.
SignOff(n) ==
    /\ n \in Signer /\ pane[n] # NoPane
    /\ \E kind \in {"done", "failed"},
          token \in {pane[n].owner, handshake[n]} \ {NoToken} :
            signal' = [signal EXCEPT ![n] = [kind |-> kind, token |-> token]]
    /\ LedgerUnchanged
    /\ UNCHANGED <<pane, handshake, request, briefed, op, service, tick,
                   spent>>

PaneDies(n) ==
    /\ n \in Mortal /\ pane[n] # NoPane
    /\ pane' = [pane EXCEPT ![n] = NoPane]
    /\ LedgerUnchanged /\ UNCHANGED <<files, op, service, tick, spent>>

\* The daemon dies and is relaunched; panes and files outlive it.
Crash ==
    /\ crashes < MaxCrashes
    /\ crashes' = crashes + 1
    /\ op' = Idle
    /\ service' = [t \in Thread |-> {}]
    /\ tick' = StartTick(TRUE)
    /\ LedgerUnchanged /\ UNCHANGED <<pane, files, calls>>

ActorStep ==
    \E n \in Node : ParentRequests(n) \/ SignOff(n) \/ PaneDies(n)

-----------------------------------------------------------------------------
\* The root was spawned by genesis and runs; nothing else is there yet.
Init ==
    /\ bindings = [n \in Node |->
            IF Parent[n] # NoParent THEN NoBinding
            ELSE [state |-> "running", gen |-> 3, epoch |-> 2,
                  stamped |-> TRUE, paused |-> FALSE]]
    /\ walEpoch = [n \in Node |-> IF Parent[n] = NoParent THEN 2 ELSE 0]
    /\ pane = [n \in Node |->
            IF Parent[n] = NoParent THEN [owner |-> 2] ELSE NoPane]
    /\ handshake = [n \in Node |-> IF Parent[n] = NoParent THEN 2 ELSE NoToken]
    /\ signal = [n \in Node |-> NoSignal]
    /\ request = [n \in Node |-> "none"]
    /\ briefed = [n \in Node |-> Parent[n] = NoParent]
    /\ op = Idle
    /\ service = [t \in Thread |-> {}]
    /\ tick = StartTick(FALSE)
    /\ crashes = 0 /\ calls = 0

PollStep == OperationStep("poll") \/ TickStep
IpcStep == OperationStep("ipc")

Next == PollStep \/ IpcStep \/ ClientStep \/ ActorStep \/ Crash

Spec == Init /\ [][Next]_vars

\* The tick is on a timer and the IPC thread finishes what it has begun; no
\* actor, client or crash has to happen.
FairSpec == Spec /\ WF_vars(PollStep) /\ WF_vars(IpcStep)
-----------------------------------------------------------------------------
(* Properties. *)

(***************************************************************************)
(* Every variable keeps its type; a request, a brief and a seat file always *)
(* belong to a known address, and an operation never outgrows its program.  *)
(***************************************************************************)
TypeOK ==
    /\ bindings \in [Node -> Binding \cup {NoBinding}]
    /\ walEpoch \in [Node -> Nat]
    /\ pane \in [Node -> [owner : Nat]]
    /\ handshake \in [Node -> Nat]
    /\ signal \in [Node -> [kind : {"none", "done", "failed"}, token : Nat]]
    /\ request \in [Node -> {"none", "pending", "done", "rejected"}]
    /\ briefed \in [Node -> BOOLEAN]
    /\ op \in [Thread -> Op \cup {NoOp}]
    /\ service \in [Thread -> SUBSET [node : Node, token : Nat]]
    /\ tick \in Tick
    /\ crashes \in Nat /\ calls \in Nat

(***************************************************************************)
(* The actor in the session of a node that is spawning or running was       *)
(* opened under the binding's own token, and the handshake file it reads    *)
(* names that token: it can sign off (_write_signoff_handshake).            *)
(***************************************************************************)
ActorCanSignOff ==
    \A n \in Node :
        bindings[n].state \in {"spawning", "running"} /\ pane[n] # NoPane =>
            /\ pane[n].owner = bindings[n].epoch
            /\ handshake[n] = bindings[n].epoch

(***************************************************************************)
(* A slot that is claimed or being spawned has a thread that holds its      *)
(* token and will see it through or give it back: as long as the daemon     *)
(* does not die, no claim leaks (claim_and_spawn's rollback contract).      *)
(***************************************************************************)
ClaimHasHolder ==
    \A n \in Node :
        bindings[n].state \in {"claimed", "spawning"} =>
            \E t \in Thread : /\ op[t].pc \in Claimant
                             /\ op[t].node = n
                             /\ op[t].token = bindings[n].epoch

\* The sweep stamps a node dead or failed.
Necroed(n) ==
    tick.leg = "sweep" /\ tick' # tick /\ bindings'[n] # bindings[n]

(***************************************************************************)
(* Of the nodes whose actor is on record (STEP4 and later) the sweep stamps *)
(* only those that have no session, also in the sweep of a boot, when the   *)
(* spawn was cut by the daemon's death; a session that is there is missed   *)
(* only where a listing of this very sweep failed (_reconcile).             *)
(***************************************************************************)
SweepReapsTheUnseen ==
    [][\A n \in Node :
            Necroed(n) /\ bindings[n].state \in {"spawning", "running"}
            => pane[n] = NoPane \/ n \in tick'.unseen]_vars

(***************************************************************************)
(* What DAEMON.md says of the sweep, whatever tmux answers: it stamps an    *)
(* owned node only on evidence that its session is gone.  One listing that  *)
(* fails refutes it; where none does it holds (_reconcile).                 *)
(***************************************************************************)
NecroSparesTheRecorded ==
    [][\A n \in Node :
            Necroed(n) /\ bindings[n].state \in {"spawning", "running"}
            => pane[n] = NoPane]_vars

(***************************************************************************)
(* A node becomes done only when nothing below it lives any more            *)
(* (the gate of _watchdog_tick).                                            *)
(***************************************************************************)
DoneIsBottomUp ==
    [][\A n \in Node :
            bindings[n].state # "done" /\ bindings'[n].state = "done"
            => ~HasLiveDescendant(bindings, n)]_vars

(***************************************************************************)
(* Every step of a spawn, a sweep or a collapse is a step of the ledger     *)
(* that RunLedger implements: nothing is re-registered over a live claim,   *)
(* no epoch falls, no edge of the lifecycle is skipped.                     *)
(***************************************************************************)
Registers ==
    [n \in Node |->
        IF bindings[n] = NoBinding THEN NoBinding
        ELSE [state |-> bindings[n].state, gen |-> bindings[n].gen,
              epoch |-> bindings[n].epoch,
              slice |-> IF bindings[n].paused THEN "paused" ELSE "plain"]]

Ledger == INSTANCE AtomicLedger
            WITH Slice <- {"paused", "plain"}, InitSlice <- "plain",
                 Escalated <- "escalated", NoReg <- NoBinding, reg <- Registers

StepsAreLedgerSteps == [][Ledger!Next]_Registers

(***************************************************************************)
(* A registration never replaces a node that is claimed, spawning or        *)
(* running, for the generation of such a node only grows                    *)
(* (_register_child: "this does NOT clobber it").                           *)
(***************************************************************************)
RegistrationSparesLive ==
    [][\A n \in Node :
            bindings[n].state \notin {"none", "planned"} \cup TerminalStates
            => bindings'[n].gen >= bindings[n].gen]_vars

(***************************************************************************)
(* A request does not stay unanswered while its parent lives                *)
(* (_service_one: every exit consumes the request).                         *)
(***************************************************************************)
RequestAnswered ==
    \A n \in Node :
        request[n] = "pending" ~>
            request[n] # "pending" \/ ~Live(bindings, Parent[n])
=============================================================================
