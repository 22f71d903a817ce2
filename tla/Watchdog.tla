------------------------------- MODULE Watchdog -------------------------------
(***************************************************************************)
(* The watchdog leg of the daemon's tick (watchdog.py, daemon.py), the      *)
(* liveness verdict it rests on (detector.py, detector_signals.py), the     *)
(* kickoff that ends a spawn (spawn/chokepoint.py), and the client verbs    *)
(* that meet them (ipc.py: answer, pause, resume).                          *)
(*                                                                         *)
(* The actors are agents in tmux panes, of whom the daemon sees only a pane *)
(* capture, the size of a transcript and a sign-off file, and to whom it    *)
(* can only type.  The addresses are registered and running, one            *)
(* incarnation each (SpawnChokepoint has the re-claims), so a fence on      *)
(* token, epoch and session uuid comes down to one on the lifecycle state.  *)
(*                                                                         *)
(* A transcript is abstracted to which of its readers it has grown past,    *)
(* an inbox to the number of its lines, and an offset into it to the number *)
(* of the line it ends.  A binding changes in one step (RunLedger).         *)
(***************************************************************************)
EXTENDS Integers, FiniteSets, Lifecycle

CONSTANTS
    Node,         \* addresses
    Parent,       \* the supervision tree: a node's parent, or NoParent
    Grace,        \* stale_grace_checks
    Signer,       \* the nodes whose agents may sign off,
    Operated,     \* to whose panes an operator may attach,
    Mortal,       \* and whose panes may die
    Verb,         \* the client verbs that are used
    MaxSignals,   \* sign-offs written
    MaxAttaches,  \* times an operator's copy-mode swallows what is typed
    MaxCalls,     \* client verbs served
    MaxCrashes    \* deaths of the daemon

NoParent == "none"

\* The binding ledger is a file: there are finitely many addresses.
ASSUME NodeAssumption == IsFiniteSet(Node)

ASSUME TreeAssumption ==
    Parent \in [Node -> Node \cup {NoParent}] /\ NoParent \notin Node

ASSUME BoundAssumption ==
    /\ Verb \subseteq {"answer", "pause"}
    /\ Signer \cup Operated \cup Mortal \subseteq Node
    /\ {Grace, MaxSignals, MaxAttaches, MaxCalls, MaxCrashes} \subseteq Nat

NoNode == "none"
NoSignal == [kind |-> "none", ts |-> 0]
NoPending == 0

(***************************************************************************)
(* The fields of a binding that the watchdog uses: the ladder's counter,    *)
(* the wake watermark and the nudge awaiting verification, and the instants *)
(* of the ESCALATED stamp and of its answer (0 where there is none).        *)
(* last_progress_at is not among them: watchdog_checkpoint alone writes it, *)
(* and writes back the value it was given from the binding, so it stays     *)
(* null, nothing is ever within the suspicion window W, and a flat          *)
(* transcript is at once beyond it.                                         *)
(***************************************************************************)
Binding == [state : KnownStates, paused : BOOLEAN, stale : 0 .. Grace,
            acked : Nat, pending : Nat, stampedAt : Nat, answeredAt : Nat]

NewBinding == [state |-> "running", paused |-> FALSE, stale |-> 0,
               acked |-> 0, pending |-> NoPending, stampedAt |-> 0,
               answeredAt |-> 0]

(***************************************************************************)
(* A pane is starting up, at its prompt, at its prompt under an operator's  *)
(* copy-mode, given a prompt, at work, or gone.                             *)
(***************************************************************************)
PaneMode == {"boot", "idle", "copy", "called", "busy", "gone"}

\* Who compares the transcript with a size remembered from before: the
\* detector, the verification of a nudge, and, for the sake of a property
\* only, the ladder since its first rung.
Reader == {"detector", "wake", "ladder"}

Signal == [kind : {"none", "DONE", "FAILED", "ESCALATED"}, ts : Nat]

(***************************************************************************)
(* The poll thread: the leg of its tick, the nodes left to visit and the    *)
(* bindings it works from; the node it is at, what it does next there, the  *)
(* sign-off it read and the inbox size it captured.                         *)
(***************************************************************************)
Tick == [leg : {"kickoff", "sweep", "watch"},
         todo : SUBSET Node,
         snap : [Node -> Binding],
         at : Node \cup {NoNode},
         pc : {"next", "escalate", "refuse", "collapse", "notify", "ladder",
               "fail", "bump", "prod", "wake", "gate", "nudge", "record"},
         sig : Signal,
         size : Nat]

VARIABLES
    bindings,     \* the binding ledger
    inbox,        \* per node, the lines of .inbox.<seat>.jsonl
    told,         \* per node, the sign-offs whose refusal the log records
    cached,       \* the nodes with an entry in the detector's _size_cache
    tick,         \* the poll thread
    answering,    \* the node whose parent the IPC thread is about to wake
    pane,         \* per node, what its pane shows
    written,      \* the nodes whose transcript exists
    grown,        \* per node, the readers its transcript has grown past
    signal,       \* per node, .signal.<seat>.json
    sound,        \* the nodes whose artifacts meet the return contract
    read,         \* per node, the inbox lines its agent has read
    now,          \* the clock, which moves when a time is written down
    signs, attaches, calls, crashes   \* counted for their bounds

ledger == <<bindings, inbox, told>>
agent == <<pane, written, grown, signal, sound, read>>
spent == <<signs, attaches, calls, crashes>>
vars == <<ledger, cached, tick, answering, agent, now, spent>>

-----------------------------------------------------------------------------
(* Reading the tree. *)

Live(n) == ~IsTerminal(bindings[n].state)

SubtreePaused(n) ==
    LET up[m \in Node] ==
            bindings[m].paused \/ (Parent[m] # NoParent /\ up[Parent[m]])
    IN  up[n]

Descendants(n) ==
    LET under[m \in Node] ==
            Parent[m] # NoParent /\ (Parent[m] = n \/ under[Parent[m]])
    IN  {m \in Node : under[m]}

IsCoordinator(n) == Descendants(n) # {}

HasLiveDescendant(map, n) ==
    \E m \in Descendants(n) : ~IsTerminal(map[m].state)

-----------------------------------------------------------------------------
(* The verdict on a node. *)

\* The mid-turn marker is on the pane.
PaneActivity(n) == pane[n] \in {"called", "busy"}

\* The prompt is on the pane, no turn and no dialog: copy-mode looks the same.
ProdPrecondition(n) == pane[n] \in {"idle", "copy"}

\* The answer is no older than the stamp and than the artifact.
EscalationAnswered(b, ts) ==
    /\ b.answeredAt # 0
    /\ b.stampedAt <= b.answeredAt
    /\ ts <= b.answeredAt

\* The agent waits for an answer: it holds its slot.
HasLegitWaitingReason(n) ==
    /\ signal[n].kind = "ESCALATED" \/ bindings[n].stampedAt # 0
    /\ ~EscalationAnswered(bindings[n], signal[n].ts)

\* jsonl_progress: the size seen replaces the size remembered.
Grew(n) == n \in cached /\ "detector" \in grown[n]

ReadTranscript(n) ==
    IF n \in written
    THEN /\ cached' = cached \cup {n}
         /\ grown' = [grown EXCEPT ![n] = @ \ {"detector"}]
    ELSE UNCHANGED <<cached, grown>>

\* A slip: the pane's own mid-turn marker is not consulted.
LivenessByTranscript(n) ==
    IF pane[n] = "gone" THEN "dead"
    ELSE IF Grew(n) THEN "working"
    ELSE IF HasLegitWaitingReason(n) THEN "waiting"
    ELSE "idle"

Liveness(n) ==
    IF pane[n] = "gone" THEN "dead"
    ELSE IF Grew(n) \/ PaneActivity(n) THEN "working"
    ELSE IF HasLegitWaitingReason(n) THEN "waiting"
    ELSE "idle"

-----------------------------------------------------------------------------
(* Steps of the poll thread at the node it visits. *)

At(n, pc) == tick.at = n /\ tick.pc = pc

Goto(pc) == tick' = [tick EXCEPT !.pc = pc]

Leave(n) == tick' = [tick EXCEPT !.at = NoNode, !.pc = "next",
                                 !.todo = @ \ {n}, !.sig = NoSignal,
                                 !.size = 0]

Arrive(n, pc, sig) ==
    tick' = [tick EXCEPT !.at = n, !.pc = pc, !.sig = sig]

\* A leaf without an actionable sign-off goes to the ladder, a coordinator,
\* whose death probe only reports, straight to the wake.
Policy(n) == IF IsCoordinator(n) THEN "wake" ELSE "ladder"

AppendLine(n) == inbox' = [inbox EXCEPT ![n] = @ + 1]

\* tmux send-keys exits 0 whether or not the keystrokes reach the agent.
TypeInto(n) == pane' = [pane EXCEPT ![n] = IF @ = "idle" THEN "called" ELSE @]

-----------------------------------------------------------------------------
(* The kickoff of a spawned actor (STEP6). *)

\* The durable line comes first.
AppendKickoff(n) ==
    /\ tick.leg = "kickoff" /\ tick.at = NoNode /\ n \in tick.todo
    /\ AppendLine(n)
    /\ tick' = [tick EXCEPT !.at = n, !.pc = "gate", !.size = inbox[n] + 1]
    /\ UNCHANGED <<bindings, told, cached, answering, agent, now, spent>>

\* The bounded wait for a prompt, or its end without one.
AwaitKickoffGate(n) ==
    /\ tick.leg = "kickoff" /\ At(n, "gate")
    /\ IF ProdPrecondition(n) THEN Goto("nudge") ELSE Leave(n)
    /\ UNCHANGED <<ledger, cached, answering, agent, now, spent>>

EndKickoffs ==
    /\ tick.leg = "kickoff" /\ tick.at = NoNode /\ tick.todo = {}
    /\ tick' = [tick EXCEPT !.leg = "sweep"]
    /\ UNCHANGED <<ledger, cached, answering, agent, now, spent>>

-----------------------------------------------------------------------------
(* The sweep of a tick. *)

\* A node without a pane is stamped; for any other the detector is asked,
\* and of its verdict only "dead" is used.  What it does to one node does not
\* depend on another, so the sweep is one step, with the snapshot that the
\* watchdog takes after it.  A coordinator's verdict decides nothing more, and
\* what is remembered of its transcript is left out.
Sweep ==
    /\ tick.leg = "sweep"
    /\ LET due == {n \in Node : Live(n)}
           dead == {n \in due : pane[n] = "gone"}
           seen == {n \in (due \ dead) \cap written : ~IsCoordinator(n)}
           swept == [n \in Node |->
                       IF n \notin dead THEN bindings[n]
                       ELSE [bindings[n] EXCEPT !.state =
                               IF IsCoordinator(n) THEN "dead" ELSE "failed"]]
       IN  /\ bindings' = swept
           /\ cached' = cached \cup seen
           /\ grown' = [n \in Node |-> IF n \in seen
                                       THEN grown[n] \ {"detector"} ELSE grown[n]]
           /\ tick' = [tick EXCEPT !.leg = "watch", !.snap = swept,
                                   !.todo = due \ dead]
    /\ UNCHANGED <<inbox, told, answering, pane, written, signal, sound, read,
                   now, spent>>

\* The outboxes and the re-drive of this tick, and the pause up to the next,
\* are elsewhere.
EndTick ==
    /\ tick.leg = "watch" /\ tick.at = NoNode /\ tick.todo = {}
    /\ tick' = [tick EXCEPT !.leg = "sweep", !.snap = [n \in Node |-> NewBinding],
                            !.todo = {}]
    /\ UNCHANGED <<ledger, cached, answering, agent, now, spent>>

-----------------------------------------------------------------------------
(* STEP A: the sign-off first, for leaves and coordinators alike. *)

\* A coordinator's is read only once nothing below it lives.  A DONE is
\* held against the return contract.
ReadSignal(n) ==
    /\ tick.leg = "watch" /\ tick.at = NoNode /\ n \in tick.todo
    /\ IF HasLiveDescendant(tick.snap, n) THEN Arrive(n, "wake", NoSignal)
       ELSE CASE signal[n].kind = "none" -> Arrive(n, Policy(n), NoSignal)
              [] signal[n].kind = "ESCALATED" -> Arrive(n, "escalate", signal[n])
              [] signal[n].kind = "DONE" /\ n \notin sound ->
                    Arrive(n, "refuse", signal[n])
              [] OTHER -> Arrive(n, "collapse", signal[n])
    /\ UNCHANGED <<ledger, cached, answering, agent, now, spent>>

\* The question is stamped once, a newer one again; unless it was stamped
\* before and is answered, it holds the slot.
Escalate(n) ==
    /\ At(n, "escalate")
    /\ IF bindings[n].stampedAt = 0 \/ tick.sig.ts > bindings[n].stampedAt
       THEN /\ bindings' = [bindings EXCEPT ![n].stampedAt = now + 1]
            /\ now' = now + 1
            /\ Goto("wake")
       ELSE /\ IF EscalationAnswered(tick.snap[n], tick.sig.ts)
               THEN Goto(Policy(n)) ELSE Goto("wake")
            /\ UNCHANGED <<bindings, now>>
    /\ UNCHANGED <<inbox, told, cached, answering, agent, spent>>

\* The defects are journaled, and put into the inbox, once per sign-off.
RefuseDone(n) ==
    /\ At(n, "refuse")
    /\ IF tick.sig.ts \in told[n] THEN UNCHANGED <<told, inbox>>
       ELSE /\ told' = [told EXCEPT ![n] = @ \cup {tick.sig.ts}]
            /\ AppendLine(n)
    /\ Goto("wake")
    /\ UNCHANGED <<bindings, cached, answering, agent, now, spent>>

Collapse(n) ==
    /\ At(n, "collapse")
    /\ bindings' = [bindings EXCEPT ![n].state =
                       IF tick.sig.kind = "DONE" THEN "done" ELSE "failed"]
    /\ Goto("notify")
    /\ UNCHANGED <<inbox, told, cached, answering, agent, now, spent>>

\* A slip: the collapse is not told.
NotifyNobody(n) ==
    /\ At(n, "notify")
    /\ Goto("wake")
    /\ UNCHANGED <<ledger, cached, answering, agent, now, spent>>

\* A live parent finds a line in its inbox.
NotifyParent(n) ==
    /\ At(n, "notify")
    /\ LET p == Parent[n] IN
       IF p # NoParent /\ Live(p) THEN AppendLine(p) ELSE UNCHANGED inbox
    /\ Goto("wake")
    /\ UNCHANGED <<bindings, told, cached, answering, agent, now, spent>>

-----------------------------------------------------------------------------
(* STEP B: the ladder of a leaf. *)

\* A slip: one rung too many.
ExhaustedLate(stale) == stale > Grace

Exhausted(stale) == stale >= Grace

Judge(n) ==
    /\ At(n, "ladder")
    /\ LET verdict == Liveness(n)
           stale == tick.snap[n].stale
       IN  IF SubtreePaused(n) THEN Goto("wake") /\ UNCHANGED <<cached, grown, bindings>>
           ELSE /\ ReadTranscript(n)
                /\ IF verdict \in {"working", "waiting"} /\ stale # 0
                   THEN bindings' = [bindings EXCEPT ![n].stale = 0]
                   ELSE UNCHANGED bindings
                /\ CASE verdict # "idle" -> Goto("wake")
                     [] verdict = "idle" /\ Exhausted(stale) -> Goto("fail")
                     [] verdict = "idle" /\ ~Exhausted(stale) ->
                            Goto(IF ProdPrecondition(n) THEN "bump" ELSE "wake")
    /\ UNCHANGED <<inbox, told, answering, pane, written, signal, sound, read,
                   now, spent>>

\* A slip: the last rung is not taken.
FailNever(n) ==
    /\ At(n, "fail")
    /\ Goto("wake")
    /\ UNCHANGED <<ledger, cached, answering, agent, now, spent>>

\* The ladder is exhausted: watchdog_nonresponse.
FailNonresponsive(n) ==
    /\ At(n, "fail")
    /\ bindings' = [bindings EXCEPT ![n].state = "failed"]
    /\ Goto("wake")
    /\ UNCHANGED <<inbox, told, cached, answering, agent, now, spent>>

\* The rung is persisted before the prod is typed.
Bump(n) ==
    /\ At(n, "bump")
    /\ bindings' = [bindings EXCEPT ![n].stale = @ + 1]
    /\ grown' = [grown EXCEPT ![n] =
                    IF bindings[n].stale = 0 THEN @ \ {"ladder"} ELSE @]
    /\ Goto("prod")
    /\ UNCHANGED <<inbox, told, cached, answering, pane, written, signal,
                   sound, read, now, spent>>

Prod(n) ==
    /\ At(n, "prod")
    /\ TypeInto(n)
    /\ Goto("wake")
    /\ UNCHANGED <<ledger, cached, answering, written, grown, signal, sound,
                   read, now, spent>>

-----------------------------------------------------------------------------
(* The wake: nudge, verify that a turn followed, and only then acknowledge. *)

\* confirm_prod_worked.
ConfirmProdWorked(n) == n \in written /\ "wake" \in grown[n]

\* A slip: the nudge stays pending when it is acknowledged.
AckKeepingPending(n, offset) ==
    bindings' = [bindings EXCEPT ![n].acked = offset]

\* The watermark moves and the nudge is no longer pending, in one write.
AckInbox(n, offset) ==
    bindings' = [bindings EXCEPT ![n].acked = offset, ![n].pending = NoPending]

\* A nudge sent in an earlier tick is resolved before another is considered.
ResolveWake(n) ==
    /\ At(n, "wake")
    /\ LET seen == tick.snap[n] IN
       IF inbox[n] <= seen.acked \/ SubtreePaused(n)
       THEN Leave(n) /\ UNCHANGED bindings
       ELSE IF seen.pending = NoPending \/ ~ConfirmProdWorked(n)
       THEN Goto("gate") /\ UNCHANGED bindings
       ELSE IF ~Live(n) THEN Leave(n) /\ UNCHANGED bindings
       ELSE /\ AckInbox(n, seen.pending)
            /\ IF inbox[n] <= seen.pending THEN Leave(n) ELSE Goto("gate")
    /\ grown' = [grown EXCEPT ![n] = IF bindings'[n].pending = NoPending
                                     THEN @ \ {"wake"} ELSE @]
    /\ UNCHANGED <<inbox, told, cached, answering, pane, written, signal,
                   sound, read, now, spent>>

\* The size whose lines the nudge covers is captured before it is typed.
WakeGate(n) ==
    /\ tick.leg = "watch" /\ At(n, "gate")
    /\ IF ProdPrecondition(n)
       THEN tick' = [tick EXCEPT !.pc = "nudge", !.size = inbox[n]]
       ELSE Leave(n)
    /\ UNCHANGED <<ledger, cached, answering, agent, now, spent>>

\* The sender's fence, the keystrokes, and what tmux says of them.
Nudge(n) ==
    /\ At(n, "nudge")
    /\ IF pane[n] # "gone" /\ (tick.leg = "watch" => Live(n))
       THEN TypeInto(n) /\ Goto("record")
       ELSE Leave(n) /\ UNCHANGED pane
    /\ UNCHANGED <<ledger, cached, answering, written, grown, signal, sound,
                   read, now, spent>>

\* A slip: a nudge that was typed is taken for one that was read (before R-1).
RecordAsAcked(n) ==
    /\ At(n, "record")
    /\ bindings' = [bindings EXCEPT ![n].acked = tick.size]
    /\ Leave(n)
    /\ UNCHANGED <<inbox, told, cached, answering, agent, now, spent>>

\* A slip: the inbox is measured after the keystrokes (before SWL-03).
RecordSizeAfter(n) ==
    /\ At(n, "record")
    /\ bindings' = [bindings EXCEPT ![n].pending = inbox[n]]
    /\ grown' = [grown EXCEPT ![n] = @ \ {"wake"}]
    /\ Leave(n)
    /\ UNCHANGED <<inbox, told, cached, answering, pane, written, signal,
                   sound, read, now, spent>>

\* record_wake_pending: the baseline is the transcript's size after the send.
RecordWakePending(n) ==
    /\ At(n, "record")
    /\ bindings' = [bindings EXCEPT ![n].pending = tick.size]
    /\ grown' = [grown EXCEPT ![n] = @ \ {"wake"}]
    /\ Leave(n)
    /\ UNCHANGED <<inbox, told, cached, answering, pane, written, signal,
                   sound, read, now, spent>>

Poll ==
    \/ EndKickoffs \/ Sweep \/ EndTick
    \/ \E n \in Node :
        \/ AppendKickoff(n) \/ AwaitKickoffGate(n)
        \/ ReadSignal(n) \/ Escalate(n) \/ RefuseDone(n) \/ Collapse(n)
        \/ NotifyParent(n) \/ Judge(n) \/ FailNonresponsive(n) \/ Bump(n)
        \/ Prod(n) \/ ResolveWake(n) \/ WakeGate(n) \/ Nudge(n)
        \/ RecordWakePending(n)

-----------------------------------------------------------------------------
(* The client verbs, served by the IPC thread. *)

\* Only what is escalated is answered: stamped, or signed and not yet stamped.
Answer(n) ==
    /\ "answer" \in Verb /\ answering = NoNode /\ calls < MaxCalls
    /\ \/ Live(n) /\ bindings[n].stampedAt # 0
       \/ signal[n].kind = "ESCALATED"
    /\ bindings' = [bindings EXCEPT ![n].answeredAt = now + 1]
    /\ now' = now + 1
    /\ answering' = n
    /\ calls' = calls + 1
    /\ UNCHANGED <<inbox, told, cached, tick, agent, signs, attaches, crashes>>

\* The parent is woken, or a root itself.
WakeAnswered ==
    /\ answering # NoNode
    /\ LET p == Parent[answering] IN
       AppendLine(IF p = NoParent THEN answering ELSE p)
    /\ answering' = NoNode
    /\ UNCHANGED <<bindings, told, cached, tick, agent, now, spent>>

Pause(n) ==
    /\ "pause" \in Verb /\ answering = NoNode /\ calls < MaxCalls
    /\ ~bindings[n].paused
    /\ bindings' = [bindings EXCEPT ![n].paused = TRUE]
    /\ calls' = calls + 1
    /\ UNCHANGED <<inbox, told, cached, tick, answering, agent, now, signs,
                   attaches, crashes>>

\* A resume goes with its pause, and is not counted.
Resume(n) ==
    /\ answering = NoNode
    /\ bindings[n].paused
    /\ bindings' = [bindings EXCEPT ![n].paused = FALSE]
    /\ UNCHANGED <<inbox, told, cached, tick, answering, agent, now, spent>>

\* The memory of the detector and of both threads is lost; the ledger, the
\* inboxes and the panes are not.
Crash ==
    /\ crashes < MaxCrashes
    /\ cached' = {}
    /\ tick' = [tick EXCEPT !.leg = "sweep", !.todo = {},
                            !.snap = [n \in Node |-> NewBinding], !.at = NoNode,
                            !.pc = "next", !.sig = NoSignal, !.size = 0]
    /\ answering' = NoNode
    /\ crashes' = crashes + 1
    /\ UNCHANGED <<ledger, agent, now, signs, attaches, calls>>

-----------------------------------------------------------------------------
(* The agents and their operator. *)

AgentUnchanged == UNCHANGED <<ledger, cached, tick, answering, calls, crashes>>

\* The readers that remember a size of the transcript.
Remembering(n) ==
    {r \in Reader : \/ r = "detector" /\ n \in cached
                    \/ r = "wake" /\ bindings[n].pending # NoPending
                    \/ r = "ladder" /\ bindings[n].stale # 0}

Boot(n) ==
    /\ pane[n] = "boot"
    /\ pane' = [pane EXCEPT ![n] = "idle"]
    /\ AgentUnchanged
    /\ UNCHANGED <<written, grown, signal, sound, read, now, signs, attaches>>

\* A turn writes the transcript; it starts by reading the inbox again.
Work(n) ==
    /\ pane[n] \in {"called", "busy"}
    /\ pane' = [pane EXCEPT ![n] = "busy"]
    /\ read' = [read EXCEPT ![n] = IF pane[n] = "called" THEN inbox[n] ELSE @]
    /\ written' = written \cup {n}
    /\ grown' = [grown EXCEPT ![n] = Remembering(n)]
    /\ AgentUnchanged
    /\ UNCHANGED <<signal, sound, now, signs, attaches>>

SignOff(n, kind) ==
    /\ n \in Signer /\ pane[n] = "busy" /\ signs < MaxSignals
    /\ signal' = [signal EXCEPT ![n] = [kind |-> kind, ts |-> now + 1]]
    /\ now' = now + 1
    /\ signs' = signs + 1
    /\ AgentUnchanged
    /\ UNCHANGED <<pane, written, grown, sound, read, attaches>>

CompleteArtifacts(n) ==
    /\ n \in Signer /\ pane[n] = "busy"
    /\ sound' = sound \cup {n}
    /\ AgentUnchanged
    /\ UNCHANGED <<pane, written, grown, signal, read, now, signs, attaches>>

EndTurn(n) ==
    /\ pane[n] = "busy"
    /\ pane' = [pane EXCEPT ![n] = "idle"]
    /\ AgentUnchanged
    /\ UNCHANGED <<written, grown, signal, sound, read, now, signs, attaches>>

Attach(n) ==
    /\ n \in Operated /\ pane[n] = "idle" /\ attaches < MaxAttaches
    /\ pane' = [pane EXCEPT ![n] = "copy"]
    /\ attaches' = attaches + 1
    /\ AgentUnchanged
    /\ UNCHANGED <<written, grown, signal, sound, read, now, signs>>

Detach(n) ==
    /\ pane[n] = "copy"
    /\ pane' = [pane EXCEPT ![n] = "idle"]
    /\ AgentUnchanged
    /\ UNCHANGED <<written, grown, signal, sound, read, now, signs, attaches>>

Die(n) ==
    /\ n \in Mortal /\ pane[n] # "gone"
    /\ pane' = [pane EXCEPT ![n] = "gone"]
    /\ AgentUnchanged
    /\ UNCHANGED <<written, grown, signal, sound, read, now, signs, attaches>>

-----------------------------------------------------------------------------
(* A tree whose actors have just been opened, with nothing in their inboxes. *)

Init ==
    /\ bindings = [n \in Node |-> NewBinding]
    /\ inbox = [n \in Node |-> 0]
    /\ told = [n \in Node |-> {}]
    /\ cached = {}
    /\ tick = [leg |-> "kickoff", todo |-> Node,
               snap |-> [n \in Node |-> NewBinding], at |-> NoNode,
               pc |-> "next", sig |-> NoSignal, size |-> 0]
    /\ answering = NoNode
    /\ pane = [n \in Node |-> "boot"]
    /\ written = {}
    /\ grown = [n \in Node |-> {}]
    /\ signal = [n \in Node |-> NoSignal]
    /\ sound = {}
    /\ read = [n \in Node |-> 0]
    /\ now = 0
    /\ signs = 0 /\ attaches = 0 /\ calls = 0 /\ crashes = 0

Agent(n) ==
    \/ Boot(n) \/ Work(n) \/ EndTurn(n)
    \/ CompleteArtifacts(n)
    \/ \E kind \in {"DONE", "FAILED", "ESCALATED"} : SignOff(n, kind)
    \/ Attach(n) \/ Detach(n) \/ Die(n)

Client(n) == Answer(n) \/ Pause(n) \/ Resume(n)

Next ==
    \/ Poll \/ WakeAnswered \/ Crash
    \/ \E n \in Node : Live(n) /\ Agent(n)
    \/ \E n \in Node : Client(n)

Spec == Init /\ [][Next]_vars

(***************************************************************************)
(* The poll loop runs on a timer, the IPC thread finishes what it began,    *)
(* and an agent that was given a prompt starts its turn and ends it.        *)
(* Nothing makes an agent sign off or an operator leave.                    *)
(***************************************************************************)
FairSpec ==
    /\ Spec
    /\ WF_vars(Poll) /\ WF_vars(WakeAnswered)
    /\ \A n \in Node :
        WF_vars(Live(n) /\ (Boot(n) \/ Work(n))) /\ WF_vars(Live(n) /\ EndTurn(n))

-----------------------------------------------------------------------------
(* What is promised. *)

(***************************************************************************)
(* Every variable keeps its type; stale_check_count never passes its grace. *)
(***************************************************************************)
TypeOK ==
    /\ bindings \in [Node -> Binding]
    /\ inbox \in [Node -> Nat]
    /\ told \in [Node -> SUBSET Nat]
    /\ cached \in SUBSET Node
    /\ tick \in Tick
    /\ answering \in Node \cup {NoNode}
    /\ pane \in [Node -> PaneMode]
    /\ written \in SUBSET Node
    /\ grown \in [Node -> SUBSET Reader]
    /\ signal \in [Node -> Signal]
    /\ sound \in SUBSET Node
    /\ read \in [Node -> Nat]
    /\ now \in Nat
    /\ {signs, attaches, calls, crashes} \subseteq Nat

(***************************************************************************)
(* No wake is lost: the agent has read every line below the watermark, so   *)
(* that no line it missed is left without a nudge to come, whatever is      *)
(* swallowed, crossed by an append or cut by a crash                        *)
(* (_wake_on_unacked_inbox).                                                *)
(***************************************************************************)
AckedIsRead == \A n \in Node : bindings[n].acked <= read[n]

(***************************************************************************)
(* The ladder fails no leaf that is in the middle of a turn or that holds   *)
(* its slot for an answer (LR-17, SML-02).                                  *)
(***************************************************************************)
Failed(n) == At(n, "fail") /\ Live(n) /\ bindings'[n].state = "failed"

NonresponseIsHonest ==
    [][\A n \in Node :
            Failed(n) => ~PaneActivity(n) /\ ~HasLegitWaitingReason(n)]_vars

(***************************************************************************)
(* A line reaches the agent it is for, if the agent lives, is not paused    *)
(* and has its pane to itself again and again (the edge trigger of the      *)
(* wake and its retries).                                                   *)
(***************************************************************************)
Unread(n) == Live(n) /\ read[n] < inbox[n]

LineIsRead ==
    \A n \in Node :
        []<>(pane[n] # "copy") =>
            (Unread(n) ~> ~Unread(n) \/ SubtreePaused(n))

(***************************************************************************)
(* A leaf that no longer answers what is typed is failed in the end, unless *)
(* it is paused or holds its slot by a question or by a refused DONE: the   *)
(* ladder converges (WATCHDOG 3.5).                                         *)
(***************************************************************************)
Holds(n) ==
    \/ HasLegitWaitingReason(n)
    \/ signal[n].kind = "DONE" /\ n \notin sound

SilentLeafEnds ==
    \A n \in Node :
        ~IsCoordinator(n) =>
            (<>[](pane[n] = "copy" /\ ~SubtreePaused(n) /\ ~Holds(n))
             => <>~Live(n))

(***************************************************************************)
(* "Any resumed activity (a new JSONL turn) resets stale_check_count":      *)
(* a leaf that has turned since its first rung is not failed.               *)
(***************************************************************************)
TurnResetsLadder ==
    [][\A n \in Node : Failed(n) => "ladder" \notin grown[n]]_vars

(***************************************************************************)
(* Between two visits of the watchdog a live parent has a line of its own   *)
(* for every child that is done, next to its kickoff, unless the daemon     *)
(* died between the collapse and the line (LR-11).                          *)
(***************************************************************************)
DoneIsTold ==
    crashes = 0 /\ tick.at = NoNode =>
        \A p \in Node :
            LET done == {c \in Node : Parent[c] = p /\ bindings[c].state = "done"}
            IN  Live(p) /\ done # {} => inbox[p] >= 1 + Cardinality(done)

(***************************************************************************)
(* Inboxes, nudges and watermarks implement the abstract mailbox: nothing   *)
(* is acknowledged twice, backwards, or on the word of tmux, although the   *)
(* watermark, the nudge in flight and the inbox are read at different steps *)
(* and the daemon may die between any two (ack_inbox, record_wake_pending). *)
(***************************************************************************)
Mail == INSTANCE Mailbox
        WITH lines <- inbox,
             covered <- [n \in Node |-> bindings[n].pending],
             acked <- [n \in Node |-> bindings[n].acked]

ImplementsMailbox == Mail!Spec
=============================================================================
