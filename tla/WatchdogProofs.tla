---------------------------- MODULE WatchdogProofs ----------------------------
(***************************************************************************)
(* Proofs about Watchdog, for every tree, every grace and every bound: the  *)
(* variables keep their types and the ladder its grace, nothing is          *)
(* acknowledged that was not read, and the ladder fails nobody who works or *)
(* waits.                                                                   *)
(***************************************************************************)
EXTENDS Watchdog, TLAPS

-----------------------------------------------------------------------------
(* The invariant, one conjunct per hazard, for one node. *)

\* What a wake rests on: a nudge covers no more lines than there are, and,
\* once a turn was seen to run, or to have run, none that is unread.
WakeInv(n) ==
    /\ bindings[n].acked <= read[n]
    /\ read[n] <= inbox[n]
    /\ bindings[n].pending <= inbox[n]
    /\ pane[n] = "busy" \/ "wake" \in grown[n] =>
           bindings[n].pending <= read[n]

\* The steps of a visit after which the snapshot no longer tells the pending
\* nudge, and those up to which it tells the rung.
AfterResolve == {"gate", "nudge", "record"}
BeforeRung == {"escalate", "refuse", "collapse", "notify", "ladder"}

\* The snapshot of a tick agrees with the ledger where it is yet to be used.
SnapInv(n) ==
    tick.leg = "watch" /\ n \in tick.todo =>
        /\ tick.at # n \/ tick.pc \notin AfterResolve =>
               tick.snap[n].pending = bindings[n].pending
        /\ tick.at # n \/ tick.pc \in BeforeRung =>
               tick.snap[n].stale = bindings[n].stale

\* What a visit has established by the step it is at.
VisitInv(n) ==
    /\ tick.at = n => n \in tick.todo /\ tick.leg # "sweep"
    /\ tick.at = n /\ tick.leg = "kickoff" => tick.pc \in AfterResolve
    /\ tick.leg = "kickoff" /\ At(n, "gate") => tick.size <= inbox[n]
    /\ At(n, "bump") => bindings[n].stale < Grace
    /\ At(n, "fail") => ~PaneActivity(n) /\ ~HasLegitWaitingReason(n)
    /\ At(n, "nudge") => ~PaneActivity(n) /\ tick.size <= inbox[n]
    /\ At(n, "record") =>
           /\ tick.size <= inbox[n]
           /\ pane[n] = "busy" => tick.size <= read[n]

\* No instant that was written down is still to come.
ClockInv(n) == bindings[n].stampedAt <= now /\ signal[n].ts <= now

NodeInv(n) == WakeInv(n) /\ SnapInv(n) /\ VisitInv(n) /\ ClockInv(n)

Inv == TypeOK /\ \A n \in Node : NodeInv(n)

-----------------------------------------------------------------------------
(* One field of a binding at a time. *)

SameStale(n) == bindings'[n].stale = bindings[n].stale
SameWake(n) == /\ bindings'[n].acked = bindings[n].acked
               /\ bindings'[n].pending = bindings[n].pending
SameStamp(n) == bindings'[n].stampedAt = bindings[n].stampedAt
SameAnswer(n) == bindings'[n].answeredAt = bindings[n].answeredAt

\* The bindings stay bindings, and only the one of n is another.
OnlyOf(n) == /\ bindings' \in [Node -> Binding]
             /\ \A m \in Node : m # n => bindings'[m] = bindings[m]

\* A change of the lifecycle state changes nothing else.
LEMMA StateChanges ==
    ASSUME bindings \in [Node -> Binding], NEW n \in Node,
           NEW v \in KnownStates,
           bindings' = [bindings EXCEPT ![n].state = v]
    PROVE  /\ OnlyOf(n) /\ SameStale(n) /\ SameWake(n)
           /\ SameStamp(n) /\ SameAnswer(n) /\ bindings'[n].state = v
BY DEF Binding, OnlyOf, SameStale, SameWake, SameStamp, SameAnswer

\* Nor does a pause or its end.
LEMMA PauseChanges ==
    ASSUME bindings \in [Node -> Binding], NEW n \in Node,
           NEW v \in BOOLEAN,
           bindings' = [bindings EXCEPT ![n].paused = v]
    PROVE  /\ OnlyOf(n) /\ SameStale(n) /\ SameWake(n)
           /\ SameStamp(n) /\ SameAnswer(n)
BY DEF Binding, OnlyOf, SameStale, SameWake, SameStamp, SameAnswer

\* Nor does a rung of the ladder or its reset.
LEMMA StaleChanges ==
    ASSUME bindings \in [Node -> Binding], NEW n \in Node,
           NEW v \in 0 .. Grace,
           bindings' = [bindings EXCEPT ![n].stale = v]
    PROVE  /\ OnlyOf(n) /\ SameWake(n) /\ SameStamp(n) /\ SameAnswer(n)
           /\ bindings'[n].stale = v
BY DEF Binding, OnlyOf, SameWake, SameStamp, SameAnswer

\* Nor does a stamp.
LEMMA StampChanges ==
    ASSUME bindings \in [Node -> Binding], NEW n \in Node, NEW v \in Nat,
           bindings' = [bindings EXCEPT ![n].stampedAt = v]
    PROVE  /\ OnlyOf(n) /\ SameStale(n) /\ SameWake(n) /\ SameAnswer(n)
           /\ bindings'[n].stampedAt = v
BY DEF Binding, OnlyOf, SameStale, SameWake, SameAnswer

\* Nor does an answer.
LEMMA AnswerChanges ==
    ASSUME bindings \in [Node -> Binding], NEW n \in Node, NEW v \in Nat,
           bindings' = [bindings EXCEPT ![n].answeredAt = v]
    PROVE  /\ OnlyOf(n) /\ SameStale(n) /\ SameWake(n) /\ SameStamp(n)
           /\ bindings'[n].answeredAt = v
BY DEF Binding, OnlyOf, SameStale, SameWake, SameStamp

\* Nor does a nudge that is recorded.
LEMMA PendingChanges ==
    ASSUME bindings \in [Node -> Binding], NEW n \in Node, NEW v \in Nat,
           bindings' = [bindings EXCEPT ![n].pending = v]
    PROVE  /\ OnlyOf(n) /\ SameStale(n) /\ SameStamp(n) /\ SameAnswer(n)
           /\ bindings'[n].pending = v
           /\ bindings'[n].acked = bindings[n].acked
BY DEF Binding, OnlyOf, SameStale, SameStamp, SameAnswer

\* Nor does an acknowledgement, which takes the nudge with it.
LEMMA AckChanges ==
    ASSUME bindings \in [Node -> Binding], NEW n \in Node, NEW v \in Nat,
           bindings' = [bindings EXCEPT ![n].acked = v,
                                        ![n].pending = NoPending]
    PROVE  /\ OnlyOf(n) /\ SameStale(n) /\ SameStamp(n) /\ SameAnswer(n)
           /\ bindings'[n].acked = v /\ bindings'[n].pending = NoPending
BY DEF Binding, NoPending, OnlyOf, SameStale, SameStamp, SameAnswer

-----------------------------------------------------------------------------
(* The poll thread's place. *)

\* The thread stays in its leg, with its snapshot.
SameLeg == tick' \in Tick /\ tick'.leg = tick.leg /\ tick'.snap = tick.snap

\* Going on at a node changes the step alone.
LEMMA GotoMoves ==
    ASSUME tick \in Tick,
           NEW pc \in {"next", "escalate", "refuse", "collapse", "notify",
                       "ladder", "fail", "bump", "prod", "wake", "gate",
                       "nudge", "record"},
           Goto(pc)
    PROVE  /\ SameLeg /\ tick'.at = tick.at /\ tick'.pc = pc
           /\ tick'.todo = tick.todo /\ tick'.size = tick.size
BY DEF Goto, Tick, SameLeg

\* Leaving a node takes it from those still to visit.
LEMMA LeaveMoves ==
    ASSUME tick \in Tick, NEW n \in Node, Leave(n)
    PROVE  /\ SameLeg /\ tick'.at = NoNode /\ tick'.todo = tick.todo \ {n}
BY DEF Leave, Tick, NoSignal, Signal, SameLeg

\* Arriving at one changes the place, the step and the sign-off.
LEMMA ArriveMoves ==
    ASSUME tick \in Tick, NEW n \in Node, NEW sig \in Signal,
           NEW pc \in BeforeRung \cup {"wake"},
           Arrive(n, pc, sig)
    PROVE  /\ SameLeg /\ tick'.at = n /\ tick'.pc = pc
           /\ tick'.todo = tick.todo
BY DEF Arrive, Tick, SameLeg, BeforeRung

-----------------------------------------------------------------------------
(* What a step at one node leaves of the others. *)

\* Nothing of m was taken, and nothing of it was looked at.
Untouched(m) ==
    /\ bindings'[m] = bindings[m] /\ inbox'[m] >= inbox[m]
    /\ pane'[m] = pane[m] /\ grown'[m] \subseteq grown[m]
    /\ read'[m] = read[m] /\ signal'[m] = signal[m] /\ now' >= now

\* Its wake and its instants are as sound as they were.
LEMMA UntouchedKeeps ==
    ASSUME TypeOK, TypeOK', NEW m \in Node, NodeInv(m), Untouched(m)
    PROVE  WakeInv(m)' /\ ClockInv(m)'
<1>1. /\ bindings[m].pending \in Nat /\ inbox[m] \in Nat /\ inbox'[m] \in Nat
      /\ read[m] \in Nat
  BY DEF TypeOK, Binding
<1>2. /\ bindings[m].stampedAt \in Nat /\ signal[m].ts \in Nat
      /\ now \in Nat /\ now' \in Nat
  BY DEF TypeOK, Binding, Signal
<1>3. WakeInv(m)'
  BY <1>1 DEF NodeInv, WakeInv, Untouched
<1>4. ClockInv(m)'
  BY <1>2 DEF NodeInv, ClockInv, Untouched
<1> QED
  BY <1>3, <1>4

\* A node keeps its invariant while the poll thread is at another.
LEMMA OthersKeep ==
    ASSUME TypeOK, TypeOK', NEW m \in Node, NodeInv(m), Untouched(m),
           SameLeg, tick.at # m, tick'.at # m, tick'.todo \subseteq tick.todo
    PROVE  NodeInv(m)'
<1>1. WakeInv(m)' /\ ClockInv(m)'
  BY UntouchedKeeps
<1>2. SnapInv(m)'
  BY DEF NodeInv, SnapInv, Untouched, SameLeg
<1>3. VisitInv(m)'
  BY DEF VisitInv, At
<1> QED
  BY <1>1, <1>2, <1>3 DEF NodeInv

\* So a step of the visit to n owes the invariant of n alone.
LEMMA VisitKeepsInv ==
    ASSUME Inv, TypeOK', SameLeg, NEW n \in Node,
           tick.at \in {n, NoNode}, tick'.at \in {n, NoNode},
           tick'.todo \subseteq tick.todo,
           \A m \in Node : m # n => Untouched(m),
           NodeInv(n)'
    PROVE  Inv'
<1>1. ASSUME NEW m \in Node, m # n PROVE NodeInv(m)'
  <2>1. tick.at # m /\ tick'.at # m
    BY <1>1, TreeAssumption DEF NoNode, NoParent
  <2> QED
    BY <1>1, <2>1, OthersKeep DEF Inv
<1> QED
  BY <1>1 DEF Inv

\* Who was left is not at any step, and is not visited again in this tick.
LEMMA LeftIsDone ==
    ASSUME NEW n \in Node, tick'.at = NoNode, n \notin tick'.todo
    PROVE  SnapInv(n)' /\ VisitInv(n)'
<1>1. tick'.at # n
  BY TreeAssumption DEF NoNode, NoParent
<1> QED
  BY <1>1 DEF SnapInv, VisitInv, At

\* An inbox grows by a line.
LEMMA LineAppended ==
    ASSUME inbox \in [Node -> Nat], NEW n \in Node, AppendLine(n)
    PROVE  /\ inbox' \in [Node -> Nat] /\ inbox'[n] = inbox[n] + 1
           /\ \A m \in Node : inbox'[m] >= inbox[m]
<1>1. \A m \in Node : inbox[m] \in Nat
  OBVIOUS
<1> QED
  BY <1>1 DEF AppendLine

\* Keystrokes reach a prompt and change nothing else.
LEMMA Typed ==
    ASSUME pane \in [Node -> PaneMode], NEW n \in Node, TypeInto(n)
    PROVE  /\ pane' \in [Node -> PaneMode]
           /\ \A m \in Node : m # n => pane'[m] = pane[m]
           /\ pane'[n] = IF pane[n] = "idle" THEN "called" ELSE pane[n]
BY DEF TypeInto, PaneMode

-----------------------------------------------------------------------------
(* The kickoffs, the sweep and the end of a tick. *)

\* The first state is within the invariant.
LEMMA InvInit == Init => Inv
<1> SUFFICES ASSUME Init PROVE Inv
  OBVIOUS
<1>1. NewBinding \in Binding
  BY BoundAssumption DEF NewBinding, Binding, KnownStates, NoPending
<1>2. NoSignal \in Signal
  BY DEF NoSignal, Signal
<1>3. tick \in Tick
  BY <1>1, <1>2 DEF Init, Tick
<1>4. TypeOK
  BY <1>1, <1>2, <1>3 DEF Init, TypeOK, PaneMode
<1>5. ASSUME NEW n \in Node PROVE NodeInv(n)
  <2>1. tick.at # n
    BY TreeAssumption DEF Init, NoNode, NoParent
  <2>2. WakeInv(n)
    BY DEF Init, WakeInv, NewBinding, NoPending
  <2>3. SnapInv(n) /\ VisitInv(n)
    BY <2>1 DEF Init, SnapInv, VisitInv, At
  <2>4. ClockInv(n)
    BY DEF Init, ClockInv, NewBinding, NoSignal
  <2> QED
    BY <2>2, <2>3, <2>4 DEF NodeInv
<1> QED
  BY <1>4, <1>5 DEF Inv

\* A kickoff's line is there before anything is typed.
LEMMA AppendKickoffKeepsInv ==
    ASSUME Inv, NEW n \in Node, AppendKickoff(n)
    PROVE  Inv'
<1> USE DEF AppendKickoff
<1>1. TypeOK /\ \A m \in Node : NodeInv(m)
  BY DEF Inv
<1>2. /\ inbox' \in [Node -> Nat] /\ \A m \in Node : inbox'[m] >= inbox[m]
      /\ inbox'[n] = inbox[n] + 1
  BY <1>1, LineAppended DEF TypeOK
<1>3. /\ SameLeg /\ tick'.at = n /\ tick'.pc = "gate"
      /\ tick'.todo = tick.todo /\ tick'.size = inbox[n] + 1
  <2>1. inbox[n] + 1 \in Nat
    BY <1>1 DEF TypeOK
  <2> QED
    BY <1>1, <2>1 DEF TypeOK, Tick, SameLeg
<1>4. TypeOK'
  BY <1>1, <1>2, <1>3 DEF TypeOK, SameLeg, ledger, agent, spent
<1>5. ASSUME NEW m \in Node PROVE Untouched(m)
  BY <1>1, <1>2 DEF Untouched, agent, TypeOK
<1>6. SnapInv(n)' /\ VisitInv(n)'
  <2>1. tick'.size <= inbox'[n]
    BY <1>1, <1>2, <1>3 DEF TypeOK
  <2> QED
    BY <1>3, <2>1 DEF SnapInv, VisitInv, AfterResolve, At, SameLeg
<1>7. NodeInv(n)'
  BY <1>1, <1>4, <1>5, <1>6, UntouchedKeeps DEF NodeInv
<1> QED
  BY <1>3, <1>4, <1>5, <1>7, VisitKeepsInv

\* A step at n of the poll thread alone.
ThreadMoves(n) ==
    /\ UNCHANGED <<ledger, cached, answering, agent, now, spent>>
    /\ tick.at \in {n, NoNode} /\ tick'.at \in {n, NoNode}
    /\ tick'.todo \subseteq tick.todo

\* It owes the invariant no more than its own place.
LEMMA ThreadKeepsInv ==
    ASSUME Inv, SameLeg, NEW n \in Node, ThreadMoves(n),
           SnapInv(n)', VisitInv(n)'
    PROVE  Inv'
<1> USE DEF ThreadMoves
<1>1. TypeOK'
  BY DEF Inv, TypeOK, SameLeg, ledger, agent, spent
<1>2. ASSUME NEW m \in Node PROVE Untouched(m)
  <2>1. inbox[m] \in Nat /\ now \in Nat
    BY DEF Inv, TypeOK
  <2> QED
    BY <2>1 DEF Untouched, ledger, agent
<1>3. NodeInv(n)'
  BY <1>1, <1>2, UntouchedKeeps DEF Inv, NodeInv
<1> QED
  BY <1>1, <1>2, <1>3, VisitKeepsInv

\* A prompt is awaited before the kickoff is typed.
LEMMA AwaitKickoffGateKeepsInv ==
    ASSUME Inv, NEW n \in Node, AwaitKickoffGate(n)
    PROVE  Inv'
<1> USE DEF AwaitKickoffGate
<1>1. tick \in Tick /\ tick.at = n /\ NodeInv(n)
  BY DEF Inv, TypeOK, At
<1>2. CASE ProdPrecondition(n)
  <2>1. /\ SameLeg /\ tick'.at = tick.at /\ tick'.pc = "nudge"
        /\ tick'.todo = tick.todo /\ tick'.size = tick.size
    BY <1>1, <1>2, GotoMoves
  <2>2. ~PaneActivity(n)'
    BY <1>2 DEF ProdPrecondition, PaneActivity, agent
  <2>3. SnapInv(n)' /\ VisitInv(n)'
    BY <1>1, <2>1, <2>2
       DEF NodeInv, SnapInv, VisitInv, At, SameLeg, AfterResolve, ledger
  <2> QED
    BY <1>1, <2>1, <2>3, ThreadKeepsInv DEF ThreadMoves
<1>3. CASE ~ProdPrecondition(n)
  <2>1. SameLeg /\ tick'.at = NoNode /\ tick'.todo = tick.todo \ {n}
    BY <1>1, <1>3, LeaveMoves
  <2> QED
    BY <1>1, <2>1, LeftIsDone, ThreadKeepsInv DEF ThreadMoves
<1> QED
  BY <1>2, <1>3

\* Between two ticks nothing is owed but what the ledger and the agents hold.
LEMMA BetweenTicks ==
    ASSUME Inv, TypeOK', UNCHANGED <<ledger, agent, now>>,
           tick'.leg = "sweep", tick'.at = NoNode
    PROVE  Inv'
<1>1. ASSUME NEW n \in Node PROVE NodeInv(n)'
  <2>1. Untouched(n)
    <3>1. inbox[n] \in Nat /\ now \in Nat
      BY DEF Inv, TypeOK
    <3> QED
      BY <3>1 DEF Untouched, ledger, agent
  <2>2. tick'.at # n
    BY TreeAssumption DEF NoNode, NoParent
  <2>3. SnapInv(n)' /\ VisitInv(n)'
    BY <2>2 DEF SnapInv, VisitInv, At
  <2> QED
    BY <2>1, <2>3, UntouchedKeeps DEF Inv, NodeInv
<1> QED
  BY <1>1 DEF Inv

\* The kickoffs done, the ticks begin.
LEMMA EndKickoffsKeepsInv ==
    ASSUME Inv, EndKickoffs
    PROVE  Inv'
<1> USE DEF EndKickoffs
<1>1. tick' \in Tick /\ tick'.leg = "sweep" /\ tick'.at = NoNode
  BY DEF Inv, TypeOK, Tick
<1>2. TypeOK'
  BY <1>1 DEF Inv, TypeOK, ledger, agent, spent
<1> QED
  BY <1>1, <1>2, BetweenTicks

\* A tick ends with everybody visited.
LEMMA EndTickKeepsInv ==
    ASSUME Inv, EndTick
    PROVE  Inv'
<1> USE DEF EndTick
<1>1. tick' \in Tick /\ tick'.leg = "sweep" /\ tick'.at = NoNode
  <2>1. NewBinding \in Binding
    BY BoundAssumption DEF NewBinding, Binding, KnownStates, NoPending
  <2> QED
    BY <2>1 DEF Inv, TypeOK, Tick
<1>2. TypeOK'
  BY <1>1 DEF Inv, TypeOK, ledger, agent, spent
<1> QED
  BY <1>1, <1>2, BetweenTicks

\* A daemon that dies forgets where it was; what is on disk stays.
LEMMA CrashKeepsInv ==
    ASSUME Inv, Crash
    PROVE  Inv'
<1> USE DEF Crash
<1>1. tick' \in Tick /\ tick'.leg = "sweep" /\ tick'.at = NoNode
  <2>1. NewBinding \in Binding
    BY BoundAssumption DEF NewBinding, Binding, KnownStates, NoPending
  <2>2. NoSignal \in Signal
    BY DEF NoSignal, Signal
  <2> QED
    BY <2>1, <2>2 DEF Inv, TypeOK, Tick
<1>2. TypeOK'
  <2>1. crashes' \in Nat
    BY DEF Inv, TypeOK
  <2> QED
    BY <1>1, <2>1 DEF Inv, TypeOK, ledger, agent
<1> QED
  BY <1>1, <1>2, BetweenTicks

\* The sweep changes nothing of a binding but its state, and takes the
\* snapshot of what it leaves.
LEMMA SweepKeepsInv ==
    ASSUME Inv, Sweep
    PROVE  Inv'
<1> DEFINE due == {n \in Node : Live(n)}
           dead == {n \in due : pane[n] = "gone"}
           seen == {n \in (due \ dead) \cap written : ~IsCoordinator(n)}
           swept == [n \in Node |->
                       IF n \notin dead THEN bindings[n]
                       ELSE [bindings[n] EXCEPT !.state =
                               IF IsCoordinator(n) THEN "dead" ELSE "failed"]]
<1>1. /\ tick.leg = "sweep" /\ bindings' = swept
      /\ cached' = cached \cup seen
      /\ grown' = [n \in Node |-> IF n \in seen
                                  THEN grown[n] \ {"detector"} ELSE grown[n]]
      /\ tick' = [tick EXCEPT !.leg = "watch", !.snap = swept,
                              !.todo = due \ dead]
      /\ UNCHANGED <<inbox, told, answering, pane, written, signal, sound,
                     read, now, spent>>
  BY DEF Sweep
<1>2. ASSUME NEW n \in Node
      PROVE  /\ swept[n] \in Binding /\ swept[n].pending = bindings[n].pending
             /\ swept[n].stale = bindings[n].stale
             /\ swept[n].acked = bindings[n].acked
             /\ swept[n].stampedAt = bindings[n].stampedAt
  <2>1. bindings[n] \in Binding
    BY DEF Inv, TypeOK
  <2>2. CASE n \notin dead
    BY <2>1, <2>2
  <2>3. CASE n \in dead
    <3> DEFINE v == IF IsCoordinator(n) THEN "dead" ELSE "failed"
    <3>1. v \in KnownStates
      BY DEF KnownStates
    <3>2. swept[n] = [bindings[n] EXCEPT !.state = v]
      BY <2>3
    <3> HIDE DEF v, swept
    <3> QED
      BY <2>1, <3>1, <3>2 DEF Binding
  <2> QED
    BY <2>2, <2>3
<1>3. swept \in [Node -> Binding] /\ due \ dead \subseteq Node
  BY <1>2
<1>4. \A n \in Node : grown'[n] \subseteq grown[n]
  BY <1>1
<1> HIDE DEF due, dead, seen, swept
<1>5. /\ tick' \in Tick /\ tick'.leg = "watch" /\ tick'.snap = swept
      /\ tick'.at = tick.at
  BY <1>1, <1>3 DEF Inv, TypeOK, Tick
<1>6. TypeOK'
  <2>1. grown' \in [Node -> SUBSET Reader]
    BY <1>1 DEF Inv, TypeOK
  <2>2. cached' \in SUBSET Node
    BY <1>1 DEF Inv, TypeOK, seen
  <2> QED
    BY <1>1, <1>3, <1>5, <2>1, <2>2 DEF Inv, TypeOK, spent
<1>7. ASSUME NEW n \in Node PROVE NodeInv(n)'
  <2>1. tick.at # n /\ NodeInv(n)
    BY <1>1 DEF Inv, NodeInv, VisitInv
  <2>2. WakeInv(n)'
    BY <1>1, <1>2, <1>4, <2>1 DEF NodeInv, WakeInv
  <2>3. SnapInv(n)'
    BY <1>1, <1>5, <2>1 DEF SnapInv
  <2>4. VisitInv(n)'
    BY <1>5, <2>1 DEF VisitInv, At
  <2>5. ClockInv(n)'
    BY <1>1, <1>2, <2>1 DEF NodeInv, ClockInv
  <2> QED
    BY <2>2, <2>3, <2>4, <2>5 DEF NodeInv
<1> QED
  BY <1>6, <1>7 DEF Inv

-----------------------------------------------------------------------------
(* The sign-off first. *)

\* The watchdog arrives at a node with its snapshot still good.
LEMMA ReadSignalKeepsInv ==
    ASSUME Inv, NEW n \in Node, ReadSignal(n)
    PROVE  Inv'
<1>1. /\ UNCHANGED <<ledger, cached, answering, agent, now, spent>>
      /\ tick.leg = "watch" /\ tick.at = NoNode /\ n \in tick.todo
      /\ \E pc \in BeforeRung \cup {"wake"}, sig \in {NoSignal, signal[n]} :
             Arrive(n, pc, sig)
  BY DEF ReadSignal, BeforeRung, Policy
<1>2. PICK pc \in BeforeRung \cup {"wake"}, sig \in {NoSignal, signal[n]} :
          Arrive(n, pc, sig)
  BY <1>1
<1>3. sig \in Signal
  BY DEF Inv, TypeOK, NoSignal, Signal
<1>4. pc \in {"escalate", "refuse", "collapse", "notify", "ladder", "wake"}
  BY DEF BeforeRung
<1>5. /\ SameLeg /\ tick'.at = n /\ tick'.pc = pc /\ tick'.todo = tick.todo
  BY <1>2, <1>3, ArriveMoves DEF Inv, TypeOK
<1>6. NodeInv(n) /\ tick.at # n
  BY <1>1, TreeAssumption DEF Inv, NoNode, NoParent
<1>7. SnapInv(n)' /\ VisitInv(n)'
  BY <1>1, <1>4, <1>5, <1>6
     DEF NodeInv, SnapInv, VisitInv, At, SameLeg, AfterResolve, ledger
<1> QED
  BY <1>1, <1>5, <1>7, ThreadKeepsInv DEF ThreadMoves

\* A question that is stamped, or one that is answered, leaves the rung and
\* the nudge as they are.
LEMMA EscalateKeepsInv ==
    ASSUME Inv, NEW n \in Node, Escalate(n)
    PROVE  Inv'
<1>1. /\ tick \in Tick /\ tick.at = n /\ tick.pc = "escalate" /\ NodeInv(n)
      /\ bindings \in [Node -> Binding] /\ now \in Nat
      /\ UNCHANGED <<inbox, told, cached, answering, agent, spent>>
  BY DEF Escalate, Inv, TypeOK, At
<1>2. CASE /\ bindings' = [bindings EXCEPT ![n].stampedAt = now + 1]
           /\ now' = now + 1
           /\ Goto("wake")
  <2>1. now + 1 \in Nat /\ now' >= now
    BY <1>1, <1>2
  <2>2. /\ OnlyOf(n) /\ SameStale(n) /\ SameWake(n) /\ SameAnswer(n)
        /\ bindings'[n].stampedAt = now + 1
    BY <1>1, <1>2, <2>1, StampChanges
  <2>3. /\ SameLeg /\ tick'.at = tick.at /\ tick'.pc = "wake"
        /\ tick'.todo = tick.todo
    BY <1>1, <1>2, GotoMoves
  <2>4. TypeOK'
    BY <1>1, <1>2, <2>1, <2>2, <2>3
       DEF Inv, TypeOK, SameLeg, OnlyOf, agent, spent
  <2>5. WakeInv(n)'
    BY <1>1, <2>2 DEF NodeInv, WakeInv, SameWake, agent
  <2>6. SnapInv(n)' /\ VisitInv(n)'
    BY <1>1, <2>2, <2>3 DEF NodeInv, SnapInv, VisitInv, At, SameLeg,
       AfterResolve, BeforeRung, SameWake
  <2>7. ClockInv(n)'
    <3>1. signal[n].ts \in Nat
      BY DEF Inv, TypeOK, Signal
    <3> QED
      BY <1>1, <1>2, <2>2, <3>1 DEF NodeInv, ClockInv, agent
  <2>8. \A m \in Node : m # n => Untouched(m)
    BY <1>1, <2>1, <2>2 DEF OnlyOf, Untouched, agent, Inv, TypeOK
  <2> QED
    BY <1>1, <2>3, <2>4, <2>5, <2>6, <2>7, <2>8, VisitKeepsInv DEF NodeInv
<1>3. CASE /\ Goto(Policy(n)) \/ Goto("wake")
           /\ UNCHANGED <<bindings, now>>
  <2>1. PICK pc \in {"ladder", "wake"} : Goto(pc)
    BY <1>3 DEF Policy
  <2>2. /\ SameLeg /\ tick'.at = tick.at /\ tick'.pc = pc
        /\ tick'.todo = tick.todo
    BY <1>1, <2>1, GotoMoves
  <2>3. SnapInv(n)' /\ VisitInv(n)'
    BY <1>1, <1>3, <2>2 DEF NodeInv, SnapInv, VisitInv, At, SameLeg,
       AfterResolve, BeforeRung
  <2> QED
    BY <1>1, <1>3, <2>2, <2>3, ThreadKeepsInv DEF ThreadMoves, ledger
<1> QED
  BY <1>2, <1>3 DEF Escalate

\* A line for n, or for another, keeps the invariant of a visit to n.
LEMMA LineKeepsInv ==
    ASSUME Inv, NEW n \in Node, NEW k \in Node, AppendLine(k),
           tick.at = n, tick.pc \in BeforeRung, Goto("wake"),
           told' \in [Node -> SUBSET Nat],
           UNCHANGED <<bindings, cached, answering, agent, now, spent>>
    PROVE  Inv'
<1>1. NodeInv(n) /\ tick \in Tick
  BY DEF Inv, TypeOK
<1>2. inbox' \in [Node -> Nat] /\ \A m \in Node : inbox'[m] >= inbox[m]
  BY LineAppended DEF Inv, TypeOK
<1>3. /\ SameLeg /\ tick'.at = n /\ tick'.pc = "wake"
      /\ tick'.todo = tick.todo
  BY <1>1, GotoMoves
<1>4. TypeOK'
  BY <1>2, <1>3 DEF Inv, TypeOK, SameLeg, agent, spent
<1>5. ASSUME NEW m \in Node PROVE Untouched(m)
  BY <1>2 DEF Untouched, agent, Inv, TypeOK
<1>6. SnapInv(n)' /\ VisitInv(n)'
  BY <1>1, <1>3 DEF NodeInv, SnapInv, VisitInv, At, SameLeg,
     AfterResolve, BeforeRung
<1>7. NodeInv(n)'
  BY <1>1, <1>4, <1>5, <1>6, UntouchedKeeps DEF Inv, NodeInv
<1> QED
  BY <1>3, <1>4, <1>5, <1>7, VisitKeepsInv

\* Going on without a line does.
LEMMA ToWakeKeepsInv ==
    ASSUME Inv, NEW n \in Node, tick.at = n,
           tick.pc \in BeforeRung \cup {"fail", "prod"}, Goto("wake"),
           UNCHANGED <<ledger, cached, answering, agent, now, spent>>
    PROVE  Inv'
<1>1. NodeInv(n) /\ tick \in Tick
  BY DEF Inv, TypeOK
<1>2. /\ SameLeg /\ tick'.at = n /\ tick'.pc = "wake"
      /\ tick'.todo = tick.todo
  BY <1>1, GotoMoves
<1>3. SnapInv(n)' /\ VisitInv(n)'
  BY <1>1, <1>2 DEF NodeInv, SnapInv, VisitInv, At, SameLeg,
     AfterResolve, BeforeRung, ledger
<1> QED
  BY <1>2, <1>3, ThreadKeepsInv DEF ThreadMoves

\* A refusal is a line for the node itself.
LEMMA RefuseDoneKeepsInv ==
    ASSUME Inv, NEW n \in Node, RefuseDone(n)
    PROVE  Inv'
<1>1. tick.at = n /\ tick.pc \in BeforeRung /\ Goto("wake")
  BY DEF RefuseDone, At, BeforeRung
<1>2. CASE UNCHANGED <<told, inbox>>
  BY <1>1, <1>2, ToWakeKeepsInv DEF RefuseDone, ledger
<1>3. CASE /\ told' = [told EXCEPT ![n] = @ \cup {tick.sig.ts}]
           /\ AppendLine(n)
  <2>1. tick.sig.ts \in Nat /\ told \in [Node -> SUBSET Nat]
    BY DEF Inv, TypeOK, Tick, Signal
  <2>2. told' \in [Node -> SUBSET Nat]
    BY <1>3, <2>1
  <2> QED
    BY <1>1, <1>3, <2>2, LineKeepsInv DEF RefuseDone
<1> QED
  BY <1>2, <1>3 DEF RefuseDone

\* The end of a child is a line for its parent.
LEMMA NotifyParentKeepsInv ==
    ASSUME Inv, NEW n \in Node, NotifyParent(n)
    PROVE  Inv'
<1>1. tick.at = n /\ tick.pc \in BeforeRung /\ Goto("wake")
  BY DEF NotifyParent, At, BeforeRung
<1>2. CASE UNCHANGED inbox
  BY <1>1, <1>2, ToWakeKeepsInv DEF NotifyParent, ledger
<1>3. CASE Parent[n] # NoParent /\ AppendLine(Parent[n])
  <2>1. Parent[n] \in Node
    BY <1>3, TreeAssumption
  <2>2. told' \in [Node -> SUBSET Nat]
    BY DEF NotifyParent, Inv, TypeOK
  <2> QED
    BY <1>1, <1>3, <2>1, <2>2, LineKeepsInv DEF NotifyParent
<1> QED
  BY <1>2, <1>3 DEF NotifyParent

\* A change of state alone, at n, keeps all but the step.
LEMMA StateKeepsInv ==
    ASSUME Inv, NEW n \in Node, NEW v \in KnownStates,
           NEW pc \in {"notify", "wake"}, Goto(pc),
           bindings' = [bindings EXCEPT ![n].state = v],
           tick.at = n, tick.pc \in BeforeRung \cup {"fail"},
           pc = "notify" => tick.pc \in BeforeRung,
           UNCHANGED <<inbox, told, cached, answering, agent, now, spent>>
    PROVE  Inv'
<1>1. NodeInv(n) /\ tick \in Tick
  BY DEF Inv, TypeOK
<1>2. OnlyOf(n) /\ SameStale(n) /\ SameWake(n) /\ SameStamp(n)
  BY StateChanges DEF Inv, TypeOK
<1>3. /\ SameLeg /\ tick'.at = n /\ tick'.pc = pc /\ tick'.todo = tick.todo
  BY <1>1, GotoMoves
<1>4. TypeOK'
  BY <1>2, <1>3 DEF Inv, TypeOK, SameLeg, OnlyOf, agent, spent
<1>5. WakeInv(n)' /\ ClockInv(n)'
  BY <1>1, <1>2
     DEF NodeInv, WakeInv, ClockInv, SameWake, SameStamp, agent
<1>6. SnapInv(n)' /\ VisitInv(n)'
  BY <1>1, <1>2, <1>3 DEF NodeInv, SnapInv, VisitInv, At, SameLeg,
     AfterResolve, BeforeRung, SameWake, SameStale
<1>7. \A m \in Node : m # n => Untouched(m)
  BY <1>2 DEF OnlyOf, Untouched, agent, Inv, TypeOK
<1> QED
  BY <1>3, <1>4, <1>5, <1>6, <1>7, VisitKeepsInv DEF NodeInv

\* A collapse and a failure by the ladder are such changes.
LEMMA EndsKeepInv ==
    ASSUME Inv, NEW n \in Node, Collapse(n) \/ FailNonresponsive(n)
    PROVE  Inv'
<1>1. CASE Collapse(n)
  <2>1. PICK v \in {"done", "failed"} :
            bindings' = [bindings EXCEPT ![n].state = v]
    BY <1>1 DEF Collapse
  <2>2. v \in KnownStates
    BY DEF KnownStates
  <2>3. /\ tick.at = n /\ tick.pc \in BeforeRung /\ Goto("notify")
        /\ UNCHANGED <<inbox, told, cached, answering, agent, now, spent>>
    BY <1>1 DEF Collapse, At, BeforeRung
  <2> QED
    BY <2>1, <2>2, <2>3, StateKeepsInv
<1>2. CASE FailNonresponsive(n)
  <2>1. "failed" \in KnownStates
    BY DEF KnownStates
  <2>2. /\ tick.at = n /\ tick.pc = "fail" /\ Goto("wake")
        /\ bindings' = [bindings EXCEPT ![n].state = "failed"]
        /\ UNCHANGED <<inbox, told, cached, answering, agent, now, spent>>
    BY <1>2 DEF FailNonresponsive, At
  <2> QED
    BY <2>1, <2>2, StateKeepsInv
<1> QED
  BY <1>1, <1>2

-----------------------------------------------------------------------------
(* The ladder. *)

\* What is remembered of a transcript is only ever brought up to date.
LEMMA TranscriptRead ==
    ASSUME TypeOK, NEW n \in Node, ReadTranscript(n)
    PROVE  /\ cached' \in SUBSET Node /\ grown' \in [Node -> SUBSET Reader]
           /\ \A m \in Node : grown'[m] \subseteq grown[m]
BY DEF ReadTranscript, TypeOK

\* A verdict of idle is of a node that neither works nor waits, and the rung
\* of the snapshot is the one of the ledger.
LEMMA JudgeKeepsInv ==
    ASSUME Inv, NEW n \in Node, Judge(n)
    PROVE  Inv'
<1>1. /\ NodeInv(n) /\ TypeOK /\ tick \in Tick
      /\ tick.at = n /\ tick.pc = "ladder"
      /\ UNCHANGED <<inbox, told, answering, pane, written, signal, sound,
                     read, now, spent>>
  BY DEF Judge, Inv, TypeOK, At
<1>2. CASE SubtreePaused(n)
  BY <1>1, <1>2, ToWakeKeepsInv DEF Judge, BeforeRung, ledger, agent
<1>3. CASE ~SubtreePaused(n)
  <2> DEFINE stale == tick.snap[n].stale
  <2>1. PICK pc \in {"wake", "fail", "bump"} :
            /\ Goto(pc)
            /\ pc \in {"fail", "bump"} => Liveness(n) = "idle"
            /\ pc = "bump" => ~Exhausted(stale)
    BY <1>3 DEF Judge
  <2>2. ReadTranscript(n)
    BY <1>3 DEF Judge
  <2>3. /\ cached' \in SUBSET Node /\ grown' \in [Node -> SUBSET Reader]
        /\ \A m \in Node : grown'[m] \subseteq grown[m]
    BY <1>1, <2>2, TranscriptRead
  <2>4. /\ SameLeg /\ tick'.at = n /\ tick'.pc = pc
        /\ tick'.todo = tick.todo
    BY <1>1, <2>1, GotoMoves
  <2>5. \/ bindings' = bindings
        \/ /\ Liveness(n) # "idle"
           /\ bindings' = [bindings EXCEPT ![n].stale = 0]
    BY <1>3 DEF Judge
  <2>6. OnlyOf(n) /\ SameWake(n) /\ SameStamp(n) /\ SameAnswer(n)
    <3>1. CASE bindings' = bindings
      BY <1>1, <3>1
         DEF TypeOK, OnlyOf, SameWake, SameStamp, SameAnswer
    <3>2. CASE bindings' = [bindings EXCEPT ![n].stale = 0]
      <4>1. 0 \in 0 .. Grace
        BY BoundAssumption
      <4> QED
        BY <1>1, <3>2, <4>1, StaleChanges DEF TypeOK
    <3> QED
      BY <2>5, <3>1, <3>2
  <2>7. TypeOK'
    BY <1>1, <2>3, <2>4, <2>6 DEF TypeOK, SameLeg, OnlyOf, spent
  <2>8. ASSUME pc \in {"fail", "bump"}
        PROVE  /\ bindings' = bindings
               /\ ~PaneActivity(n) /\ ~HasLegitWaitingReason(n)
    BY <2>1, <2>5, <2>8 DEF Liveness
  <2>9. ASSUME pc = "bump" PROVE bindings'[n].stale < Grace
    <3>1. tick.snap[n].stale = bindings[n].stale
      <4>1. tick.leg \in {"kickoff", "sweep", "watch"}
        BY <1>1 DEF Tick
      <4>2. tick.leg = "watch" /\ n \in tick.todo
        BY <1>1, <4>1 DEF NodeInv, VisitInv, AfterResolve
      <4> QED
        BY <1>1, <4>2 DEF NodeInv, SnapInv, BeforeRung
    <3>2. bindings[n].stale \in Nat /\ Grace \in Nat
      BY <1>1, BoundAssumption DEF TypeOK, Binding
    <3> QED
      BY <2>1, <2>8, <2>9, <3>1, <3>2 DEF Exhausted
  <2>10. WakeInv(n)' /\ ClockInv(n)'
    BY <1>1, <2>3, <2>6
       DEF NodeInv, WakeInv, ClockInv, SameWake, SameStamp
  <2>11. SnapInv(n)'
    BY <1>1, <2>4, <2>6
       DEF NodeInv, SnapInv, SameLeg, AfterResolve, BeforeRung, SameWake
  <2>12. VisitInv(n)'
    <3>1. pc = "fail" => ~PaneActivity(n)' /\ ~HasLegitWaitingReason(n)'
      BY <1>1, <2>8 DEF PaneActivity, HasLegitWaitingReason,
         EscalationAnswered
    <3> QED
      BY <1>1, <2>1, <2>4, <2>9, <3>1
         DEF NodeInv, VisitInv, At, SameLeg, AfterResolve
  <2>13. \A m \in Node : m # n => Untouched(m)
    BY <1>1, <2>3, <2>6 DEF OnlyOf, Untouched, TypeOK
  <2> QED
    BY <1>1, <2>4, <2>7, <2>10, <2>11, <2>12, <2>13, VisitKeepsInv
       DEF NodeInv
<1> QED
  BY <1>2, <1>3

\* A rung is taken only where one is left.
LEMMA BumpKeepsInv ==
    ASSUME Inv, NEW n \in Node, Bump(n)
    PROVE  Inv'
<1> DEFINE v == bindings[n].stale + 1
<1>1. /\ NodeInv(n) /\ TypeOK /\ tick \in Tick
      /\ tick.at = n /\ tick.pc = "bump" /\ Goto("prod")
      /\ UNCHANGED <<inbox, told, cached, answering, pane, written, signal,
                     sound, read, now, spent>>
  BY DEF Bump, Inv, TypeOK, At
<1>2. bindings' = [bindings EXCEPT ![n].stale = v]
  BY DEF Bump
<1>3. v \in 0 .. Grace
  <2>1. bindings[n].stale < Grace
    BY <1>1 DEF NodeInv, VisitInv, At
  <2>2. bindings[n].stale \in Nat /\ Grace \in Nat
    BY <1>1, BoundAssumption DEF TypeOK, Binding
  <2> QED
    BY <2>1, <2>2
<1> HIDE DEF v
<1>4. OnlyOf(n) /\ SameWake(n) /\ SameStamp(n)
  BY <1>1, <1>2, <1>3, StaleChanges DEF TypeOK
<1>5. /\ SameLeg /\ tick'.at = n /\ tick'.pc = "prod"
      /\ tick'.todo = tick.todo
  BY <1>1, GotoMoves
<1>6. /\ grown' \in [Node -> SUBSET Reader]
      /\ \A m \in Node : grown'[m] \subseteq grown[m]
  BY <1>1 DEF Bump, TypeOK
<1>7. TypeOK'
  BY <1>1, <1>4, <1>5, <1>6 DEF TypeOK, SameLeg, OnlyOf, spent
<1>8. WakeInv(n)' /\ ClockInv(n)'
  BY <1>1, <1>4, <1>6
     DEF NodeInv, WakeInv, ClockInv, SameWake, SameStamp
<1>9. SnapInv(n)' /\ VisitInv(n)'
  BY <1>1, <1>4, <1>5 DEF NodeInv, SnapInv, VisitInv, At, SameLeg,
     AfterResolve, BeforeRung, SameWake
<1>10. \A m \in Node : m # n => Untouched(m)
  BY <1>1, <1>4, <1>6 DEF OnlyOf, Untouched, TypeOK
<1> QED
  BY <1>1, <1>5, <1>7, <1>8, <1>9, <1>10, VisitKeepsInv DEF NodeInv

-----------------------------------------------------------------------------
(* What is typed. *)

\* Keystrokes at n, on the way to the next step, keep the invariant: no turn
\* has started yet.
LEMMA TypingKeepsInv ==
    ASSUME Inv, NEW n \in Node, TypeInto(n), NEW pc \in {"wake", "record"},
           Goto(pc), tick.at = n,
           tick.pc = IF pc = "wake" THEN "prod" ELSE "nudge",
           UNCHANGED <<ledger, cached, answering, written, grown, signal,
                       sound, read, now, spent>>
    PROVE  Inv'
<1>1. NodeInv(n) /\ TypeOK /\ tick \in Tick
  BY DEF Inv, TypeOK
<1>2. /\ pane' \in [Node -> PaneMode]
      /\ \A m \in Node : m # n => pane'[m] = pane[m]
      /\ pane'[n] = IF pane[n] = "idle" THEN "called" ELSE pane[n]
  BY <1>1, Typed DEF TypeOK
<1>3. /\ SameLeg /\ tick'.at = n /\ tick'.pc = pc
      /\ tick'.todo = tick.todo /\ tick'.size = tick.size
  BY <1>1, GotoMoves
<1>4. TypeOK'
  BY <1>1, <1>2, <1>3 DEF TypeOK, SameLeg, ledger, spent
<1>5. WakeInv(n)' /\ ClockInv(n)'
  BY <1>1, <1>2 DEF NodeInv, WakeInv, ClockInv, ledger
<1>6. SnapInv(n)' /\ VisitInv(n)'
  BY <1>1, <1>2, <1>3 DEF NodeInv, SnapInv, VisitInv, At, SameLeg,
     AfterResolve, BeforeRung, PaneActivity, ledger
<1>7. \A m \in Node : m # n => Untouched(m)
  BY <1>1, <1>2 DEF Untouched, TypeOK, ledger
<1> QED
  BY <1>3, <1>4, <1>5, <1>6, <1>7, VisitKeepsInv DEF NodeInv

\* A prod is such keystrokes.
LEMMA ProdKeepsInv ==
    ASSUME Inv, NEW n \in Node, Prod(n)
    PROVE  Inv'
BY TypingKeepsInv DEF Prod, At

\* Leaving a node keeps the invariant.
LEMMA LeaveKeepsInv ==
    ASSUME Inv, NEW n \in Node, tick.at = n, Leave(n),
           UNCHANGED <<ledger, cached, answering, agent, now, spent>>
    PROVE  Inv'
<1>1. SameLeg /\ tick'.at = NoNode /\ tick'.todo = tick.todo \ {n}
  BY LeaveMoves DEF Inv, TypeOK
<1> QED
  BY <1>1, LeftIsDone, ThreadKeepsInv DEF ThreadMoves

\* So is a nudge, unless its node has gone.
LEMMA NudgeKeepsInv ==
    ASSUME Inv, NEW n \in Node, Nudge(n)
    PROVE  Inv'
<1>1. CASE TypeInto(n) /\ Goto("record")
  BY <1>1, TypingKeepsInv DEF Nudge, At
<1>2. CASE Leave(n) /\ UNCHANGED pane
  BY <1>2, LeaveKeepsInv DEF Nudge, At, agent
<1> QED
  BY <1>1, <1>2 DEF Nudge

\* The size is captured at a prompt.
LEMMA WakeGateKeepsInv ==
    ASSUME Inv, NEW n \in Node, WakeGate(n)
    PROVE  Inv'
<1>1. /\ NodeInv(n) /\ TypeOK /\ tick.at = n /\ tick.pc = "gate"
      /\ tick.leg = "watch"
      /\ UNCHANGED <<ledger, cached, answering, agent, now, spent>>
  BY DEF WakeGate, Inv, At
<1>2. CASE ProdPrecondition(n)
  <2>1. inbox[n] \in Nat
    BY <1>1 DEF TypeOK
  <2>2. tick' = [tick EXCEPT !.pc = "nudge", !.size = inbox[n]]
    BY <1>2 DEF WakeGate
  <2>3. /\ SameLeg /\ tick'.at = n /\ tick'.pc = "nudge"
        /\ tick'.todo = tick.todo /\ tick'.size = inbox[n]
    BY <1>1, <2>1, <2>2 DEF TypeOK, Tick, SameLeg
  <2>4. ~PaneActivity(n)'
    BY <1>1, <1>2 DEF ProdPrecondition, PaneActivity, agent
  <2>5. SnapInv(n)' /\ VisitInv(n)'
    BY <1>1, <2>1, <2>3, <2>4 DEF NodeInv, SnapInv, VisitInv, At, SameLeg,
       AfterResolve, BeforeRung, ledger
  <2> QED
    BY <1>1, <2>3, <2>5, ThreadKeepsInv DEF ThreadMoves
<1>3. CASE ~ProdPrecondition(n)
  BY <1>1, <1>3, LeaveKeepsInv DEF WakeGate
<1> QED
  BY <1>2, <1>3

\* What is recorded covers what was there before the keystrokes, and what
\* was remembered of the transcript starts anew.
LEMMA RecordWakePendingKeepsInv ==
    ASSUME Inv, NEW n \in Node, RecordWakePending(n)
    PROVE  Inv'
<1>1. /\ NodeInv(n) /\ TypeOK /\ tick \in Tick /\ tick.size \in Nat
      /\ tick.at = n /\ tick.pc = "record" /\ Leave(n)
      /\ bindings' = [bindings EXCEPT ![n].pending = tick.size]
      /\ grown' = [grown EXCEPT ![n] = @ \ {"wake"}]
      /\ UNCHANGED <<inbox, told, cached, answering, pane, written, signal,
                     sound, read, now, spent>>
  BY DEF RecordWakePending, Inv, TypeOK, At, Tick
<1>2. /\ OnlyOf(n) /\ SameStamp(n) /\ bindings'[n].pending = tick.size
      /\ bindings'[n].acked = bindings[n].acked
  BY <1>1, PendingChanges DEF TypeOK
<1>3. SameLeg /\ tick'.at = NoNode /\ tick'.todo = tick.todo \ {n}
  BY <1>1, LeaveMoves
<1>4. /\ grown' \in [Node -> SUBSET Reader] /\ "wake" \notin grown'[n]
      /\ \A m \in Node : m # n => grown'[m] = grown[m]
  BY <1>1 DEF TypeOK
<1>5. TypeOK'
  BY <1>1, <1>2, <1>3, <1>4 DEF TypeOK, SameLeg, OnlyOf, spent
<1>6. WakeInv(n)' /\ ClockInv(n)'
  BY <1>1, <1>2, <1>4
     DEF NodeInv, WakeInv, VisitInv, At, ClockInv, SameStamp
<1>7. SnapInv(n)' /\ VisitInv(n)'
  BY <1>3, LeftIsDone
<1>8. \A m \in Node : m # n => Untouched(m)
  BY <1>1, <1>2, <1>4 DEF OnlyOf, Untouched, TypeOK
<1> QED
  BY <1>1, <1>3, <1>5, <1>6, <1>7, <1>8, VisitKeepsInv DEF NodeInv

\* What is acknowledged was covered by a nudge that a turn followed.
LEMMA ResolveWakeKeepsInv ==
    ASSUME Inv, NEW n \in Node, ResolveWake(n)
    PROVE  Inv'
<1> DEFINE seen == tick.snap[n]
<1>1. /\ NodeInv(n) /\ TypeOK /\ tick \in Tick
      /\ tick.at = n /\ tick.pc = "wake"
      /\ UNCHANGED <<inbox, told, cached, answering, pane, written, signal,
                     sound, read, now, spent>>
      /\ grown' = [grown EXCEPT ![n] = IF bindings'[n].pending = NoPending
                                       THEN @ \ {"wake"} ELSE @]
  BY DEF ResolveWake, Inv, TypeOK, At
<1>2. tick.leg = "watch" /\ seen.pending = bindings[n].pending
  <2>1. tick.leg \in {"kickoff", "sweep", "watch"}
    BY <1>1 DEF Tick
  <2>2. tick.leg = "watch" /\ n \in tick.todo
    BY <1>1, <2>1 DEF NodeInv, VisitInv, AfterResolve
  <2> QED
    BY <1>1, <2>2 DEF NodeInv, SnapInv, AfterResolve
<1>3. Leave(n) \/ Goto("gate")
  BY DEF ResolveWake
<1>4. /\ SameLeg /\ tick'.todo \subseteq tick.todo
      /\ \/ tick'.at = NoNode /\ tick'.todo = tick.todo \ {n}
         \/ tick'.at = n /\ tick'.pc = "gate" /\ tick'.todo = tick.todo
  <2>1. CASE Leave(n)
    BY <1>1, <2>1, LeaveMoves
  <2>2. CASE Goto("gate")
    BY <1>1, <2>2, GotoMoves
  <2> QED
    BY <1>3, <2>1, <2>2
<1>5. \/ bindings' = bindings
      \/ /\ ConfirmProdWorked(n)
         /\ bindings' = [bindings EXCEPT ![n].acked = seen.pending,
                                         ![n].pending = NoPending]
  BY DEF ResolveWake, AckInbox
<1>6. /\ OnlyOf(n) /\ SameStale(n) /\ SameStamp(n)
      /\ \/ SameWake(n)
         \/ /\ "wake" \in grown[n]
            /\ bindings'[n].acked = bindings[n].pending
            /\ bindings'[n].pending = NoPending
  <2>1. CASE bindings' = bindings
    BY <1>1, <2>1 DEF TypeOK, OnlyOf, SameStale, SameStamp, SameWake
  <2>2. CASE /\ ConfirmProdWorked(n)
             /\ bindings' = [bindings EXCEPT ![n].acked = seen.pending,
                                             ![n].pending = NoPending]
    <3>1. seen.pending \in Nat
      BY <1>1, <1>2 DEF TypeOK, Binding
    <3> HIDE DEF seen
    <3> QED
      BY <1>1, <1>2, <2>2, <3>1, AckChanges DEF TypeOK, ConfirmProdWorked
  <2> QED
    BY <1>5, <2>1, <2>2
<1>7. /\ grown' \in [Node -> SUBSET Reader]
      /\ \A m \in Node : grown'[m] \subseteq grown[m]
  BY <1>1 DEF TypeOK
<1>8. TypeOK'
  BY <1>1, <1>4, <1>6, <1>7 DEF TypeOK, SameLeg, OnlyOf, spent
<1>9. WakeInv(n)' /\ ClockInv(n)'
  <2>1. read[n] \in Nat /\ inbox[n] \in Nat
    BY <1>1 DEF TypeOK
  <2> QED
    BY <1>1, <1>6, <1>7, <2>1 DEF NodeInv, WakeInv, ClockInv, SameWake,
       SameStamp, NoPending
<1>10. SnapInv(n)' /\ VisitInv(n)'
  <2>1. CASE tick'.at = NoNode /\ tick'.todo = tick.todo \ {n}
    BY <2>1, LeftIsDone
  <2>2. CASE tick'.at = n /\ tick'.pc = "gate" /\ tick'.todo = tick.todo
    BY <1>1, <1>2, <1>4, <2>2
       DEF NodeInv, SnapInv, VisitInv, At, SameLeg, AfterResolve, BeforeRung
  <2> QED
    BY <1>4, <2>1, <2>2
<1>11. \A m \in Node : m # n => Untouched(m)
  BY <1>1, <1>6, <1>7 DEF OnlyOf, Untouched, TypeOK
<1> QED
  BY <1>1, <1>4, <1>8, <1>9, <1>10, <1>11, VisitKeepsInv DEF NodeInv

\* Every step of the poll thread keeps the invariant.
LEMMA PollKeepsInv ==
    ASSUME Inv, Poll
    PROVE  Inv'
BY EndKickoffsKeepsInv, SweepKeepsInv, EndTickKeepsInv, AppendKickoffKeepsInv,
   AwaitKickoffGateKeepsInv, ReadSignalKeepsInv, EscalateKeepsInv,
   RefuseDoneKeepsInv, EndsKeepInv, NotifyParentKeepsInv, JudgeKeepsInv,
   BumpKeepsInv, ProdKeepsInv, ResolveWakeKeepsInv, WakeGateKeepsInv,
   NudgeKeepsInv, RecordWakePendingKeepsInv
   DEF Poll

-----------------------------------------------------------------------------
(* The clients and the agents, who do not move the poll thread. *)

\* A step aside, at n, leaves the others what they have.
LEMMA AsideKeepsInv ==
    ASSUME Inv, TypeOK', tick' = tick, NEW n \in Node,
           \A m \in Node : m # n => Untouched(m),
           NodeInv(n)'
    PROVE  Inv'
<1>1. ASSUME NEW m \in Node, m # n PROVE NodeInv(m)'
  <2>1. NodeInv(m) /\ TypeOK /\ Untouched(m)
    BY <1>1 DEF Inv
  <2>2. WakeInv(m)' /\ ClockInv(m)'
    BY <2>1, UntouchedKeeps
  <2>3. SnapInv(m)'
    BY <2>1 DEF NodeInv, SnapInv, Untouched
  <2>4. VisitInv(m)'
    <3>1. tick.size \in Nat /\ inbox[m] \in Nat /\ inbox'[m] \in Nat
      BY <2>1 DEF TypeOK, Tick
    <3> QED
      BY <2>1, <3>1 DEF NodeInv, VisitInv, At, Untouched, PaneActivity,
         HasLegitWaitingReason, EscalationAnswered
  <2> QED
    BY <2>2, <2>3, <2>4 DEF NodeInv
<1> QED
  BY <1>1 DEF Inv

\* The line of an answer is one more line.
LEMMA WakeAnsweredKeepsInv ==
    ASSUME Inv, WakeAnswered
    PROVE  Inv'
<1>1. PICK k \in Node : AppendLine(k)
  BY TreeAssumption DEF WakeAnswered, Inv, TypeOK
<1>2. inbox' \in [Node -> Nat] /\ \A m \in Node : inbox'[m] >= inbox[m]
  BY <1>1, LineAppended DEF Inv, TypeOK
<1>3. TypeOK'
  BY <1>2 DEF WakeAnswered, Inv, TypeOK, agent, spent
<1>4. ASSUME NEW m \in Node PROVE Untouched(m)
  BY <1>2 DEF WakeAnswered, Untouched, agent, Inv, TypeOK
<1>5. WakeInv(k)' /\ ClockInv(k)'
  BY <1>1, <1>3, <1>4, UntouchedKeeps DEF Inv
<1>6. SnapInv(k)' /\ VisitInv(k)'
  <2>1. tick.size \in Nat /\ inbox[k] \in Nat /\ inbox'[k] \in Nat
    BY <1>1, <1>2 DEF Inv, TypeOK, Tick
  <2>2. NodeInv(k) /\ Untouched(k) /\ tick' = tick
    BY <1>1, <1>4 DEF Inv, WakeAnswered
  <2> QED
    BY <2>1, <2>2 DEF NodeInv, SnapInv, VisitInv, At, Untouched,
       PaneActivity, HasLegitWaitingReason, EscalationAnswered
<1> QED
  BY <1>1, <1>3, <1>4, <1>5, <1>6, AsideKeepsInv DEF WakeAnswered, NodeInv

\* An answer is later than all that was asked, so that it lets nobody wait
\* who did not wait before.
LEMMA AnswerKeepsInv ==
    ASSUME Inv, NEW n \in Node, Answer(n)
    PROVE  Inv'
<1>1. /\ NodeInv(n) /\ TypeOK /\ now \in Nat /\ now + 1 \in Nat
      /\ now' = now + 1 /\ tick' = tick
      /\ bindings' = [bindings EXCEPT ![n].answeredAt = now + 1]
      /\ UNCHANGED <<inbox, told, cached, agent, signs, attaches, crashes>>
  BY DEF Answer, Inv, TypeOK
<1>2. /\ OnlyOf(n) /\ SameStale(n) /\ SameWake(n) /\ SameStamp(n)
      /\ bindings'[n].answeredAt = now + 1
  BY <1>1, AnswerChanges DEF TypeOK
<1>3. bindings[n].stampedAt \in Nat /\ signal[n].ts \in Nat
  BY <1>1 DEF TypeOK, Binding, Signal
<1>4. TypeOK'
  <2>1. answering' \in Node \cup {NoNode} /\ calls' \in Nat
    BY <1>1 DEF Answer, TypeOK
  <2> QED
    BY <1>1, <1>2, <2>1 DEF TypeOK, OnlyOf, agent
<1>5. WakeInv(n)' /\ ClockInv(n)'
  BY <1>1, <1>2, <1>3
     DEF NodeInv, WakeInv, ClockInv, SameWake, SameStamp, agent
<1>6. SnapInv(n)'
  BY <1>1, <1>2 DEF NodeInv, SnapInv, SameWake, SameStale
<1>7. VisitInv(n)'
  <2>1. EscalationAnswered(bindings[n], signal[n].ts)'
    BY <1>1, <1>2, <1>3
       DEF NodeInv, ClockInv, EscalationAnswered, SameStamp, agent
  <2>2. ~HasLegitWaitingReason(n)'
    BY <2>1 DEF HasLegitWaitingReason
  <2> QED
    BY <1>1, <1>2, <2>2
       DEF NodeInv, VisitInv, At, PaneActivity, SameStale, agent
<1>8. \A m \in Node : m # n => Untouched(m)
  BY <1>1, <1>2 DEF OnlyOf, Untouched, TypeOK, agent
<1> QED
  BY <1>1, <1>4, <1>5, <1>6, <1>7, <1>8, AsideKeepsInv DEF NodeInv

\* A pause and its end change nobody's claim to the slot.
LEMMA PausesKeepInv ==
    ASSUME Inv, NEW n \in Node, Pause(n) \/ Resume(n)
    PROVE  Inv'
<1>1. /\ NodeInv(n) /\ TypeOK /\ tick' = tick /\ calls' \in Nat
      /\ UNCHANGED <<inbox, told, cached, answering, agent, now, signs,
                     attaches, crashes>>
  BY DEF Pause, Resume, Inv, TypeOK, spent
<1>2. \E v \in BOOLEAN : bindings' = [bindings EXCEPT ![n].paused = v]
  BY DEF Pause, Resume
<1>3. /\ OnlyOf(n) /\ SameStale(n) /\ SameWake(n)
      /\ SameStamp(n) /\ SameAnswer(n)
  BY <1>1, <1>2, PauseChanges DEF TypeOK
<1>4. TypeOK'
  BY <1>1, <1>3 DEF TypeOK, OnlyOf, agent
<1>5. WakeInv(n)' /\ ClockInv(n)' /\ SnapInv(n)'
  BY <1>1, <1>3 DEF NodeInv, WakeInv, ClockInv, SnapInv, SameWake,
     SameStamp, SameStale, agent
<1>6. VisitInv(n)'
  BY <1>1, <1>3 DEF NodeInv, VisitInv, At, PaneActivity, SameStale,
     HasLegitWaitingReason, EscalationAnswered, SameStamp, SameAnswer, agent
<1>7. \A m \in Node : m # n => Untouched(m)
  BY <1>1, <1>3 DEF OnlyOf, Untouched, TypeOK, agent
<1> QED
  BY <1>1, <1>4, <1>5, <1>6, <1>7, AsideKeepsInv DEF NodeInv

\* A pane on which no turn starts or runs takes nothing from the invariant.
LEMMA QuietPaneKeepsInv ==
    ASSUME Inv, NEW n \in Node, NEW v \in {"idle", "copy", "gone"},
           pane' = [pane EXCEPT ![n] = v], AgentUnchanged, attaches' \in Nat,
           UNCHANGED <<written, grown, signal, sound, read, now, signs>>
    PROVE  Inv'
<1> USE DEF AgentUnchanged
<1>1. NodeInv(n) /\ TypeOK
  BY DEF Inv
<1>2. /\ pane' \in [Node -> PaneMode] /\ pane'[n] = v
      /\ \A m \in Node : m # n => pane'[m] = pane[m]
  BY <1>1 DEF TypeOK, PaneMode
<1>3. TypeOK'
  BY <1>1, <1>2 DEF TypeOK, ledger
<1>4. WakeInv(n)' /\ ClockInv(n)' /\ SnapInv(n)'
  BY <1>1, <1>2 DEF NodeInv, WakeInv, ClockInv, SnapInv, ledger
<1>5. VisitInv(n)'
  BY <1>1, <1>2 DEF NodeInv, VisitInv, At, PaneActivity,
     HasLegitWaitingReason, EscalationAnswered, ledger
<1>6. \A m \in Node : m # n => Untouched(m)
  BY <1>1, <1>2 DEF Untouched, TypeOK, ledger
<1> QED
  BY <1>3, <1>4, <1>5, <1>6, AsideKeepsInv DEF NodeInv

\* A turn starts by reading all that is there, and so all that a nudge before
\* it covers.
LEMMA WorkKeepsInv ==
    ASSUME Inv, NEW n \in Node, Work(n)
    PROVE  Inv'
<1>1. /\ NodeInv(n) /\ TypeOK /\ tick' = tick /\ PaneActivity(n)
      /\ UNCHANGED <<ledger, cached, answering, calls, crashes,
                     signal, sound, now, signs, attaches>>
  BY DEF Work, Inv, AgentUnchanged, PaneActivity
<1>2. /\ pane' \in [Node -> PaneMode] /\ pane'[n] = "busy"
      /\ \A m \in Node : m # n => pane'[m] = pane[m]
  BY <1>1 DEF Work, TypeOK, PaneMode
<1>3. /\ read' \in [Node -> Nat]
      /\ read'[n] = IF pane[n] = "called" THEN inbox[n] ELSE read[n]
      /\ \A m \in Node : m # n => read'[m] = read[m]
  BY <1>1 DEF Work, TypeOK
<1>4. /\ grown' \in [Node -> SUBSET Reader]
      /\ \A m \in Node : m # n => grown'[m] = grown[m]
  <2>1. Remembering(n) \in SUBSET Reader
    BY DEF Remembering
  <2> QED
    BY <1>1, <2>1 DEF Work, TypeOK
<1>5. written' \in SUBSET Node
  BY <1>1 DEF Work, TypeOK
<1>6. TypeOK'
  BY <1>1, <1>2, <1>3, <1>4, <1>5 DEF TypeOK, ledger
<1>7. WakeInv(n)' /\ ClockInv(n)'
  <2>1. /\ bindings[n].pending \in Nat /\ bindings[n].acked \in Nat
        /\ inbox[n] \in Nat /\ read[n] \in Nat
    BY <1>1 DEF TypeOK, Binding
  <2> QED
    BY <1>1, <1>3, <2>1
       DEF NodeInv, WakeInv, ClockInv, PaneActivity, ledger
<1>8. SnapInv(n)' /\ VisitInv(n)'
  BY <1>1, <1>2, <1>3 DEF NodeInv, SnapInv, VisitInv, At, PaneActivity, ledger
<1>9. \A m \in Node : m # n => Untouched(m)
  BY <1>1, <1>2, <1>3, <1>4 DEF Untouched, TypeOK, ledger
<1> QED
  BY <1>1, <1>6, <1>7, <1>8, <1>9, AsideKeepsInv DEF NodeInv

\* A sign-off is written in the middle of a turn.
LEMMA SignOffKeepsInv ==
    ASSUME Inv, NEW n \in Node, NEW kind \in {"DONE", "FAILED", "ESCALATED"},
           SignOff(n, kind)
    PROVE  Inv'
<1>1. /\ NodeInv(n) /\ TypeOK /\ tick' = tick /\ pane[n] = "busy"
      /\ now \in Nat /\ now' = now + 1 /\ signs' \in Nat
      /\ signal' = [signal EXCEPT ![n] = [kind |-> kind, ts |-> now + 1]]
      /\ UNCHANGED <<ledger, cached, answering, calls, crashes, pane, written,
                     grown, sound, read, attaches>>
  BY DEF SignOff, Inv, TypeOK, AgentUnchanged
<1>2. /\ signal' \in [Node -> Signal] /\ signal'[n].ts = now + 1
      /\ \A m \in Node : m # n => signal'[m] = signal[m]
  <2>1. [kind |-> kind, ts |-> now + 1] \in Signal
    BY <1>1 DEF Signal
  <2> QED
    BY <1>1, <2>1 DEF TypeOK
<1>3. TypeOK'
  BY <1>1, <1>2 DEF TypeOK, ledger
<1>4. WakeInv(n)' /\ SnapInv(n)'
  BY <1>1 DEF NodeInv, WakeInv, SnapInv, ledger
<1>5. ClockInv(n)'
  <2>1. bindings[n].stampedAt \in Nat
    BY <1>1 DEF TypeOK, Binding
  <2> QED
    BY <1>1, <1>2, <2>1 DEF NodeInv, ClockInv, ledger
<1>6. VisitInv(n)'
  BY <1>1 DEF NodeInv, VisitInv, At, PaneActivity, ledger
<1>7. \A m \in Node : m # n => Untouched(m)
  BY <1>1, <1>2 DEF Untouched, TypeOK, ledger
<1> QED
  BY <1>1, <1>3, <1>4, <1>5, <1>6, <1>7, AsideKeepsInv DEF NodeInv

\* Artifacts that are completed are nobody's concern here.
LEMMA CompleteArtifactsKeepsInv ==
    ASSUME Inv, NEW n \in Node, CompleteArtifacts(n)
    PROVE  Inv'
<1>1. /\ NodeInv(n) /\ TypeOK /\ tick' = tick /\ sound' \in SUBSET Node
      /\ UNCHANGED <<ledger, cached, answering, calls, crashes, pane, written,
                     grown, signal, read, now, signs, attaches>>
  BY DEF CompleteArtifacts, Inv, TypeOK, AgentUnchanged
<1>2. TypeOK'
  BY <1>1 DEF TypeOK, ledger
<1>3. NodeInv(n)'
  BY <1>1 DEF NodeInv, WakeInv, SnapInv, ClockInv, VisitInv, At,
     PaneActivity, HasLegitWaitingReason, EscalationAnswered, ledger
<1>4. \A m \in Node : m # n => Untouched(m)
  BY <1>1 DEF Untouched, TypeOK, ledger
<1> QED
  BY <1>1, <1>2, <1>3, <1>4, AsideKeepsInv

\* Every step of an agent keeps the invariant.
LEMMA AgentKeepsInv ==
    ASSUME Inv, NEW n \in Node, Agent(n)
    PROVE  Inv'
<1>1. CASE Boot(n) \/ EndTurn(n) \/ Detach(n)
  BY <1>1, QuietPaneKeepsInv DEF Boot, EndTurn, Detach, Inv, TypeOK
<1>2. CASE Attach(n)
  <2>1. attaches' \in Nat
    BY <1>2 DEF Attach, Inv, TypeOK
  <2> QED
    BY <1>2, <2>1, QuietPaneKeepsInv DEF Attach
<1>3. CASE Die(n)
  BY <1>3, QuietPaneKeepsInv DEF Die, Inv, TypeOK
<1> QED
  BY <1>1, <1>2, <1>3, WorkKeepsInv, SignOffKeepsInv,
     CompleteArtifactsKeepsInv DEF Agent

-----------------------------------------------------------------------------
(* The theorems. *)

\* Every step of the specification keeps the invariant.
LEMMA NextKeepsInv == Inv /\ [Next]_vars => Inv'
<1> SUFFICES ASSUME Inv, [Next]_vars PROVE Inv'
  OBVIOUS
<1>1. CASE Poll \/ WakeAnswered \/ Crash
  BY <1>1, PollKeepsInv, WakeAnsweredKeepsInv, CrashKeepsInv
<1>2. CASE \E n \in Node : Live(n) /\ Agent(n)
  BY <1>2, AgentKeepsInv
<1>3. CASE \E n \in Node : Client(n)
  BY <1>3, AnswerKeepsInv, PausesKeepInv DEF Client
<1>4. CASE UNCHANGED vars
  BY <1>4 DEF vars, ledger, agent, spent, Inv, TypeOK, NodeInv, WakeInv,
     SnapInv, VisitInv, ClockInv, At, PaneActivity, HasLegitWaitingReason,
     EscalationAnswered
<1> QED
  BY <1>1, <1>2, <1>3, <1>4 DEF Next

(***************************************************************************)
(* The invariant holds in every reachable state, for any tree and bounds.   *)
(***************************************************************************)
THEOREM Invariance == Spec => []Inv
BY InvInit, NextKeepsInv, PTL DEF Spec

(***************************************************************************)
(* Every variable keeps its type and the counter of the ladder its grace,   *)
(* although a rung is judged by a snapshot and written to the ledger.       *)
(***************************************************************************)
THEOREM TypeCorrect == Spec => []TypeOK
<1>1. Inv => TypeOK
  BY DEF Inv
<1> QED
  BY <1>1, Invariance, PTL

(***************************************************************************)
(* Nothing is acknowledged that its agent has not read, whatever is         *)
(* swallowed, crossed by a line or cut by a crash.                          *)
(***************************************************************************)
THEOREM AckedOnlyWhatIsRead == Spec => []AckedIsRead
<1>1. Inv => AckedIsRead
  BY DEF Inv, NodeInv, WakeInv, AckedIsRead
<1> QED
  BY <1>1, Invariance, PTL

(***************************************************************************)
(* The ladder fails no leaf that works or holds its slot for an answer,     *)
(* although it decides a step before it acts.                               *)
(***************************************************************************)
THEOREM FailsOnlyTheSilent == Spec => NonresponseIsHonest
<1>1. Inv => [\A n \in Node : Failed(n) => ~PaneActivity(n)
                                           /\ ~HasLegitWaitingReason(n)]_vars
  BY DEF Inv, NodeInv, VisitInv, Failed
<1> QED
  BY <1>1, Invariance, PTL DEF NonresponseIsHonest

=============================================================================
