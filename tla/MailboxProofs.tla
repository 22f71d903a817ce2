---------------------------- MODULE MailboxProofs ----------------------------
(***************************************************************************)
(* Proofs about what the watchdog's inboxes are for, for every tree and     *)
(* every bound: that a completion leaves its line with the parent, and that *)
(* inboxes, nudges and watermarks implement the abstract mailbox.  Both     *)
(* rest on the invariant of WatchdogProofs.                                 *)
(***************************************************************************)
EXTENDS WatchdogProofs, FiniteSetTheorems

-----------------------------------------------------------------------------
(* What a parent is owed. *)

\* The kickoff's line is in the inbox: its node is being visited, or was.
Started(p) == tick.leg # "kickoff" \/ p \notin tick.todo \/ tick.at = p

\* The children that are done, but for the one whose line is still to come.
ToldOf(p) == {c \in Node : /\ Parent[c] = p /\ bindings[c].state = "done"
                           /\ ~At(c, "notify")}

\* Unless the daemon has died, a live parent has a line for each of them.
Owed(p) ==
    crashes = 0 /\ Live(p) =>
        inbox[p] >= (IF Started(p) THEN 1 ELSE 0) + Cardinality(ToldOf(p))

\* Nobody ends before the first sweep.
TellInv ==
    /\ tick.leg = "kickoff" => \A n \in Node : bindings[n].state = "running"
    /\ \A p \in Node : Owed(p)

\* The children that were told of are finitely many.
LEMMA ToldFinite ==
    ASSUME NEW p
    PROVE  IsFiniteSet(ToldOf(p)) /\ Cardinality(ToldOf(p)) \in Nat
<1>1. ToldOf(p) \in SUBSET Node
  BY DEF ToldOf
<1>2. IsFiniteSet(ToldOf(p))
  BY <1>1, NodeAssumption, FS_Subset
<1> QED
  BY <1>2, FS_CardinalityType

\* A step that ends nobody's life a second time, tells nobody of more
\* children and takes no line keeps what a parent is owed.
LEMMA OwedKept ==
    ASSUME TypeOK, TypeOK', NEW p \in Node, Owed(p), crashes' = crashes,
           Live(p)' => Live(p), inbox'[p] >= inbox[p],
           ToldOf(p)' \subseteq ToldOf(p), Started(p)' => Started(p)
    PROVE  Owed(p)'
<1>1. inbox[p] \in Nat /\ inbox'[p] \in Nat
  BY DEF TypeOK
<1>2. Cardinality(ToldOf(p)) \in Nat
  BY ToldFinite
<1>3. ToldOf(p)' \in SUBSET ToldOf(p)
  OBVIOUS
<1>4. Cardinality(ToldOf(p)') <= Cardinality(ToldOf(p))
  BY <1>3, ToldFinite, FS_Subset
<1>5. Cardinality(ToldOf(p)') \in Nat
  BY <1>3, ToldFinite, FS_Subset, FS_CardinalityType
<1> HIDE DEF Live, ToldOf, Started
<1> QED
  BY <1>1, <1>2, <1>4, <1>5 DEF Owed

\* No life ends but by the hand of the sweep or the ladder.
StatesKept ==
    \A n \in Node :
        \/ bindings'[n].state = bindings[n].state
        \/ tick.leg # "kickoff" /\ bindings'[n].state \in {"dead", "failed"}

\* The poll thread does not leave a node whose parent it is to tell, nor
\* return to the kickoffs.
PlaceKept ==
    /\ tick'.leg = "kickoff" => tick.leg = "kickoff"
    /\ \A n \in Node : At(n, "notify") => tick' = tick
    /\ \A p \in Node : Started(p)' => Started(p)

\* Such a step keeps what every parent is owed.
LEMMA QuietTells ==
    ASSUME Inv, TypeOK', TellInv, StatesKept, PlaceKept, crashes' = crashes,
           \A n \in Node : inbox'[n] >= inbox[n]
    PROVE  TellInv'
<1>1. tick'.leg = "kickoff" => \A n \in Node : bindings'[n].state = "running"
  BY DEF TellInv, StatesKept, PlaceKept
<1>2. ASSUME NEW p \in Node PROVE Owed(p)'
  <2>1. Live(p)' => Live(p)
    BY DEF StatesKept, Live, IsTerminal, TerminalStates
  <2>2. ToldOf(p)' \subseteq ToldOf(p)
    BY DEF ToldOf, StatesKept, PlaceKept, At
  <2> QED
    BY <2>1, <2>2, OwedKept DEF Inv, TellInv, PlaceKept
<1> QED
  BY <1>1, <1>2 DEF TellInv

-----------------------------------------------------------------------------
(* The steps. *)

\* No field but the state is the state.
LEMMA OtherFields ==
    ASSUME bindings \in [Node -> Binding], NEW n \in Node,
           NEW v, NEW w,
           \/ bindings' = bindings
           \/ bindings' = [bindings EXCEPT ![n].stampedAt = v]
           \/ bindings' = [bindings EXCEPT ![n].answeredAt = v]
           \/ bindings' = [bindings EXCEPT ![n].stale = v]
           \/ bindings' = [bindings EXCEPT ![n].pending = v]
           \/ bindings' = [bindings EXCEPT ![n].paused = v]
           \/ bindings' = [bindings EXCEPT ![n].acked = v, ![n].pending = w]
    PROVE  StatesKept
BY DEF Binding, StatesKept

\* A visit that is not at the point of telling goes on or ends.
LEMMA VisitPlace ==
    ASSUME Inv, NEW n \in Node, tick.at = n, tick.pc # "notify",
           Leave(n) \/ \E pc \in {"next", "escalate", "refuse", "collapse",
               "notify", "ladder", "fail", "bump", "prod", "wake", "gate",
               "nudge", "record"} : Goto(pc)
    PROVE  PlaceKept
<1>1. /\ tick'.leg = tick.leg
      /\ \/ tick'.todo = tick.todo /\ tick'.at = n
         \/ tick'.todo = tick.todo \ {n} /\ tick'.at = NoNode
  BY GotoMoves, LeaveMoves DEF Inv, TypeOK, SameLeg
<1>2. \A m \in Node : m # NoNode
  BY TreeAssumption DEF NoNode, NoParent
<1> QED
  BY <1>1, <1>2 DEF PlaceKept, Started, At

\* Between two visits nobody is to be told, and once the kickoffs are over
\* they have all been visited.
LEMMA RestPlace ==
    ASSUME tick.leg = "kickoff" => tick.todo = {},
           \A n \in Node : tick.at # n, tick'.leg # "kickoff"
    PROVE  PlaceKept
BY DEF PlaceKept, Started, At

\* The first state owes nothing.
LEMMA TellInit == Init => TellInv
<1> SUFFICES ASSUME Init PROVE TellInv
  OBVIOUS
<1>1. \A n \in Node : bindings[n].state = "running" /\ inbox[n] = 0
  BY DEF Init, NewBinding
<1>2. ASSUME NEW p \in Node PROVE Owed(p)
  <2>1. ToldOf(p) = {}
    BY <1>1 DEF ToldOf
  <2>2. Cardinality(ToldOf(p)) = 0
    BY <2>1, FS_EmptySet
  <2>3. ~Started(p)
    BY TreeAssumption DEF Init, Started, NoNode, NoParent
  <2> QED
    BY <1>1, <2>2, <2>3 DEF Owed
<1> QED
  BY <1>1, <1>2 DEF TellInv

\* A kickoff begins with the line that it owes.
LEMMA AppendKickoffTells ==
    ASSUME Inv, TypeOK', TellInv, NEW n \in Node, AppendKickoff(n)
    PROVE  TellInv'
<1>1. /\ tick.leg = "kickoff" /\ tick.at = NoNode /\ n \in tick.todo
      /\ UNCHANGED <<bindings, crashes>> /\ TypeOK
  BY DEF AppendKickoff, Inv, spent
<1>2. /\ tick'.leg = "kickoff" /\ tick'.at = n /\ tick'.pc = "gate"
      /\ tick'.todo = tick.todo
  BY <1>1 DEF AppendKickoff, TypeOK, Tick
<1>3. /\ inbox'[n] = inbox[n] + 1 /\ \A m \in Node : inbox'[m] >= inbox[m]
      /\ \A m \in Node : inbox[m] \in Nat
  BY <1>1, LineAppended DEF AppendKickoff, TypeOK
<1>4. \A m \in Node : m # NoNode
  BY TreeAssumption DEF NoNode, NoParent
<1>5. \A p \in Node : ToldOf(p)' = {} /\ ToldOf(p) = {}
  BY <1>1 DEF ToldOf, TellInv
<1>6. ASSUME NEW p \in Node PROVE Owed(p)'
  <2>1. Cardinality(ToldOf(p)) = 0 /\ Cardinality(ToldOf(p)') = 0
    BY <1>5, FS_EmptySet
  <2>2. CASE p = n
    BY <1>3, <2>1, <2>2 DEF Owed
  <2>3. CASE p # n
    <3>1. Started(p)' => Started(p)
      BY <1>1, <1>2, <2>3 DEF Started
    <3>2. Live(p)' => Live(p)
      BY <1>1 DEF Live
    <3> QED
      BY <1>1, <1>3, <1>5, <3>1, <3>2, OwedKept DEF TellInv
  <2> QED
    BY <2>2, <2>3
<1> QED
  BY <1>1, <1>6 DEF TellInv

\* A collapse is told of in the next step, and not before.
LEMMA CollapseTells ==
    ASSUME Inv, TypeOK', TellInv, NEW n \in Node, Collapse(n)
    PROVE  TellInv'
<1>1. /\ tick.at = n /\ tick.pc = "collapse" /\ tick.leg # "kickoff"
      /\ UNCHANGED <<inbox, crashes>> /\ TypeOK
  BY DEF Collapse, At, Inv, NodeInv, VisitInv, AfterResolve, spent
<1>2. /\ tick'.leg = tick.leg /\ tick'.at = n /\ tick'.pc = "notify"
  BY <1>1, GotoMoves DEF Collapse, TypeOK, SameLeg
<1>3. PICK v \in {"done", "failed"} :
          bindings' = [bindings EXCEPT ![n].state = v]
  BY DEF Collapse
<1>4. /\ bindings'[n].state = v
      /\ \A m \in Node : m # n => bindings'[m] = bindings[m]
  BY <1>1, <1>3, StateChanges DEF TypeOK, OnlyOf, KnownStates
<1>5. ASSUME NEW p \in Node PROVE Owed(p)'
  <2>1. ToldOf(p)' \subseteq ToldOf(p)
    BY <1>1, <1>2, <1>4 DEF ToldOf, At
  <2>2. Live(p)' => Live(p)
    BY <1>4 DEF Live, IsTerminal, TerminalStates
  <2>3. inbox'[p] >= inbox[p]
    BY <1>1 DEF TypeOK
  <2> QED
    BY <1>1, <1>2, <2>1, <2>2, <2>3, OwedKept DEF TellInv, Started
<1> QED
  BY <1>1, <1>2, <1>5 DEF TellInv

\* The line is put into the inbox of the parent, if it lives, of nobody else.
LEMMA NotifyParentTells ==
    ASSUME Inv, TypeOK', TellInv, NEW n \in Node, NotifyParent(n)
    PROVE  TellInv'
<1>1. /\ tick.at = n /\ tick.pc = "notify" /\ tick.leg # "kickoff"
      /\ UNCHANGED <<bindings, crashes>> /\ TypeOK
  BY DEF NotifyParent, At, Inv, NodeInv, VisitInv, AfterResolve, spent
<1>2. /\ tick'.leg = tick.leg /\ tick'.at = n /\ tick'.pc = "wake"
  BY <1>1, GotoMoves DEF NotifyParent, TypeOK, SameLeg
<1>3. ASSUME NEW p \in Node, p # Parent[n] PROVE Owed(p)'
  <2>1. ToldOf(p)' \subseteq ToldOf(p)
    BY <1>1, <1>2, <1>3 DEF ToldOf, At
  <2>2. Live(p)' => Live(p)
    BY <1>1 DEF Live
  <2>3. inbox'[p] >= inbox[p]
    <3>1. inbox[p] \in Nat
      BY <1>1 DEF TypeOK
    <3>2. CASE UNCHANGED inbox
      BY <3>1, <3>2
    <3>3. CASE Parent[n] # NoParent /\ AppendLine(Parent[n])
      BY <1>1, <3>3, LineAppended, TreeAssumption DEF TypeOK
    <3> QED
      BY <3>2, <3>3 DEF NotifyParent
  <2> QED
    BY <1>1, <1>2, <2>1, <2>2, <2>3, OwedKept DEF TellInv, Started
<1>4. ASSUME NEW p \in Node, p = Parent[n], Live(p)', crashes' = 0
      PROVE  Owed(p)'
  <2>1. p # NoParent /\ Live(p)
    BY <1>1, <1>4, TreeAssumption DEF Live
  <2>2. inbox[p] \in Nat /\ inbox'[p] = inbox[p] + 1
    BY <1>1, <1>4, <2>1, LineAppended DEF NotifyParent, TypeOK
  <2>3. /\ IsFiniteSet(ToldOf(p)) /\ Cardinality(ToldOf(p)) \in Nat
    BY ToldFinite
  <2>4. ToldOf(p)' \in SUBSET (ToldOf(p) \cup {n})
    BY <1>1, <1>2 DEF ToldOf, At
  <2>5. /\ IsFiniteSet(ToldOf(p) \cup {n})
        /\ Cardinality(ToldOf(p) \cup {n}) <= Cardinality(ToldOf(p)) + 1
    <3>1. /\ IsFiniteSet(ToldOf(p) \cup {n})
          /\ Cardinality(ToldOf(p) \cup {n}) =
                 IF n \in ToldOf(p) THEN Cardinality(ToldOf(p))
                 ELSE Cardinality(ToldOf(p)) + 1
      BY <2>3, FS_AddElement, Zenon
    <3> QED
      BY <2>3, <3>1
  <2>6. /\ Cardinality(ToldOf(p)') <= Cardinality(ToldOf(p) \cup {n})
        /\ Cardinality(ToldOf(p)') \in Nat
        /\ Cardinality(ToldOf(p) \cup {n}) \in Nat
    BY <2>4, <2>5, FS_Subset, FS_CardinalityType
  <2>7. inbox[p] >= 1 + Cardinality(ToldOf(p))
    BY <1>1, <1>4, <2>1 DEF TellInv, Owed, Started
  <2>8. inbox'[p] >= 1 + Cardinality(ToldOf(p)')
    BY <2>2, <2>3, <2>5, <2>6, <2>7
  <2> QED
    BY <1>1, <1>2, <2>8 DEF Owed, Started
<1>5. \A p \in Node : Owed(p)'
  BY <1>3, <1>4 DEF Owed
<1> QED
  BY <1>1, <1>2, <1>5 DEF TellInv

\* No other step has anything to do with it.  Between two visits:
LEMMA RestTells ==
    ASSUME Inv, TypeOK', TellInv, EndKickoffs \/ Sweep \/ EndTick
    PROVE  TellInv'
<1>1. \A n \in Node : tick.at # n
  BY TreeAssumption
     DEF EndKickoffs, Sweep, EndTick, Inv, NodeInv, VisitInv, NoNode, NoParent
<1>2. /\ tick'.leg # "kickoff"
      /\ tick.leg = "kickoff" => tick.todo = {}
      /\ crashes' = crashes /\ inbox' = inbox
  BY DEF EndKickoffs, Sweep, EndTick, Inv, TypeOK, Tick, ledger, spent
<1>3. PlaceKept
  BY <1>1, <1>2, RestPlace
<1>4. StatesKept
  <2>1. bindings \in [Node -> Binding]
    BY DEF Inv, TypeOK
  <2>2. CASE Sweep
    <3>1. ASSUME NEW n \in Node
          PROVE  \/ bindings'[n].state = bindings[n].state
                 \/ bindings'[n].state \in {"dead", "failed"}
      <4> DEFINE v == IF IsCoordinator(n) THEN "dead" ELSE "failed"
      <4>1. \/ bindings'[n] = bindings[n]
            \/ bindings'[n] = [bindings[n] EXCEPT !.state = v]
        BY <2>2 DEF Sweep
      <4>2. v \in {"dead", "failed"}
        OBVIOUS
      <4> HIDE DEF v
      <4> QED
        BY <2>1, <4>1, <4>2 DEF Binding
    <3> QED
      BY <2>2, <3>1 DEF StatesKept, Sweep
  <2>3. CASE EndKickoffs \/ EndTick
    BY <2>3 DEF EndKickoffs, EndTick, StatesKept, ledger
  <2> QED
    BY <2>2, <2>3
<1>5. \A n \in Node : inbox'[n] >= inbox[n]
  BY <1>2 DEF Inv, TypeOK
<1> QED
  BY <1>2, <1>3, <1>4, <1>5, QuietTells

\* In a visit:
LEMMA VisitTells ==
    ASSUME Inv, TypeOK', TellInv, NEW n \in Node,
           \/ AwaitKickoffGate(n) \/ Escalate(n) \/ RefuseDone(n)
           \/ Judge(n) \/ FailNonresponsive(n) \/ Bump(n) \/ Prod(n)
           \/ ResolveWake(n) \/ WakeGate(n) \/ Nudge(n)
           \/ RecordWakePending(n)
    PROVE  TellInv'
<1>1. /\ tick.at = n /\ tick.pc # "notify" /\ crashes' = crashes
      /\ tick.pc = "fail" => tick.leg # "kickoff"
      /\ bindings \in [Node -> Binding] /\ inbox \in [Node -> Nat]
  BY DEF AwaitKickoffGate, Escalate, RefuseDone, Judge, FailNonresponsive,
     Bump, Prod, ResolveWake, WakeGate, Nudge, RecordWakePending, At, Inv,
     TypeOK, NodeInv, VisitInv, AfterResolve, spent
<1>2. PlaceKept
  <2>1. CASE WakeGate(n) /\ ProdPrecondition(n)
    <3>1. tick'.leg = tick.leg /\ tick'.todo = tick.todo /\ tick'.at = n
      BY <1>1, <2>1 DEF WakeGate, Inv, TypeOK, Tick
    <3> QED
      BY <1>1, <3>1, TreeAssumption
         DEF PlaceKept, Started, At, NoNode, NoParent
  <2>2. CASE ~(WakeGate(n) /\ ProdPrecondition(n))
    <3>1. Leave(n) \/ \E pc \in {"next", "escalate", "refuse", "collapse",
              "notify", "ladder", "fail", "bump", "prod", "wake", "gate",
              "nudge", "record"} : Goto(pc)
      BY <2>2 DEF AwaitKickoffGate, Escalate, RefuseDone, Judge, Policy,
         FailNonresponsive, Bump, Prod, ResolveWake, WakeGate, Nudge,
         RecordWakePending
    <3> QED
      BY <1>1, <3>1, VisitPlace
  <2> QED
    BY <2>1, <2>2
<1>3. StatesKept
  <2>1. CASE FailNonresponsive(n)
    <3>1. bindings' = [bindings EXCEPT ![n].state = "failed"]
      BY <2>1 DEF FailNonresponsive
    <3>2. /\ bindings'[n].state = "failed"
          /\ \A m \in Node : m # n => bindings'[m] = bindings[m]
      BY <1>1, <3>1, StateChanges DEF OnlyOf, KnownStates
    <3> QED
      BY <1>1, <2>1, <3>2 DEF StatesKept, FailNonresponsive, At
  <2>2. CASE ~FailNonresponsive(n)
    <3>1. PICK v, w :
              \/ bindings' = bindings
              \/ bindings' = [bindings EXCEPT ![n].stampedAt = v]
              \/ bindings' = [bindings EXCEPT ![n].stale = v]
              \/ bindings' = [bindings EXCEPT ![n].pending = v]
              \/ bindings' = [bindings EXCEPT ![n].acked = v, ![n].pending = w]
      BY <2>2 DEF AwaitKickoffGate, Escalate, RefuseDone, Judge, Bump, Prod,
         ResolveWake, AckInbox, WakeGate, Nudge, RecordWakePending, ledger
    <3> QED
      BY <1>1, <3>1 DEF Binding, StatesKept
  <2> QED
    BY <2>1, <2>2
<1>4. \A m \in Node : inbox'[m] >= inbox[m]
  <2>1. inbox' = inbox \/ AppendLine(n)
    BY DEF AwaitKickoffGate, Escalate, RefuseDone, Judge, FailNonresponsive,
       Bump, Prod, ResolveWake, WakeGate, Nudge, RecordWakePending, ledger
  <2> QED
    BY <1>1, <2>1, LineAppended
<1> QED
  BY <1>1, <1>2, <1>3, <1>4, QuietTells

\* On the way to one:
LEMMA ReadSignalTells ==
    ASSUME Inv, TypeOK', TellInv, NEW n \in Node, ReadSignal(n)
    PROVE  TellInv'
<1>1. /\ UNCHANGED <<bindings, inbox, crashes>>
      /\ tick.leg = "watch" /\ tick.at = NoNode
      /\ tick'.leg = tick.leg
  <2>1. PICK pc, sig : Arrive(n, pc, sig)
    BY DEF ReadSignal
  <2> QED
    BY <2>1 DEF ReadSignal, Arrive, Inv, TypeOK, Tick, ledger, spent
<1>2. PlaceKept
  BY <1>1, TreeAssumption DEF PlaceKept, Started, At, NoNode, NoParent
<1>3. StatesKept /\ \A m \in Node : inbox'[m] >= inbox[m]
  BY <1>1 DEF StatesKept, Inv, TypeOK
<1> QED
  BY <1>1, <1>2, <1>3, QuietTells

\* Beside it:
LEMMA AsideTells ==
    ASSUME Inv, TypeOK', TellInv,
           \/ WakeAnswered
           \/ \E n \in Node : Agent(n) \/ Client(n)
    PROVE  TellInv'
<1>1. /\ tick' = tick /\ crashes' = crashes
      /\ inbox' = inbox \/ \E k \in Node : AppendLine(k)
  <2>1. CASE WakeAnswered
    BY <2>1, TreeAssumption DEF WakeAnswered, Inv, TypeOK, spent
  <2>2. CASE \E n \in Node : Client(n)
    BY <2>2 DEF Client, Answer, Pause, Resume, spent
  <2>3. CASE \E n \in Node : Agent(n)
    BY <2>3 DEF Agent, AgentUnchanged, Boot, Work, EndTurn, SignOff,
       CompleteArtifacts, Attach, Detach, Die, ledger
  <2> QED
    BY <2>1, <2>2, <2>3
<1>2. PlaceKept
  BY <1>1 DEF PlaceKept, Started
<1>3. StatesKept
  <2>1. \E n \in Node : \E v :
            \/ bindings' = bindings
            \/ bindings' = [bindings EXCEPT ![n].answeredAt = v]
            \/ bindings' = [bindings EXCEPT ![n].paused = v]
    <3>1. CASE WakeAnswered
      BY <3>1, TreeAssumption DEF WakeAnswered, Inv, TypeOK
    <3>2. CASE \E n \in Node : Client(n)
      BY <3>2 DEF Client, Answer, Pause, Resume
    <3>3. CASE \E n \in Node : Agent(n)
      BY <3>3 DEF Agent, AgentUnchanged, Boot, Work, EndTurn, SignOff,
         CompleteArtifacts, Attach, Detach, Die, ledger
    <3> QED
      BY <3>1, <3>2, <3>3
  <2> QED
    BY <2>1, OtherFields DEF Inv, TypeOK
<1>4. \A m \in Node : inbox'[m] >= inbox[m]
  BY <1>1, LineAppended DEF Inv, TypeOK
<1> QED
  BY <1>1, <1>2, <1>3, <1>4, QuietTells

\* A daemon that dies owes no more.
LEMMA CrashTells ==
    ASSUME Inv, Crash
    PROVE  TellInv'
<1>1. crashes' # 0 /\ tick'.leg = "sweep"
  BY DEF Crash, Inv, TypeOK, Tick
<1> QED
  BY <1>1 DEF TellInv, Owed

\* Every step keeps what is owed.
LEMMA NextTells == Inv /\ Inv' /\ TellInv /\ [Next]_vars => TellInv'
<1> SUFFICES ASSUME Inv, Inv', TellInv, [Next]_vars PROVE TellInv'
  OBVIOUS
<1>1. TypeOK'
  BY DEF Inv
<1>2. CASE Poll
  BY <1>1, <1>2, RestTells, AppendKickoffTells, ReadSignalTells,
     CollapseTells, NotifyParentTells, VisitTells DEF Poll
<1>3. CASE WakeAnswered \/ \E n \in Node : (Live(n) /\ Agent(n)) \/ Client(n)
  BY <1>1, <1>3, AsideTells
<1>4. CASE Crash
  BY <1>4, CrashTells
<1>5. CASE UNCHANGED vars
  BY <1>5 DEF vars, ledger, spent, TellInv, Owed, Live, Started, ToldOf, At
<1> QED
  BY <1>2, <1>3, <1>4, <1>5 DEF Next

(***************************************************************************)
(* Between two visits a live parent has a line of its own for every child   *)
(* that is done, next to its kickoff, as long as the daemon lives: whatever *)
(* crosses the collapse and the line, and however large the tree is.        *)
(***************************************************************************)
THEOREM DoneAlwaysTold == Spec => []DoneIsTold
<1>1. Init => Inv /\ TellInv
  BY InvInit, TellInit
<1>2. (Inv /\ TellInv) /\ [Next]_vars => (Inv /\ TellInv)'
  BY NextKeepsInv, NextTells
<1>3. Inv /\ TellInv => DoneIsTold
  <2> SUFFICES ASSUME TellInv, crashes = 0, tick.at = NoNode,
                      NEW p \in Node, Live(p),
                      {c \in Node : Parent[c] = p
                                    /\ bindings[c].state = "done"} # {}
               PROVE  inbox[p] >= 1 + Cardinality(
                          {c \in Node : Parent[c] = p
                                        /\ bindings[c].state = "done"})
    BY DEF DoneIsTold
  <2>1. ToldOf(p) = {c \in Node : Parent[c] = p
                                  /\ bindings[c].state = "done"}
    BY TreeAssumption DEF ToldOf, At, NoNode, NoParent
  <2>2. Started(p)
    BY DEF Started, TellInv
  <2> QED
    BY <2>1, <2>2 DEF TellInv, Owed
<1> QED
  BY <1>1, <1>2, <1>3, PTL DEF Spec

-----------------------------------------------------------------------------
(* The mailbox. *)

\* Watermark, nudge in flight, snapshot and captured size of a node: a nudge
\* that is in flight, and one that is about to be, covers more than was
\* acknowledged and no less than the one before it.
MailInv(n) ==
    /\ bindings[n].pending = NoPending \/ bindings[n].acked < bindings[n].pending
    /\ tick.leg = "kickoff" => bindings[n].acked = 0
    /\ tick.leg = "kickoff" /\ n \in tick.todo =>
           bindings[n].pending = NoPending
    /\ tick.leg = "watch" /\ n \in tick.todo
          /\ (tick.at # n \/ tick.pc \notin AfterResolve) =>
               tick.snap[n].acked = bindings[n].acked
    /\ tick.leg = "watch" /\ At(n, "gate") => bindings[n].acked < inbox[n]
    /\ tick.leg = "kickoff" /\ At(n, "gate") => bindings[n].acked < tick.size
    /\ At(n, "nudge") \/ At(n, "record") =>
           bindings[n].acked < tick.size /\ bindings[n].pending <= tick.size

AllMail == \A n \in Node : MailInv(n)

\* The watermarks and the nudges in flight are left alone.
WakesKept == \A n \in Node : SameWake(n)

\* So they are by a step at n that leaves those of n alone.
LEMMA OneWakeKept ==
    ASSUME NEW n \in Node, OnlyOf(n), SameWake(n)
    PROVE  WakesKept
BY DEF OnlyOf, SameWake, WakesKept

\* Or by one that leaves all bindings alone.
LEMMA BindingsKept ==
    ASSUME bindings' = bindings
    PROVE  WakesKept
BY DEF SameWake, WakesKept

\* A step beside the poll thread's keeps the invariant.
LEMMA AsideMail ==
    ASSUME TypeOK, TypeOK', AllMail, tick' = tick, WakesKept,
           \A n \in Node : inbox'[n] >= inbox[n]
    PROVE  AllMail'
<1> SUFFICES ASSUME NEW n \in Node PROVE MailInv(n)'
  BY DEF AllMail
<1>1. MailInv(n) /\ SameWake(n)
  BY DEF AllMail, WakesKept
<1>2. /\ bindings[n].acked \in Nat /\ inbox[n] \in Nat /\ inbox'[n] \in Nat
  BY DEF TypeOK, Binding
<1> QED
  BY <1>1, <1>2 DEF MailInv, SameWake, At

\* A visit to n owes the invariant of n alone.
LEMMA VisitMail ==
    ASSUME AllMail, SameLeg, NEW n \in Node,
           tick.at \in {n, NoNode}, tick'.at \in {n, NoNode},
           tick'.todo \subseteq tick.todo,
           \A m \in Node : m # n => SameWake(m),
           MailInv(n)'
    PROVE  AllMail'
<1> SUFFICES ASSUME NEW m \in Node, m # n PROVE MailInv(m)'
  BY DEF AllMail
<1>1. MailInv(m) /\ SameWake(m)
  BY DEF AllMail
<1>2. tick.at # m /\ tick'.at # m
  BY TreeAssumption DEF NoNode, NoParent
<1> QED
  BY <1>1, <1>2 DEF MailInv, SameWake, SameLeg, At

\* Before the wake of its visit, and after the visit, a node is as it was.
LEMMA PlainVisitMail ==
    ASSUME AllMail, SameLeg, WakesKept, NEW n \in Node,
           tick.at \in {n, NoNode},
           \/ /\ tick'.at = NoNode /\ tick'.todo = tick.todo \ {n}
           \/ /\ tick'.at = n /\ tick'.todo = tick.todo
              /\ tick'.pc \notin AfterResolve
              /\ tick.at # n \/ tick.pc \notin AfterResolve
    PROVE  AllMail'
<1>1. MailInv(n) /\ SameWake(n)
  BY DEF AllMail, WakesKept
<1>2. NoNode # n
  BY TreeAssumption DEF NoNode, NoParent
<1>3. MailInv(n)'
  <2>1. CASE tick'.at = NoNode /\ tick'.todo = tick.todo \ {n}
    BY <1>1, <1>2, <2>1 DEF MailInv, SameWake, SameLeg, At
  <2>2. CASE /\ tick'.at = n /\ tick'.todo = tick.todo
             /\ tick'.pc \notin AfterResolve
             /\ tick.at # n \/ tick.pc \notin AfterResolve
    BY <1>1, <2>2 DEF MailInv, SameWake, SameLeg, At, AfterResolve
  <2> QED
    BY <2>1, <2>2
<1> QED
  BY <1>3, VisitMail DEF WakesKept

\* What the mailbox sees of such a step is nothing.
LEMMA MailStutters ==
    ASSUME TypeOK, WakesKept, UNCHANGED <<inbox, read>>
    PROVE  UNCHANGED Mail!mail
BY DEF WakesKept, SameWake, Mail!mail

\* Or a line.
LEMMA MailPuts ==
    ASSUME TypeOK, WakesKept, UNCHANGED read, NEW n \in Node, AppendLine(n)
    PROVE  Mail!Next
<1>1. Mail!Put(n)
  BY DEF WakesKept, SameWake, AppendLine, Mail!Put
<1> QED
  BY <1>1 DEF Mail!Next

\* A step of the mailbox, or none.
MailStep == Mail!Next \/ UNCHANGED Mail!mail

\* A client's verb changes no watermark, and its answer puts one line.
LEMMA ClientMail ==
    ASSUME Inv, TypeOK', AllMail,
           WakeAnswered \/ \E n \in Node : Client(n)
    PROVE  AllMail' /\ MailStep
<1>1. TypeOK /\ tick' = tick /\ UNCHANGED read
  BY DEF Inv, WakeAnswered, Client, Answer, Pause, Resume, agent
<1>2. CASE WakeAnswered
  <2>1. PICK k \in Node : AppendLine(k)
    BY <1>2, TreeAssumption DEF WakeAnswered, Inv, TypeOK
  <2>2. WakesKept
    BY <1>2, BindingsKept DEF WakeAnswered
  <2>3. \A m \in Node : inbox'[m] >= inbox[m]
    BY <1>1, <2>1, LineAppended DEF TypeOK
  <2> QED
    BY <1>1, <2>1, <2>2, <2>3, AsideMail, MailPuts DEF MailStep
<1>3. CASE \E n \in Node : Client(n)
  <2>1. PICK n \in Node : Client(n)
    BY <1>3
  <2>2. WakesKept
    <3>1. CASE Answer(n)
      <4>1. bindings' = [bindings EXCEPT ![n].answeredAt = now + 1]
            /\ now + 1 \in Nat
        BY <1>1, <3>1 DEF Answer, TypeOK
      <4> QED
        BY <1>1, <4>1, AnswerChanges, OneWakeKept DEF TypeOK
    <3>2. CASE Pause(n) \/ Resume(n)
      <4>1. \E v \in BOOLEAN : bindings' = [bindings EXCEPT ![n].paused = v]
        BY <3>2 DEF Pause, Resume
      <4> QED
        BY <1>1, <4>1, PauseChanges, OneWakeKept DEF TypeOK
    <3> QED
      BY <2>1, <3>1, <3>2 DEF Client
  <2>3. inbox' = inbox
    BY <2>1 DEF Client, Answer, Pause, Resume
  <2>4. \A m \in Node : inbox'[m] >= inbox[m]
    BY <1>1, <2>3 DEF TypeOK
  <2> QED
    BY <1>1, <2>2, <2>3, <2>4, AsideMail, MailStutters DEF MailStep
<1> QED
  BY <1>2, <1>3

\* An agent reads its inbox to the end, or does not touch it.
LEMMA AgentMail ==
    ASSUME Inv, TypeOK', AllMail, NEW n \in Node, Agent(n)
    PROVE  AllMail' /\ MailStep
<1>1. /\ TypeOK /\ tick' = tick /\ UNCHANGED <<bindings, inbox>>
      /\ \/ UNCHANGED read
         \/ read' = [read EXCEPT ![n] = inbox[n]]
  BY DEF Inv, TypeOK, Agent, AgentUnchanged, Boot, Work, EndTurn, SignOff,
     CompleteArtifacts, Attach, Detach, Die, ledger
<1>2. WakesKept
  BY <1>1, BindingsKept
<1>3. \A m \in Node : inbox'[m] >= inbox[m]
  BY <1>1 DEF TypeOK
<1>4. AllMail'
  BY <1>1, <1>2, <1>3, AsideMail
<1>5. CASE UNCHANGED read
  BY <1>1, <1>2, <1>4, <1>5, MailStutters DEF MailStep
<1>6. CASE read' = [read EXCEPT ![n] = inbox[n]]
  <2>1. Mail!Read(n)
    BY <1>1, <1>6 DEF Mail!Read
  <2> QED
    BY <1>4, <2>1 DEF MailStep, Mail!Next
<1> QED
  BY <1>1, <1>5, <1>6

\* Between two ticks, and at their beginning, nothing is captured.
LEMMA RestMail ==
    ASSUME Inv, AllMail, EndKickoffs \/ EndTick \/ Crash \/ Sweep
    PROVE  AllMail' /\ MailStep
<1>1. TypeOK /\ UNCHANGED <<inbox, read>>
  BY DEF Inv, EndKickoffs, EndTick, Crash, Sweep, ledger, agent
<1>2. /\ \A n \in Node : tick'.at # n
      /\ \/ tick'.leg = "sweep"
         \/ tick'.leg = "watch" /\ tick'.snap = bindings'
  BY <1>1, TreeAssumption
     DEF EndKickoffs, EndTick, Crash, Sweep, TypeOK, Tick, Inv, NodeInv,
     VisitInv, NoNode, NoParent
<1>3. WakesKept
  <2>1. CASE EndKickoffs \/ EndTick \/ Crash
    BY <2>1, BindingsKept DEF EndKickoffs, EndTick, Crash, ledger
  <2>2. CASE Sweep
    <3> SUFFICES ASSUME NEW n \in Node PROVE SameWake(n)
      BY DEF WakesKept
    <3> DEFINE v == IF IsCoordinator(n) THEN "dead" ELSE "failed"
    <3>1. \/ bindings'[n] = bindings[n]
          \/ bindings'[n] = [bindings[n] EXCEPT !.state = v]
      BY <2>2 DEF Sweep
    <3> HIDE DEF v
    <3> QED
      BY <1>1, <3>1 DEF TypeOK, Binding, SameWake
  <2> QED
    BY <2>1, <2>2
<1>4. ASSUME NEW n \in Node PROVE MailInv(n)'
  BY <1>2, <1>3 DEF AllMail, MailInv, WakesKept, SameWake, At
<1> QED
  BY <1>1, <1>3, <1>4, MailStutters DEF AllMail, MailStep

\* The steps of a visit before the wake leave the watermark alone, and put a
\* line at most.
LEMMA PlainMail ==
    ASSUME Inv, AllMail, NEW n \in Node,
           \/ Escalate(n) \/ RefuseDone(n) \/ Collapse(n) \/ NotifyParent(n)
           \/ Judge(n) \/ FailNonresponsive(n) \/ Bump(n) \/ Prod(n)
    PROVE  AllMail' /\ MailStep
<1>1. /\ TypeOK /\ UNCHANGED read /\ tick.at = n
      /\ tick.pc \notin AfterResolve
  BY DEF Inv, At, AfterResolve, Escalate, RefuseDone, Collapse, NotifyParent,
     Judge, FailNonresponsive, Bump, Prod, agent
<1>2. PICK pc \in {"notify", "ladder", "fail", "bump", "prod", "wake"} :
          Goto(pc)
  BY DEF Escalate, RefuseDone, Collapse, NotifyParent, Judge, Policy,
     FailNonresponsive, Bump, Prod
<1>3. /\ SameLeg /\ tick'.at = n /\ tick'.pc = pc /\ tick'.todo = tick.todo
  BY <1>1, <1>2, GotoMoves DEF TypeOK
<1>4. WakesKept
  <2>1. CASE Escalate(n)
    <3>1. \/ bindings' = bindings
          \/ /\ bindings' = [bindings EXCEPT ![n].stampedAt = now + 1]
             /\ now + 1 \in Nat
      BY <1>1, <2>1 DEF Escalate, TypeOK
    <3> QED
      BY <1>1, <3>1, StampChanges, OneWakeKept, BindingsKept DEF TypeOK
  <2>2. CASE Collapse(n) \/ FailNonresponsive(n)
    <3>1. \E v \in KnownStates : bindings' = [bindings EXCEPT ![n].state = v]
      BY <2>2 DEF Collapse, FailNonresponsive, KnownStates
    <3> QED
      BY <1>1, <3>1, StateChanges, OneWakeKept DEF TypeOK
  <2>3. CASE Judge(n)
    <3>1. \/ bindings' = bindings
          \/ bindings' = [bindings EXCEPT ![n].stale = 0]
      BY <2>3 DEF Judge
    <3>2. 0 \in 0 .. Grace
      BY BoundAssumption
    <3> QED
      BY <1>1, <3>1, <3>2, StaleChanges, OneWakeKept, BindingsKept DEF TypeOK
  <2>4. CASE Bump(n)
    <3>1. bindings' = [bindings EXCEPT ![n].stale = @ + 1]
      BY <2>4 DEF Bump
    <3> QED
      BY <1>1, <3>1 DEF TypeOK, Binding, WakesKept, SameWake
  <2>5. CASE RefuseDone(n) \/ NotifyParent(n) \/ Prod(n)
    BY <2>5, BindingsKept DEF RefuseDone, NotifyParent, Prod, ledger
  <2> QED
    BY <2>1, <2>2, <2>3, <2>4, <2>5
<1>5. pc \notin AfterResolve
  BY DEF AfterResolve
<1>6. AllMail'
  BY <1>1, <1>3, <1>4, <1>5, PlainVisitMail
<1>7. inbox' = inbox \/ \E k \in Node : AppendLine(k)
  BY TreeAssumption DEF Escalate, RefuseDone, Collapse, NotifyParent, Judge,
     FailNonresponsive, Bump, Prod, ledger
<1>8. MailStep
  BY <1>1, <1>4, <1>7, MailStutters, MailPuts DEF MailStep
<1> QED
  BY <1>6, <1>8

\* Nor does the way to a node.
LEMMA ReadSignalMail ==
    ASSUME Inv, AllMail, NEW n \in Node, ReadSignal(n)
    PROVE  AllMail' /\ MailStep
<1>1. /\ TypeOK /\ UNCHANGED <<bindings, inbox, read>>
      /\ tick.at = NoNode
      /\ \E pc \in BeforeRung \cup {"wake"}, sig \in {NoSignal, signal[n]} :
             Arrive(n, pc, sig)
  BY DEF ReadSignal, Inv, BeforeRung, Policy, ledger, agent
<1>2. PICK pc \in BeforeRung \cup {"wake"}, sig \in {NoSignal, signal[n]} :
          Arrive(n, pc, sig)
  BY <1>1
<1>3. sig \in Signal
  BY <1>1 DEF TypeOK, NoSignal, Signal
<1>4. /\ SameLeg /\ tick'.at = n /\ tick'.pc = pc /\ tick'.todo = tick.todo
  BY <1>1, <1>2, <1>3, ArriveMoves DEF TypeOK
<1>5. pc \notin AfterResolve /\ tick.at # n
  BY <1>1, TreeAssumption DEF AfterResolve, BeforeRung, NoNode, NoParent
<1>6. WakesKept
  BY <1>1, BindingsKept
<1> QED
  BY <1>1, <1>4, <1>5, <1>6, PlainVisitMail, MailStutters DEF MailStep

\* A kickoff's line is put before its nudge is thought of.
LEMMA AppendKickoffMail ==
    ASSUME Inv, TypeOK', AllMail, NEW n \in Node, AppendKickoff(n)
    PROVE  AllMail' /\ MailStep
<1>1. /\ TypeOK /\ UNCHANGED <<bindings, read>> /\ AppendLine(n)
      /\ tick.leg = "kickoff" /\ tick.at = NoNode /\ n \in tick.todo
      /\ tick' = [tick EXCEPT !.at = n, !.pc = "gate", !.size = inbox[n] + 1]
  BY DEF AppendKickoff, Inv, agent
<1>2. inbox[n] \in Nat
  BY <1>1 DEF TypeOK
<1>3. /\ SameLeg /\ tick'.at = n /\ tick'.pc = "gate"
      /\ tick'.todo = tick.todo /\ tick'.size = inbox[n] + 1
  BY <1>1, <1>2 DEF TypeOK, Tick, SameLeg
<1>4. WakesKept
  BY <1>1, BindingsKept
<1>5. MailInv(n)'
  BY <1>1, <1>2, <1>3 DEF AllMail, MailInv, SameLeg, At
<1>6. AllMail'
  BY <1>1, <1>3, <1>4, <1>5, VisitMail DEF WakesKept
<1> QED
  BY <1>1, <1>4, <1>6, MailPuts DEF MailStep

\* The gates capture a size that is more than what was acknowledged.
LEMMA GatesMail ==
    ASSUME Inv, AllMail, NEW n \in Node,
           AwaitKickoffGate(n) \/ WakeGate(n) \/ Nudge(n)
    PROVE  AllMail' /\ MailStep
<1>1. /\ TypeOK /\ UNCHANGED <<bindings, inbox, read>>
      /\ tick.at = n /\ NodeInv(n) /\ MailInv(n)
      /\ n \in tick.todo
  BY DEF AwaitKickoffGate, WakeGate, Nudge, Inv, At, AllMail, ledger, agent,
     NodeInv, VisitInv
<1>2. WakesKept
  BY <1>1, BindingsKept
<1>3. MailStep
  BY <1>1, <1>2, MailStutters DEF MailStep
<1>4. CASE Leave(n)
  <2>1. SameLeg /\ tick'.at = NoNode /\ tick'.todo = tick.todo \ {n}
    BY <1>1, <1>4, LeaveMoves DEF TypeOK
  <2> QED
    BY <1>1, <1>2, <1>3, <2>1, PlainVisitMail
<1>5. CASE AwaitKickoffGate(n) /\ Goto("nudge")
  <2>1. /\ SameLeg /\ tick'.at = n /\ tick'.pc = "nudge"
        /\ tick'.todo = tick.todo /\ tick'.size = tick.size
    BY <1>1, <1>5, GotoMoves DEF TypeOK
  <2>2. /\ bindings[n].acked < tick.size /\ bindings[n].pending = NoPending
        /\ tick.size \in Nat
    BY <1>1, <1>5 DEF AwaitKickoffGate, MailInv, At, TypeOK, Tick
  <2>3. MailInv(n)'
    BY <1>1, <2>1, <2>2
       DEF MailInv, SameLeg, At, AfterResolve, NoPending
  <2> QED
    BY <1>1, <1>2, <1>3, <2>1, <2>3, VisitMail DEF WakesKept
<1>6. CASE WakeGate(n) /\ ProdPrecondition(n)
  <2>1. inbox[n] \in Nat
    BY <1>1 DEF TypeOK
  <2>2. /\ SameLeg /\ tick'.at = n /\ tick'.pc = "nudge"
        /\ tick'.todo = tick.todo /\ tick'.size = inbox[n]
    BY <1>1, <1>6, <2>1 DEF WakeGate, TypeOK, Tick, SameLeg
  <2>3. /\ bindings[n].acked < inbox[n] /\ bindings[n].pending <= inbox[n]
        /\ tick.leg = "watch"
    BY <1>1, <1>6 DEF WakeGate, MailInv, NodeInv, WakeInv, At
  <2>4. MailInv(n)'
    BY <1>1, <2>2, <2>3 DEF MailInv, SameLeg, At, AfterResolve
  <2> QED
    BY <1>1, <1>2, <1>3, <2>2, <2>4, VisitMail DEF WakesKept
<1>7. CASE Nudge(n) /\ Goto("record")
  <2>1. /\ SameLeg /\ tick'.at = n /\ tick'.pc = "record"
        /\ tick'.todo = tick.todo /\ tick'.size = tick.size
    BY <1>1, <1>7, GotoMoves DEF TypeOK
  <2>2. tick.pc = "nudge"
    BY <1>7 DEF Nudge, At
  <2>3. MailInv(n)'
    BY <1>1, <2>1, <2>2 DEF MailInv, SameLeg, At, AfterResolve
  <2> QED
    BY <1>1, <1>2, <1>3, <2>1, <2>3, VisitMail DEF WakesKept
<1> QED
  BY <1>4, <1>5, <1>6, <1>7 DEF AwaitKickoffGate, WakeGate, Nudge

\* What is recorded covers more than what was acknowledged, and no less than
\* what it replaces.
LEMMA RecordMail ==
    ASSUME Inv, AllMail, NEW n \in Node, RecordWakePending(n)
    PROVE  AllMail' /\ MailStep
<1>1. /\ TypeOK /\ UNCHANGED <<inbox, read>> /\ Leave(n)
      /\ tick.at = n /\ tick.pc = "record" /\ NodeInv(n) /\ MailInv(n)
      /\ bindings' = [bindings EXCEPT ![n].pending = tick.size]
  BY DEF RecordWakePending, Inv, At, AllMail
<1>2. /\ tick.size \in Nat /\ inbox[n] \in Nat
      /\ bindings[n].pending \in Nat /\ bindings[n].acked \in Nat
  BY <1>1 DEF TypeOK, Tick, Binding
<1>3. /\ OnlyOf(n) /\ bindings'[n].pending = tick.size
      /\ bindings'[n].acked = bindings[n].acked
  BY <1>1, <1>2, PendingChanges DEF TypeOK
<1>4. /\ SameLeg /\ tick'.at = NoNode /\ tick'.todo = tick.todo \ {n}
  BY <1>1, LeaveMoves DEF TypeOK
<1>5. /\ bindings[n].acked < tick.size /\ bindings[n].pending <= tick.size
      /\ tick.size <= inbox[n]
  BY <1>1 DEF MailInv, NodeInv, VisitInv, At
<1>6. NoNode # n
  BY TreeAssumption DEF NoNode, NoParent
<1>7. MailInv(n)'
  BY <1>1, <1>3, <1>4, <1>5, <1>6 DEF MailInv, SameLeg, At
<1>8. AllMail'
  BY <1>1, <1>3, <1>4, <1>7, VisitMail DEF OnlyOf, SameWake
<1>9. Mail!Nudge(n)
  <2>1. [m \in Node |-> bindings'[m].pending] =
            [[m \in Node |-> bindings[m].pending] EXCEPT ![n] = tick.size]
    BY <1>3 DEF OnlyOf
  <2>2. [m \in Node |-> bindings'[m].acked] =
            [m \in Node |-> bindings[m].acked]
    BY <1>3 DEF OnlyOf
  <2>3. tick.size \in bindings[n].pending .. inbox[n]
    BY <1>2, <1>5
  <2> QED
    BY <1>1, <1>5, <2>1, <2>2, <2>3 DEF Mail!Nudge
<1> QED
  BY <1>8, <1>9 DEF MailStep, Mail!Next

\* What is acknowledged is what the nudge in flight covers, and it is read.
LEMMA ResolveMail ==
    ASSUME Inv, AllMail, NEW n \in Node, ResolveWake(n)
    PROVE  AllMail' /\ MailStep
<1> DEFINE seen == tick.snap[n]
<1>1. /\ TypeOK /\ UNCHANGED <<inbox, read>> /\ tick.at = n
      /\ tick.pc = "wake" /\ NodeInv(n) /\ MailInv(n)
  BY DEF ResolveWake, Inv, At, AllMail
<1>2. /\ inbox[n] \in Nat /\ read[n] \in Nat
      /\ bindings[n].pending \in Nat /\ bindings[n].acked \in Nat
  BY <1>1 DEF TypeOK, Binding
<1>3. tick.leg = "watch" /\ n \in tick.todo
  <2>1. tick.leg \in {"kickoff", "sweep", "watch"}
    BY <1>1 DEF TypeOK, Tick
  <2> QED
    BY <1>1, <2>1 DEF NodeInv, VisitInv, AfterResolve
<1>4. seen.pending = bindings[n].pending /\ seen.acked = bindings[n].acked
  BY <1>1, <1>3 DEF NodeInv, SnapInv, MailInv, AfterResolve
<1>5. CASE Leave(n) /\ UNCHANGED bindings
  <2>1. SameLeg /\ tick'.at = NoNode /\ tick'.todo = tick.todo \ {n}
    BY <1>1, <1>5, LeaveMoves DEF TypeOK
  <2>2. WakesKept
    BY <1>5, BindingsKept
  <2> QED
    BY <1>1, <2>1, <2>2, PlainVisitMail, MailStutters DEF MailStep
<1>6. CASE Goto("gate") /\ UNCHANGED bindings /\ seen.acked < inbox[n]
  <2>1. /\ SameLeg /\ tick'.at = n /\ tick'.pc = "gate"
        /\ tick'.todo = tick.todo
    BY <1>1, <1>6, GotoMoves DEF TypeOK
  <2>2. WakesKept
    BY <1>6, BindingsKept
  <2>3. MailInv(n)'
    BY <1>1, <1>3, <1>4, <1>6, <2>1
       DEF MailInv, SameLeg, At, AfterResolve
  <2>4. AllMail'
    BY <1>1, <2>1, <2>2, <2>3, VisitMail DEF WakesKept
  <2> QED
    BY <1>1, <2>2, <2>4, MailStutters DEF MailStep
<1>7. CASE /\ AckInbox(n, seen.pending) /\ ConfirmProdWorked(n)
           /\ seen.pending # NoPending
           /\ Leave(n) \/ (Goto("gate") /\ seen.pending < inbox[n])
  <2>1. /\ OnlyOf(n) /\ bindings'[n].acked = bindings[n].pending
        /\ bindings'[n].pending = NoPending
    <3>1. bindings' = [bindings EXCEPT ![n].acked = bindings[n].pending,
                                       ![n].pending = NoPending]
      BY <1>4, <1>7 DEF AckInbox
    <3> QED
      BY <1>1, <1>2, <3>1, AckChanges DEF TypeOK
  <2>2. /\ bindings[n].acked < bindings[n].pending
        /\ bindings[n].pending <= read[n]
    BY <1>1, <1>4, <1>7
       DEF MailInv, NodeInv, WakeInv, ConfirmProdWorked
  <2>3. Mail!Acknowledge(n)
    <3>1. [m \in Node |-> bindings'[m].acked] =
              [[m \in Node |-> bindings[m].acked]
                 EXCEPT ![n] = bindings[n].pending]
      BY <2>1 DEF OnlyOf
    <3>2. [m \in Node |-> bindings'[m].pending] =
              [[m \in Node |-> bindings[m].pending] EXCEPT ![n] = 0]
      BY <2>1 DEF OnlyOf, NoPending
    <3> QED
      BY <1>1, <2>2, <3>1, <3>2 DEF Mail!Acknowledge
  <2>4. /\ SameLeg /\ tick'.todo \subseteq tick.todo
        /\ \/ tick'.at = NoNode /\ tick'.todo = tick.todo \ {n}
           \/ /\ tick'.at = n /\ tick'.pc = "gate"
              /\ bindings[n].pending < inbox[n]
    <3>1. CASE Leave(n)
      BY <1>1, <3>1, LeaveMoves DEF TypeOK
    <3>2. CASE Goto("gate") /\ seen.pending < inbox[n]
      BY <1>1, <1>4, <3>2, GotoMoves DEF TypeOK
    <3> QED
      BY <1>7, <3>1, <3>2
  <2>5. NoNode # n
    BY TreeAssumption DEF NoNode, NoParent
  <2>6. MailInv(n)'
    BY <1>1, <1>3, <2>1, <2>4, <2>5
       DEF MailInv, SameLeg, At, AfterResolve
  <2>7. AllMail'
    BY <1>1, <2>1, <2>4, <2>6, VisitMail DEF OnlyOf, SameWake
  <2> QED
    BY <2>3, <2>7 DEF MailStep, Mail!Next
<1>8. seen.acked \in Nat /\ seen.pending \in Nat
  BY <1>2, <1>4
<1> QED
  BY <1>2, <1>5, <1>6, <1>7, <1>8 DEF ResolveWake

\* Every step keeps the invariant and is a step of the mailbox.
LEMMA NextMail ==
    Inv /\ Inv' /\ AllMail /\ [Next]_vars => AllMail' /\ MailStep
<1> SUFFICES ASSUME Inv, Inv', AllMail, [Next]_vars
             PROVE  AllMail' /\ MailStep
  OBVIOUS
<1>1. TypeOK'
  BY DEF Inv
<1>2. CASE Poll
  BY <1>1, <1>2, RestMail, AppendKickoffMail, GatesMail, ReadSignalMail,
     PlainMail, ResolveMail, RecordMail DEF Poll
<1>3. CASE WakeAnswered \/ \E n \in Node : Client(n)
  BY <1>1, <1>3, ClientMail
<1>4. CASE \E n \in Node : Live(n) /\ Agent(n)
  BY <1>1, <1>4, AgentMail
<1>5. CASE Crash
  BY <1>5, RestMail
<1>6. CASE UNCHANGED vars
  BY <1>6 DEF vars, ledger, agent, AllMail, MailInv, At, MailStep, Mail!mail
<1> QED
  BY <1>2, <1>3, <1>4, <1>5, <1>6 DEF Next

\* In the first state nothing is in any inbox, or in flight.
LEMMA MailInit == Init => AllMail /\ Mail!Init
<1> SUFFICES ASSUME Init PROVE AllMail /\ Mail!Init
  OBVIOUS
<1>1. \A n \in Node : /\ bindings[n].acked = 0 /\ bindings[n].pending = 0
                      /\ tick.at # n
  BY TreeAssumption DEF Init, NewBinding, NoPending, NoNode, NoParent
<1>2. AllMail
  BY <1>1 DEF Init, AllMail, MailInv, At, NoPending
<1>3. Mail!Init
  BY <1>1 DEF Init, Mail!Init
<1> QED
  BY <1>2, <1>3

(***************************************************************************)
(* The inboxes, the nudges and the watermarks implement the abstract        *)
(* mailbox, for every tree and every number of crashes, verbs and copies:   *)
(* what is acknowledged was covered by the nudge in flight, read, and       *)
(* acknowledged once.                                                       *)
(***************************************************************************)
THEOREM ImplementsMailboxHolds == Spec => ImplementsMailbox
<1>1. Init => Inv /\ AllMail /\ Mail!Init
  BY InvInit, MailInit
<1>2. (Inv /\ AllMail) /\ [Next]_vars => (Inv /\ AllMail)'
  BY NextKeepsInv, NextMail
<1>3. Inv /\ AllMail /\ [Next]_vars => [Mail!Next]_(Mail!mail)
  BY NextKeepsInv, NextMail DEF MailStep
<1> QED
  BY <1>1, <1>2, <1>3, PTL DEF Spec, ImplementsMailbox, Mail!Spec

=============================================================================
