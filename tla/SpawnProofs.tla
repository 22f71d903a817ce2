----------------------------- MODULE SpawnProofs -----------------------------
(***************************************************************************)
(* Proofs about SpawnChokepoint, for every tree of nodes and all bounds:    *)
(* both threads, every verb of a client, actors that do what they like.     *)
(*                                                                          *)
(* Inv says what the threads and the tick rely on at their next step, and   *)
(* has a lemma for what each action does and one that the action keeps it.  *)
(* HolderInv names for each claim the thread, the operation and the step    *)
(* that will see it through or give it back.                                *)
(***************************************************************************)
EXTENDS SpawnChokepoint, TLAPS

-----------------------------------------------------------------------------
(* The invariant that the types rest on. *)

\* What an operation of a thread relies on at its next step.
OpInv(t) ==
    /\ op[t].pc \in {"brief", "fresh"} => bindings[op[t].node] # NoBinding
    /\ op[t].pc \in Claimant => op[t].token # NoToken
    /\ op[t].pc = "collapse" => op[t].aim \in TerminalStates

\* A node that the tick has yet to visit was bound when it was read.
TickInv ==
    /\ tick.leg \in {"sweep", "watch", "redrive"} =>
           \A n \in tick.todo : tick.snap[n] # NoBinding
    /\ tick.leg = "watch" => \A n \in tick.todo : bindings[n] # NoBinding

Inv == TypeOK /\ (\A t \in Thread : OpInv(t)) /\ TickInv

-----------------------------------------------------------------------------
(* Data. *)

\* The greater of two numbers is one of them, and no smaller than either.
LEMMA MaxOfTwo ==
    ASSUME NEW a \in Nat, NEW b \in Nat
    PROVE  Max({a, b}) \in Nat /\ Max({a, b}) >= a /\ Max({a, b}) >= b
BY DEF Max

\* The absence of a binding is no binding, and no thread's rest an operation.
LEMMA Absences == NoBinding \notin Binding /\ NoOp \notin Op
BY DEF NoBinding, Binding, NoOp, Op, PC, KnownStates

\* A bound address has a binding with a known state.
LEMMA BoundIsBinding ==
    ASSUME NEW map \in [Node -> Binding \cup {NoBinding}], NEW n \in Node
    PROVE  /\ map[n] # NoBinding => map[n] \in Binding
           /\ map[n] # NoBinding <=> map[n].state \in KnownStates
           /\ map[n].state # "none" <=> map[n] # NoBinding
           /\ Live(map, n) <=>
                  /\ map[n] \in Binding
                  /\ map[n].state \in NonTerminalStates
<1>1. map[n] \in Binding => map[n].state \in KnownStates
  BY DEF Binding
<1>2. NoBinding.state = "none" /\ "none" \notin KnownStates
  BY DEF NoBinding, KnownStates
<1> QED
  BY <1>1, <1>2, Absences
     DEF Live, IsTerminal, NonTerminalStates

\* A transition moves the state and the generation, and at most the epoch.
LEMMA MovedIs ==
    ASSUME NEW b \in Binding, NEW to \in KnownStates, NEW rotate \in BOOLEAN
    PROVE  /\ Moved(b, to, rotate) \in Binding
           /\ Moved(b, to, rotate).state = to
           /\ Moved(b, to, rotate).gen = b.gen + 1
           /\ Moved(b, to, rotate).epoch =
                  IF rotate THEN b.epoch + 1 ELSE b.epoch
           /\ Moved(b, to, rotate).stamped = b.stamped
           /\ Moved(b, to, rotate).paused = b.paused
<1> DEFINE e == IF rotate THEN b.epoch + 1 ELSE b.epoch
           g == b.gen + 1
<1>1. b.epoch \in Nat /\ b.gen \in Nat
  BY DEF Binding
<1>2. e \in Nat /\ g \in Nat
  BY <1>1
<1> HIDE DEF e, g
<1>3. PICK c : c = [b EXCEPT !.state = to, !.gen = g, !.epoch = e]
  OBVIOUS
<1>4. c \in Binding
  BY <1>2, <1>3 DEF Binding
<1>5. c.state = to /\ c.gen = g /\ c.epoch = e
  BY <1>2, <1>3 DEF Binding
<1>6. c.stamped = b.stamped /\ c.paused = b.paused
  BY <1>2, <1>3 DEF Binding
<1>7. Moved(b, to, rotate) = c
  BY <1>3 DEF Moved, e, g
<1> QED
  BY <1>4, <1>5, <1>6, <1>7 DEF e, g

\* The seed lies above every epoch on record.
LEMMA SeedIsAbove ==
    ASSUME TypeOK, NEW n \in Node
    PROVE  /\ SeedEpoch(n) \in Nat /\ SeedEpoch(n) > walEpoch[n]
           /\ bindings[n] # NoBinding => SeedEpoch(n) > bindings[n].epoch
<1>1. walEpoch[n] \in Nat
  BY DEF TypeOK
<1>2. CASE bindings[n] = NoBinding
  <2>1. SeedEpoch(n) = Max({walEpoch[n], walEpoch[n]}) + 1
    BY <1>2 DEF SeedEpoch
  <2> QED
    BY <1>1, <1>2, <2>1, MaxOfTwo
<1>3. CASE bindings[n] # NoBinding
  <2>1. bindings[n].epoch \in Nat
    BY <1>3 DEF TypeOK, Binding
  <2>2. SeedEpoch(n) = Max({walEpoch[n], bindings[n].epoch}) + 1
    BY <1>3 DEF SeedEpoch
  <2> QED
    BY <1>1, <2>1, <2>2, MaxOfTwo
<1> QED
  BY <1>2, <1>3

-----------------------------------------------------------------------------
(* The ledger. *)

\* One address may have changed, and none has lost its binding.
OnlyLedger(n) ==
    /\ bindings' \in [Node -> Binding \cup {NoBinding}]
    /\ walEpoch' \in [Node -> Nat]
    /\ \A m \in Node : m # n => bindings'[m] = bindings[m]
    /\ bindings'[n] # NoBinding

\* A commit changes one row of the ledger, to the binding that it is given.
LEMMA CommitIs ==
    ASSUME TypeOK, NEW n \in Node, NEW b \in Binding, CommitBinding(n, b)
    PROVE  OnlyLedger(n) /\ bindings'[n] = b
<1>1. b.epoch \in Nat /\ walEpoch[n] \in Nat
  BY DEF Binding, TypeOK
<1>2. Max({walEpoch[n], b.epoch}) \in Nat
  BY <1>1, MaxOfTwo
<1> QED
  BY <1>2, Absences DEF CommitBinding, OnlyLedger, TypeOK

\* The state advances by an edge of the lifecycle, the generation by one.
Advances(n, to, epoch) ==
    /\ OnlyLedger(n)
    /\ bindings[n] \in Binding /\ bindings'[n] \in Binding
    /\ IsLegal(bindings[n].state, to)
    /\ bindings'[n].state = to
    /\ bindings'[n].gen = bindings[n].gen + 1
    /\ bindings'[n].epoch = epoch
    /\ bindings'[n].paused = bindings[n].paused

\* A transition moves the binding of one address.
LEMMA TransitionIs ==
    ASSUME TypeOK, NEW n \in Node, bindings[n] # NoBinding,
           NEW to \in KnownStates, NEW rotate \in BOOLEAN,
           IsLegal(bindings[n].state, to), Transition(n, to, rotate)
    PROVE  /\ Advances(n, to, IF rotate THEN bindings[n].epoch + 1
                                        ELSE bindings[n].epoch)
           /\ bindings'[n].stamped = bindings[n].stamped
<1>1. bindings[n] \in Binding
  BY DEF TypeOK
<1>2. CommitBinding(n, Moved(bindings[n], to, rotate))
  BY DEF Transition
<1>3. Moved(bindings[n], to, rotate) \in Binding
  BY <1>1, MovedIs
<1>4. OnlyLedger(n) /\ bindings'[n] = Moved(bindings[n], to, rotate)
  BY <1>2, <1>3, CommitIs
<1> QED
  BY <1>1, <1>3, <1>4, MovedIs DEF Advances

-----------------------------------------------------------------------------
(* The operations of the threads. *)

OnlyOp(t) ==
    /\ op' \in [Thread -> Op \cup {NoOp}]
    /\ \A u \in Thread : u # t => op'[u] = op[u]

\* An operation goes on with its arguments, or it ends.
Goes(t, pc) ==
    /\ OnlyOp(t) /\ op'[t].pc = pc
    /\ op'[t].node = op[t].node /\ op'[t].token = op[t].token
    /\ op'[t].aim = op[t].aim

Ends(t) == OnlyOp(t) /\ op'[t].pc \in {"idle", "consume", "refuse"}

\* An operation that is under way has all its fields.
LEMMA AtIsOp ==
    ASSUME TypeOK, NEW t \in Thread, op[t].pc \in PC
    PROVE  /\ op[t] \in Op /\ op[t].node \in Node
           /\ op[t].st \in KnownStates /\ op[t].aim \in KnownStates
           /\ op[t].gen \in Nat /\ op[t].token \in Nat
<1>1. NoOp.pc \notin PC
  BY DEF NoOp, PC
<1> QED
  BY <1>1 DEF TypeOK, Op

\* A step onwards changes the place of the operation and nothing else of it.
LEMMA StepIs ==
    ASSUME TypeOK, NEW t \in Thread, op[t].pc \in PC, NEW pc \in PC,
           Step(t, pc)
    PROVE  Goes(t, pc)
BY AtIsOp DEF TypeOK, Step, OnlyOp, Goes, Op

\* An operation that finishes is over, but for its request if it has one.
LEMMA FinishIs ==
    ASSUME TypeOK, NEW t \in Thread, op[t].pc \in PC, NEW ok \in BOOLEAN,
           Finish(t, ok)
    PROVE  Ends(t)
<1>1. op[t] \in Op
  BY AtIsOp
<1>2. CASE op[t].requested
  <2>1. op' = [op EXCEPT ![t] = [@ EXCEPT !.pc = "consume", !.ok = ok]]
    BY <1>2 DEF Finish
  <2> QED
    BY <1>1, <2>1 DEF TypeOK, OnlyOp, Ends, Op, PC
<1>3. CASE ~op[t].requested
  <2>1. op' = [op EXCEPT ![t] = NoOp]
    BY <1>3 DEF Finish
  <2> QED
    BY <2>1 DEF TypeOK, OnlyOp, Ends, NoOp
<1> QED
  BY <1>2, <1>3

\* So is one that raises.
LEMMA RaiseIs ==
    ASSUME TypeOK, NEW t \in Thread, op[t].pc \in PC, Raise(t)
    PROVE  Ends(t)
<1>1. op[t] \in Op
  BY AtIsOp
<1>2. CASE op[t].requested
  <2>1. op' = [op EXCEPT ![t] = [@ EXCEPT !.pc = "refuse"]]
    BY <1>2 DEF Raise
  <2> QED
    BY <1>1, <2>1 DEF TypeOK, OnlyOp, Ends, Op, PC
<1>3. CASE ~op[t].requested
  <2>1. op' = [op EXCEPT ![t] = NoOp]
    BY <1>3 DEF Raise
  <2> QED
    BY <2>1 DEF TypeOK, OnlyOp, Ends, NoOp
<1> QED
  BY <1>2, <1>3

-----------------------------------------------------------------------------
(* What each step of an operation does. *)

FilesOK ==
    /\ pane \in [Node -> [owner : Nat]]
    /\ handshake \in [Node -> Nat]
    /\ signal \in [Node -> [kind : {"none", "done", "failed"}, token : Nat]]
    /\ request \in [Node -> {"none", "pending", "done", "rejected"}]
    /\ briefed \in [Node -> BOOLEAN]

Rest == UNCHANGED <<service, tick, spent>>

\* Without a live parent the spawn of a child ends.
LEMMA CheckParentDoes ==
    ASSUME TypeOK, NEW t \in Thread, CheckParent(t)
    PROVE  /\ Goes(t, "look") \/ Ends(t)
           /\ LedgerUnchanged /\ UNCHANGED <<pane, files>> /\ Rest
<1>1. op[t].pc = "parent" /\ op[t].pc \in PC
  BY DEF CheckParent, At, PC
<1>2. Step(t, "look") \/ Finish(t, FALSE)
  BY DEF CheckParent
<1>3. Goes(t, "look") \/ Ends(t)
  BY <1>1, <1>2, StepIs, FinishIs DEF PC
<1> QED
  BY <1>3 DEF CheckParent, Rest

\* The look tells the seed from the reap from the loss.
LEMMA LookAtChildDoes ==
    ASSUME TypeOK, NEW t \in Thread, LookAtChild(t)
    PROVE  /\ \/ /\ Goes(t, "seed")
                 /\ bindings[op[t].node].state \in {"none", "planned"}
              \/ /\ Goes(t, "reap")
                 /\ bindings[op[t].node].state \in TerminalStates
              \/ Goes(t, "fresh") /\ bindings[op[t].node] # NoBinding
           /\ LedgerUnchanged /\ UNCHANGED <<pane, files>> /\ Rest
<1>1. op[t].pc \in PC
  BY DEF LookAtChild, At, PC
<1>2. op[t] \in Op /\ op[t].node \in Node
  BY <1>1, AtIsOp
<1>3. CASE bindings[op[t].node].state \in {"none", "planned"}
  <2>1. Step(t, "seed")
    BY <1>3 DEF LookAtChild
  <2> QED
    BY <1>1, <1>3, <2>1, StepIs DEF LookAtChild, Rest, PC
<1>4. CASE /\ bindings[op[t].node].state \notin {"none", "planned"}
           /\ IsTerminal(bindings[op[t].node].state)
  <2>1. Step(t, "reap")
    BY <1>4 DEF LookAtChild
  <2> QED
    BY <1>1, <1>4, <2>1, StepIs DEF LookAtChild, Rest, PC, IsTerminal
<1>5. CASE /\ bindings[op[t].node].state \notin {"none", "planned"}
           /\ ~IsTerminal(bindings[op[t].node].state)
  <2>1. bindings[op[t].node] \in Binding
    BY <1>2, <1>5, BoundIsBinding DEF TypeOK
  <2>2. bindings[op[t].node].gen \in Nat
    BY <2>1 DEF Binding
  <2>3. op' = [op EXCEPT ![t].pc = "fresh",
                         ![t].gen = bindings[op[t].node].gen]
    BY <1>5 DEF LookAtChild
  <2>4. Goes(t, "fresh")
    BY <1>2, <2>2, <2>3 DEF TypeOK, Goes, OnlyOp, Op, PC
  <2> QED
    BY <2>1, <2>4, Absences DEF LookAtChild, Rest
<1> QED
  BY <1>3, <1>4, <1>5

\* A pane is torn down or, where tmux fails, left.
LEMMA TearDownDoes ==
    ASSUME NEW n \in Node, TearDown(n)
    PROVE  pane' \in {pane, [pane EXCEPT ![n] = NoPane]}
BY DEF TearDown

\* A node's pane is reaped before it is registered anew.
LEMMA ReapPaneDoes ==
    ASSUME TypeOK, NEW t \in Thread, ReapPane(t)
    PROVE  /\ Goes(t, "seed")
           /\ pane' \in {pane, [pane EXCEPT ![op[t].node] = NoPane]}
           /\ LedgerUnchanged /\ UNCHANGED files /\ Rest
<1>1. op[t].pc \in PC /\ "seed" \in PC
  BY DEF ReapPane, At, PC
<1>2. op[t].node \in Node
  BY <1>1, AtIsOp
<1> QED
  BY <1>1, <1>2, StepIs, TearDownDoes DEF ReapPane, Rest

\* The seed removes the files of an earlier life and fixes the epoch.
LEMMA SeedIdentityDoes ==
    ASSUME TypeOK, NEW t \in Thread, SeedIdentity(t)
    PROVE  /\ \/ /\ OnlyOp(t) /\ op'[t].pc = "write"
                 /\ op'[t].node = op[t].node
                 /\ op'[t].token = SeedEpoch(op[t].node)
                 /\ handshake' = [handshake EXCEPT ![op[t].node] = NoToken]
                 /\ signal' = [signal EXCEPT ![op[t].node] = NoSignal]
              \/ Ends(t) /\ UNCHANGED <<handshake, signal>>
           /\ LedgerUnchanged /\ UNCHANGED <<pane, request, briefed>> /\ Rest
<1>1. op[t].pc \in PC
  BY DEF SeedIdentity, At, PC
<1>2. op[t] \in Op /\ op[t].node \in Node
  BY <1>1, AtIsOp
<1>3. SeedEpoch(op[t].node) \in Nat
  BY <1>2, SeedIsAbove
<1>4. CASE op' = [op EXCEPT ![t].pc = "write", ![t].gen = 0,
                            ![t].token = SeedEpoch(op[t].node)]
  <2>1. /\ OnlyOp(t) /\ op'[t].pc = "write" /\ op'[t].node = op[t].node
        /\ op'[t].token = SeedEpoch(op[t].node)
    BY <1>2, <1>3, <1>4 DEF TypeOK, OnlyOp, Op, PC
  <2>2. ~Raise(t)
    BY <1>1, <2>1, RaiseIs DEF Ends
  <2> QED
    BY <2>1, <2>2 DEF SeedIdentity, Rest
<1>5. CASE Raise(t) /\ UNCHANGED <<handshake, signal>>
  BY <1>1, <1>5, RaiseIs DEF SeedIdentity, Rest
<1> QED
  BY <1>4, <1>5 DEF SeedIdentity

\* The registration writes a planned binding under that epoch.
LEMMA WriteRegistrationDoes ==
    ASSUME TypeOK, NEW t \in Thread, WriteRegistration(t)
    PROVE  /\ Goes(t, "brief")
           /\ OnlyLedger(op[t].node)
           /\ bindings'[op[t].node] =
                  [state |-> "planned", gen |-> 0, epoch |-> op[t].token,
                   stamped |-> FALSE, paused |-> FALSE]
           /\ UNCHANGED <<pane, files>> /\ Rest
<1>1. op[t].pc \in PC /\ "brief" \in PC
  BY DEF WriteRegistration, At, PC
<1>2. op[t].node \in Node /\ op[t].token \in Nat
  BY <1>1, AtIsOp
<1> DEFINE b == [state |-> "planned", gen |-> 0, epoch |-> op[t].token,
                 stamped |-> FALSE, paused |-> FALSE]
<1>3. b \in Binding
  BY <1>2 DEF Binding, KnownStates
<1>4. bindings' = [bindings EXCEPT ![op[t].node] = b]
  BY DEF WriteRegistration
<1>5. OnlyLedger(op[t].node) /\ bindings'[op[t].node] = b
  <2> HIDE DEF b
  <2>1. walEpoch' = walEpoch
    BY DEF WriteRegistration
  <2> QED
    BY <1>2, <1>3, <1>4, <2>1, Absences DEF OnlyLedger, TypeOK
<1> QED
  BY <1>1, <1>5, StepIs DEF WriteRegistration, Rest

\* The brief touches no binding.
LEMMA WriteBriefDoes ==
    ASSUME TypeOK, NEW t \in Thread, OpInv(t), WriteBrief(t)
    PROVE  /\ Goes(t, "fresh")
           /\ walEpoch' \in [Node -> Nat]
           /\ \E v \in BOOLEAN :
                  briefed' = [briefed EXCEPT ![op[t].node] = v]
           /\ UNCHANGED <<bindings, pane, handshake, signal, request>> /\ Rest
<1>1. op[t].pc \in PC /\ "fresh" \in PC
  BY DEF WriteBrief, At, PC
<1>2. op[t].node \in Node
  BY <1>1, AtIsOp
<1>3. bindings[op[t].node] \in Binding
  BY <1>2 DEF WriteBrief, At, OpInv, TypeOK
<1>4. bindings[op[t].node].epoch \in Nat /\ walEpoch[op[t].node] \in Nat
  BY <1>2, <1>3 DEF Binding, TypeOK
<1>5. Max({walEpoch[op[t].node], bindings[op[t].node].epoch}) \in Nat
  BY <1>4, MaxOfTwo
<1>6. walEpoch' \in [Node -> Nat]
  BY <1>2, <1>5 DEF WriteBrief, TypeOK
<1>7. briefed' = [briefed EXCEPT ![op[t].node] = TRUE]
  BY DEF WriteBrief
<1> QED
  BY <1>1, <1>6, <1>7, StepIs DEF WriteBrief, Rest

\* The spawn reads the token that it will claim with.
LEMMA ReadTokenDoes ==
    ASSUME TypeOK, NEW t \in Thread, OpInv(t), ReadToken(t)
    PROVE  /\ OnlyOp(t) /\ op'[t].pc = "pause"
           /\ LedgerUnchanged /\ UNCHANGED <<pane, files>> /\ Rest
<1>1. op[t] \in Op /\ op[t].node \in Node
  BY AtIsOp DEF ReadToken, At, PC
<1>2. bindings[op[t].node] \in Binding
  BY <1>1 DEF ReadToken, At, OpInv, TypeOK
<1>3. bindings[op[t].node].epoch \in Nat
  BY <1>2 DEF Binding
<1>4. OnlyOp(t) /\ op'[t].pc = "pause"
  BY <1>1, <1>3 DEF ReadToken, TypeOK, OnlyOp, Op, PC
<1> QED
  BY <1>4 DEF ReadToken, Rest

\* A paused subtree ends the spawn before its claim.
LEMMA CheckPauseDoes ==
    ASSUME TypeOK, NEW t \in Thread, CheckPause(t)
    PROVE  /\ Goes(t, "claim") \/ Ends(t)
           /\ LedgerUnchanged /\ UNCHANGED <<pane, files>> /\ Rest
<1>1. op[t].pc \in PC /\ "claim" \in PC
  BY DEF CheckPause, At, PC
<1>2. Step(t, "claim") \/ Finish(t, FALSE)
  BY DEF CheckPause
<1>3. Goes(t, "claim") \/ Ends(t)
  BY <1>1, <1>2, StepIs, FinishIs
<1> QED
  BY <1>3 DEF CheckPause, Rest

\* A claim that wins mints the token that the thread then holds.
LEMMA ClaimDoes ==
    ASSUME TypeOK, NEW t \in Thread, Claim(t)
    PROVE  /\ \/ /\ OnlyOp(t) /\ op'[t].pc = "gate"
                 /\ op'[t].node = op[t].node
                 /\ op'[t].token = bindings[op[t].node].epoch + 1
                 /\ Advances(op[t].node, "claimed",
                             bindings[op[t].node].epoch + 1)
              \/ Ends(t) /\ LedgerUnchanged
           /\ UNCHANGED <<pane, files>> /\ Rest
<1>1. op[t].pc \in PC
  BY DEF Claim, At, PC
<1>2. op[t] \in Op /\ op[t].node \in Node
  BY <1>1, AtIsOp
<1> DEFINE n == op[t].node
           wins == /\ Cas(n, op[t].st, op[t].gen, op[t].token)
                   /\ IsLegal(bindings[n].state, "claimed")
                   /\ bindings[n].epoch + 2 <= MaxEpoch
<1>3. CASE wins
  <2>1. bindings[n] # NoBinding /\ IsLegal(bindings[n].state, "claimed")
    BY <1>3 DEF Cas
  <2>2. bindings[n].epoch \in Nat /\ bindings[n].gen \in Nat
    BY <1>2, <2>1 DEF TypeOK, Binding
  <2>3. /\ Transition(n, "claimed", TRUE)
        /\ op' = [op EXCEPT ![t].pc = "gate",
                            ![t].gen = bindings[n].gen + 1,
                            ![t].token = bindings[n].epoch + 1]
    BY <1>3 DEF Claim
  <2>4. Advances(n, "claimed", bindings[n].epoch + 1)
    BY <1>2, <2>1, <2>3, TransitionIs DEF KnownStates
  <2>5. PICK g \in Nat, k \in Nat : g = bindings[n].gen + 1
                                    /\ k = bindings[n].epoch + 1
    BY <2>2
  <2>6. op' = [op EXCEPT ![t].pc = "gate", ![t].gen = g, ![t].token = k]
    BY <2>3, <2>5
  <2>7. /\ OnlyOp(t) /\ op'[t].pc = "gate"
        /\ op'[t].node = n /\ op'[t].token = k
    BY <1>2, <2>6 DEF TypeOK, OnlyOp, Op, PC
  <2> QED
    BY <2>4, <2>5, <2>7 DEF Claim, Rest
<1>4. CASE ~wins
  <2>1. Finish(t, FALSE) /\ LedgerUnchanged
    BY <1>4 DEF Claim
  <2> QED
    BY <1>1, <2>1, FinishIs DEF Claim, Rest
<1> QED
  BY <1>3, <1>4

\* The gate lets a claim through or sends it to its release.
LEMMA GateDoes ==
    ASSUME TypeOK, NEW t \in Thread, Gate(t)
    PROVE  /\ Goes(t, "kill") \/ Goes(t, "release")
           /\ LedgerUnchanged /\ UNCHANGED <<pane, files>> /\ Rest
<1>1. op[t].pc \in PC /\ "kill" \in PC /\ "release" \in PC
  BY DEF Gate, At, PC
<1>2. Goes(t, "kill") \/ Goes(t, "release")
  BY <1>1, StepIs DEF Gate
<1> QED
  BY <1>2 DEF Gate, Rest

\* The claimant kills the pane that an earlier life has left.
LEMMA KillStalePaneDoes ==
    ASSUME TypeOK, NEW t \in Thread, KillStalePane(t)
    PROVE  /\ Goes(t, "sign")
           /\ pane' \in {pane, [pane EXCEPT ![op[t].node] = NoPane]}
           /\ LedgerUnchanged /\ UNCHANGED files /\ Rest
<1>1. op[t].pc \in PC /\ "sign" \in PC
  BY DEF KillStalePane, At, PC
<1>2. op[t].node \in Node
  BY <1>1, AtIsOp
<1> QED
  BY <1>1, <1>2, StepIs, TearDownDoes DEF KillStalePane, Rest

\* The handshake takes the claim's token, unless the disk fails.
LEMMA WriteHandshakeDoes ==
    ASSUME TypeOK, NEW t \in Thread, WriteHandshake(t)
    PROVE  /\ \/ /\ Goes(t, "open")
                 /\ handshake' =
                        [handshake EXCEPT ![op[t].node] = op[t].token]
              \/ DiskFaults /\ Ends(t) /\ UNCHANGED handshake
           /\ LedgerUnchanged
           /\ UNCHANGED <<pane, signal, request, briefed>> /\ Rest
<1>1. op[t].pc \in PC /\ "open" \in PC
  BY DEF WriteHandshake, At, PC
<1>2. CASE /\ Step(t, "open")
           /\ handshake' = [handshake EXCEPT ![op[t].node] = op[t].token]
  BY <1>1, <1>2, StepIs DEF WriteHandshake, Rest
<1>3. CASE DiskFaults /\ Raise(t) /\ UNCHANGED handshake
  BY <1>1, <1>3, RaiseIs DEF WriteHandshake, Rest
<1> QED
  BY <1>2, <1>3 DEF WriteHandshake

\* The actor opens as the owner of the claim's token, or does not.
LEMMA OpenActorDoes ==
    ASSUME TypeOK, NEW t \in Thread, OpenActor(t)
    PROVE  /\ \/ /\ Goes(t, "step4")
                 /\ pane' = [pane EXCEPT ![op[t].node] =
                                [owner |-> op[t].token]]
              \/ Goes(t, "release") /\ UNCHANGED pane
           /\ LedgerUnchanged /\ UNCHANGED files /\ Rest
<1>1. op[t].pc \in PC /\ "step4" \in PC /\ "release" \in PC
  BY DEF OpenActor, At, PC
<1>2. CASE /\ Step(t, "step4")
           /\ pane' = [pane EXCEPT ![op[t].node] = [owner |-> op[t].token]]
  BY <1>1, <1>2, StepIs DEF OpenActor, Rest
<1>3. CASE UNCHANGED pane /\ Step(t, "release")
  BY <1>1, <1>3, StepIs DEF OpenActor, Rest
<1> QED
  BY <1>2, <1>3 DEF OpenActor

\* The actor is recorded over the thread's own claim only.
LEMMA RecordActorDoes ==
    ASSUME TypeOK, NEW t \in Thread, OpInv(t), RecordActor(t)
    PROVE  /\ \/ /\ OnlyOp(t) /\ op'[t].pc = "step5"
                 /\ op'[t].node = op[t].node /\ op'[t].token = op[t].token
                 /\ bindings[op[t].node].epoch = op[t].token
                 /\ Advances(op[t].node, "spawning", op[t].token)
                 /\ bindings'[op[t].node].stamped
              \/ Goes(t, "release") /\ LedgerUnchanged
           /\ UNCHANGED <<pane, files>> /\ Rest
<1>1. op[t].pc \in PC /\ "release" \in PC /\ op[t].token # NoToken
  BY DEF RecordActor, At, PC, OpInv, Claimant
<1>2. op[t] \in Op /\ op[t].node \in Node /\ op[t].gen \in Nat
  BY <1>1, AtIsOp
<1> DEFINE n == op[t].node
           wins == Cas(n, "claimed", op[t].gen, op[t].token)
<1>3. CASE wins
  <2>1. /\ bindings[n] \in Binding /\ bindings[n].state = "claimed"
        /\ bindings[n].epoch = op[t].token
    BY <1>1, <1>2, <1>3 DEF Cas, TypeOK
  <2>2. PICK b : b = Moved(bindings[n], "spawning", FALSE)
    OBVIOUS
  <2>3. /\ b \in Binding /\ b.state = "spawning"
        /\ b.gen = bindings[n].gen + 1 /\ b.epoch = bindings[n].epoch
        /\ b.paused = bindings[n].paused
    BY <2>1, <2>2, MovedIs DEF KnownStates
  <2>4. PICK c : c = [b EXCEPT !.stamped = TRUE]
    OBVIOUS
  <2>5. /\ c \in Binding /\ c.state = b.state /\ c.gen = b.gen
        /\ c.epoch = b.epoch /\ c.paused = b.paused /\ c.stamped
    BY <2>3, <2>4 DEF Binding
  <2>6. CommitBinding(n, c)
    BY <1>3, <2>2, <2>4 DEF RecordActor
  <2>7. OnlyLedger(n) /\ bindings'[n] = c
    BY <1>2, <2>5, <2>6, CommitIs
  <2>8. IsLegal("claimed", "spawning")
    BY DEF IsLegal, AllowedTransitions, ExplicitTransitions, KnownStates
  <2>9. Advances(n, "spawning", op[t].token) /\ bindings'[n].stamped
    BY <2>1, <2>3, <2>5, <2>7, <2>8 DEF Advances
  <2>10. op' = [op EXCEPT ![t].pc = "step5", ![t].gen = @ + 1]
    BY <1>3 DEF RecordActor
  <2>11. /\ OnlyOp(t) /\ op'[t].pc = "step5"
         /\ op'[t].node = n /\ op'[t].token = op[t].token
    BY <1>2, <2>10 DEF TypeOK, OnlyOp, Op, PC
  <2> QED
    BY <2>1, <2>9, <2>11 DEF RecordActor, Rest
<1>4. CASE ~wins
  <2>1. Step(t, "release") /\ LedgerUnchanged
    BY <1>4 DEF RecordActor
  <2> QED
    BY <1>1, <2>1, StepIs DEF RecordActor, Rest
<1> QED
  BY <1>3, <1>4

\* STEP5 advances a spawning node; its compare-and-swap may refuse.
LEMMA ConfirmRunningDoes ==
    ASSUME TypeOK, NEW t \in Thread, OpInv(t), ConfirmRunning(t)
    PROVE  /\ \/ /\ Ends(t)
                 /\ bindings[op[t].node].state = "spawning"
                 /\ Advances(op[t].node, "running",
                             bindings[op[t].node].epoch)
                 /\ bindings'[op[t].node].stamped =
                        bindings[op[t].node].stamped
              \/ Goes(t, "rollback") /\ LedgerUnchanged
           /\ UNCHANGED <<pane, files>> /\ Rest
<1>1. op[t].pc \in PC /\ "rollback" \in PC
  BY DEF ConfirmRunning, At, PC
<1>2. op[t].node \in Node
  BY <1>1, AtIsOp
<1> DEFINE n == op[t].node
           wins == Cas(n, "spawning", op[t].gen, op[t].token)
<1>3. CASE wins
  <2>1. bindings[n] # NoBinding /\ bindings[n].state = "spawning"
    BY <1>3 DEF Cas
  <2>2. IsLegal("spawning", "running")
    BY DEF IsLegal, AllowedTransitions, ExplicitTransitions, KnownStates
  <2>3. Transition(n, "running", FALSE) /\ Finish(t, TRUE)
    BY <1>3 DEF ConfirmRunning
  <2>4. /\ Advances(n, "running", bindings[n].epoch)
        /\ bindings'[n].stamped = bindings[n].stamped
    BY <1>2, <2>1, <2>2, <2>3, TransitionIs DEF KnownStates
  <2>5. Ends(t)
    BY <1>1, <2>3, FinishIs
  <2> QED
    BY <2>1, <2>4, <2>5 DEF ConfirmRunning, Rest
<1>4. CASE ~wins
  <2>1. Step(t, "rollback") /\ LedgerUnchanged
    BY <1>4 DEF ConfirmRunning
  <2> QED
    BY <1>1, <2>1, StepIs DEF ConfirmRunning, Rest
<1> QED
  BY <1>3, <1>4

\* A claim goes back to planned exactly if it is the thread's own.
LEMMA BackToPlannedDoes ==
    ASSUME TypeOK, NEW t \in Thread, op[t].pc \in PC,
           NEW from \in {"claimed", "spawning"}, BackToPlanned(t, from)
    PROVE  /\ Ends(t)
           /\ \/ /\ bindings[op[t].node].state = from
                 /\ Advances(op[t].node, "planned",
                             bindings[op[t].node].epoch + 1)
              \/ /\ ~ /\ bindings[op[t].node].state = from
                      /\ bindings[op[t].node].epoch = op[t].token
                 /\ LedgerUnchanged
           /\ UNCHANGED <<pane, files>> /\ Rest
<1>1. op[t].node \in Node
  BY AtIsOp
<1> DEFINE n == op[t].node
           own == bindings[n].state = from /\ bindings[n].epoch = op[t].token
<1>2. Ends(t)
  BY FinishIs DEF BackToPlanned
<1>3. CASE own
  <2>1. bindings[n] # NoBinding
    BY <1>3 DEF NoBinding
  <2>2. IsLegal(from, "planned")
    BY DEF IsLegal, AllowedTransitions, ExplicitTransitions, KnownStates
  <2>3. Transition(n, "planned", TRUE)
    BY <1>3 DEF BackToPlanned
  <2>4. Advances(n, "planned", bindings[n].epoch + 1)
    BY <1>1, <1>3, <2>1, <2>2, <2>3, TransitionIs DEF KnownStates
  <2> QED
    BY <1>2, <1>3, <2>4 DEF BackToPlanned, Rest
<1>4. CASE ~own
  BY <1>2, <1>4 DEF BackToPlanned, Rest
<1> QED
  BY <1>3, <1>4

\* A collapse ends the node's life or is refused.
LEMMA CollapseDoes ==
    ASSUME TypeOK, NEW t \in Thread, Collapse(t)
    PROVE  /\ OnlyOp(t) /\ op'[t] = NoOp
           /\ \/ Advances(op[t].node, op[t].aim, bindings[op[t].node].epoch)
              \/ LedgerUnchanged
           /\ UNCHANGED <<pane, files>> /\ Rest
<1>1. op[t].pc \in PC
  BY DEF Collapse, At, PC
<1>2. op[t].node \in Node /\ op[t].aim \in KnownStates
  BY <1>1, AtIsOp
<1>3. OnlyOp(t) /\ op'[t] = NoOp
  BY DEF Collapse, TypeOK, OnlyOp
<1> DEFINE n == op[t].node
           wins == /\ Cas(n, op[t].st, op[t].gen, op[t].token)
                   /\ IsLegal(op[t].st, op[t].aim)
<1>4. CASE wins
  <2>1. bindings[n] # NoBinding /\ IsLegal(bindings[n].state, op[t].aim)
    BY <1>4 DEF Cas
  <2>2. Transition(n, op[t].aim, FALSE)
    BY <1>4 DEF Collapse
  <2>3. Advances(n, op[t].aim, bindings[n].epoch)
    BY <1>2, <2>1, <2>2, TransitionIs
  <2> QED
    BY <1>3, <2>3 DEF Collapse, Rest
<1>5. CASE ~wins
  BY <1>3, <1>5 DEF Collapse, Rest
<1> QED
  BY <1>4, <1>5

\* The end of a request answers it and leaves the rest alone.
LEMMA EndRequestDoes ==
    ASSUME TypeOK, NEW t \in Thread,
           NEW status \in {"done", "rejected"}, EndRequest(t, status)
    PROVE  /\ OnlyOp(t) /\ op'[t] = NoOp
           /\ request' \in [Node -> {"none", "pending", "done", "rejected"}]
           /\ LedgerUnchanged
           /\ UNCHANGED <<pane, handshake, signal, briefed>> /\ Rest
<1>1. OnlyOp(t) /\ op'[t] = NoOp
  BY DEF EndRequest, TypeOK, OnlyOp
<1>2. request' \in [Node -> {"none", "pending", "done", "rejected"}]
  BY DEF EndRequest, TypeOK
<1> QED
  BY <1>1, <1>2 DEF EndRequest, Rest

-----------------------------------------------------------------------------
(* The invariant through the steps of an operation. *)

\* No binding is lost.
LedgerKeeps ==
    /\ bindings' \in [Node -> Binding \cup {NoBinding}]
    /\ walEpoch' \in [Node -> Nat]
    /\ \A m \in Node : bindings[m] # NoBinding => bindings'[m] # NoBinding

\* A change of one row unbinds no other.
LEMMA OnlyLedgerKeeps ==
    ASSUME NEW n \in Node, OnlyLedger(n)
    PROVE  LedgerKeeps
BY DEF OnlyLedger, LedgerKeeps

\* Nor does a step that leaves the ledger alone.
LEMMA UnchangedKeeps ==
    ASSUME TypeOK, LedgerUnchanged
    PROVE  LedgerKeeps
BY DEF TypeOK, LedgerUnchanged, LedgerKeeps

\* A tick that stands still keeps what it relies on.
LEMMA TickKeeps ==
    ASSUME Inv, LedgerKeeps, UNCHANGED tick
    PROVE  TickInv'
<1>1. tick.todo \subseteq Node
  BY DEF Inv, TypeOK, Tick
<1> QED
  BY <1>1 DEF Inv, TickInv, LedgerKeeps

Services == SUBSET [node : Node, token : Nat]

\* A step of which one thread takes part keeps the invariant of the others.
LEMMA StepKeeps ==
    ASSUME Inv, NEW t \in Thread, OnlyOp(t), OpInv(t)', LedgerKeeps, FilesOK',
           tick' \in Tick, TickInv', service' \in [Thread -> Services],
           crashes' \in Nat, calls' \in Nat
    PROVE  Inv'
<1>1. TypeOK'
  BY DEF TypeOK, OnlyOp, LedgerKeeps, FilesOK, Services
<1>2. \A u \in Thread : OpInv(u)'
  <2> SUFFICES ASSUME NEW u \in Thread, u # t PROVE OpInv(u)'
    OBVIOUS
  <2>1. op'[u] = op[u]
    BY DEF OnlyOp
  <2>2. op[u].pc \in {"brief", "fresh"} => op[u].node \in Node
    BY AtIsOp DEF PC, Inv
  <2> QED
    BY <2>1, <2>2 DEF Inv, OpInv, LedgerKeeps
<1> QED
  BY <1>1, <1>2 DEF Inv

\* A step of a thread keeps the invariant if it keeps its own part of it.
LEMMA ThreadKeeps ==
    ASSUME Inv, NEW t \in Thread, OnlyOp(t), LedgerKeeps, FilesOK', Rest,
           OpInv(t)'
    PROVE  Inv'
<1>1. /\ tick' \in Tick /\ service' \in [Thread -> Services]
      /\ crashes' \in Nat /\ calls' \in Nat
  BY DEF Inv, TypeOK, Rest, spent, Services
<1>2. TickInv'
  BY TickKeeps DEF Rest
<1> QED
  BY <1>1, <1>2, StepKeeps

\* Files and panes that stand still keep their types.
LEMMA FilesUnchanged ==
    ASSUME TypeOK, UNCHANGED <<pane, files>>
    PROVE  FilesOK'
BY DEF TypeOK, FilesOK, files

\* Ended, an operation relies on nothing.
LEMMA EndedRelies ==
    ASSUME NEW t \in Thread, Ends(t)
    PROVE  OnlyOp(t) /\ OpInv(t)'
BY DEF Ends, OpInv, Claimant

\* Going on, it relies on little.
LEMMA GoesOnRelies ==
    ASSUME NEW t \in Thread, NEW pc, Goes(t, pc),
           pc \notin {"brief", "fresh", "collapse"},
           pc \in Claimant => op[t].token # NoToken
    PROVE  OnlyOp(t) /\ OpInv(t)'
BY DEF Goes, OpInv

\* Every step of a spawn keeps the invariant.
LEMMA SpawnStepKeeps ==
    ASSUME Inv, NEW t \in Thread, SpawnStep(t)
    PROVE  Inv'
<1> USE DEF Inv
<1>0. FilesOK /\ OpInv(t) /\ TypeOK
  BY DEF TypeOK, FilesOK
<1>1. CASE CheckParent(t)
  <2>1. OnlyOp(t) /\ OpInv(t)'
    BY <1>1, CheckParentDoes, EndedRelies, GoesOnRelies DEF Claimant
  <2> QED
    BY <1>1, <2>1, CheckParentDoes, ThreadKeeps, UnchangedKeeps,
       FilesUnchanged
<1>2. CASE LookAtChild(t)
  <2>1. Goes(t, "seed") \/ Goes(t, "reap") => OnlyOp(t) /\ OpInv(t)'
    BY GoesOnRelies DEF Claimant
  <2>2. Goes(t, "fresh") /\ bindings[op[t].node] # NoBinding
            => OnlyOp(t) /\ OpInv(t)'
    BY <1>2, LookAtChildDoes DEF Goes, OpInv, LedgerUnchanged, Claimant
  <2>3. OnlyOp(t) /\ OpInv(t)'
    BY <1>2, <2>1, <2>2, LookAtChildDoes
  <2> QED
    BY <1>2, <2>3, LookAtChildDoes, ThreadKeeps, UnchangedKeeps,
       FilesUnchanged
<1>3. CASE ReapPane(t)
  <2>1. OnlyOp(t) /\ OpInv(t)'
    BY <1>3, ReapPaneDoes, GoesOnRelies DEF Claimant
  <2>2. FilesOK'
    BY <1>0, <1>3, ReapPaneDoes DEF FilesOK, files, NoPane
  <2> QED
    BY <1>3, <2>1, <2>2, ReapPaneDoes, ThreadKeeps, UnchangedKeeps
<1>4. CASE SeedIdentity(t)
  <2>1. OnlyOp(t) /\ OpInv(t)'
    BY <1>4, SeedIdentityDoes, EndedRelies DEF OpInv, Claimant
  <2>2. NoSignal \in [kind : {"none", "done", "failed"}, token : Nat]
    BY DEF NoSignal
  <2>3. /\ handshake' \in [Node -> Nat]
        /\ signal' \in [Node -> [kind : {"none", "done", "failed"},
                                token : Nat]]
    BY <1>0, <1>4, <2>2, SeedIdentityDoes DEF FilesOK, NoToken
  <2>4. FilesOK'
    BY <1>0, <1>4, <2>3, SeedIdentityDoes DEF FilesOK
  <2> QED
    BY <1>4, <2>1, <2>4, SeedIdentityDoes, ThreadKeeps, UnchangedKeeps
<1>5. CASE WriteRegistration(t)
  <2>1. op[t].node \in Node
    BY <1>5, AtIsOp DEF WriteRegistration, At, PC
  <2>2. OnlyOp(t) /\ OpInv(t)' /\ LedgerKeeps
    BY <1>5, <2>1, WriteRegistrationDoes, OnlyLedgerKeeps
       DEF Goes, OpInv, OnlyLedger, Claimant
  <2> QED
    BY <1>5, <2>2, WriteRegistrationDoes, ThreadKeeps, FilesUnchanged
<1>6. CASE WriteBrief(t)
  <2>1. OpInv(t)' /\ OnlyOp(t)
    BY <1>6, WriteBriefDoes DEF Goes, OpInv, WriteBrief, At, Claimant
  <2>2. LedgerKeeps
    BY <1>6, WriteBriefDoes DEF LedgerKeeps, TypeOK
  <2>3. FilesOK'
    BY <1>0, <1>6, WriteBriefDoes DEF FilesOK
  <2> QED
    BY <1>6, <2>1, <2>2, <2>3, WriteBriefDoes, ThreadKeeps
<1>7. CASE ReadToken(t)
  <2>1. OnlyOp(t) /\ OpInv(t)'
    BY <1>7, ReadTokenDoes DEF OpInv, Claimant
  <2> QED
    BY <1>7, <2>1, ReadTokenDoes, ThreadKeeps, UnchangedKeeps,
       FilesUnchanged
<1>8. CASE CheckPause(t)
  <2>1. OnlyOp(t) /\ OpInv(t)'
    BY <1>8, CheckPauseDoes, EndedRelies, GoesOnRelies DEF Claimant
  <2> QED
    BY <1>8, <2>1, CheckPauseDoes, ThreadKeeps, UnchangedKeeps,
       FilesUnchanged
<1>9. CASE Claim(t)
  <2>1. op[t].node \in Node
    BY <1>9, AtIsOp DEF Claim, At, PC
  <2>2. CASE Ends(t) /\ LedgerUnchanged
    BY <1>9, <2>2, ClaimDoes, EndedRelies, ThreadKeeps, UnchangedKeeps,
       FilesUnchanged
  <2>3. CASE ~(Ends(t) /\ LedgerUnchanged)
    <3>1. /\ OnlyOp(t) /\ op'[t].pc = "gate"
          /\ op'[t].token = bindings[op[t].node].epoch + 1
          /\ Advances(op[t].node, "claimed", bindings[op[t].node].epoch + 1)
      BY <1>9, <2>3, ClaimDoes
    <3>2. bindings[op[t].node].epoch \in Nat
      BY <3>1 DEF Advances, Binding
    <3>3. OpInv(t)' /\ LedgerKeeps
      BY <2>1, <3>1, <3>2, OnlyLedgerKeeps DEF OpInv, Advances, NoToken
    <3> QED
      BY <1>9, <3>1, <3>3, ClaimDoes, ThreadKeeps, FilesUnchanged
  <2> QED
    BY <2>2, <2>3
<1>10. CASE Gate(t)
  <2>1. op[t].token # NoToken
    BY <1>10 DEF Gate, At, OpInv, Claimant
  <2>2. OnlyOp(t) /\ OpInv(t)'
    BY <1>10, <2>1, GateDoes, GoesOnRelies
  <2> QED
    BY <1>10, <2>2, GateDoes, ThreadKeeps, UnchangedKeeps, FilesUnchanged
<1>11. CASE KillStalePane(t)
  <2>1. op[t].token # NoToken
    BY <1>11 DEF KillStalePane, At, OpInv, Claimant
  <2>2. OnlyOp(t) /\ OpInv(t)'
    BY <1>11, <2>1, KillStalePaneDoes, GoesOnRelies
  <2>3. FilesOK'
    BY <1>0, <1>11, KillStalePaneDoes DEF FilesOK, files, NoPane
  <2> QED
    BY <1>11, <2>2, <2>3, KillStalePaneDoes, ThreadKeeps, UnchangedKeeps
<1>12. CASE WriteHandshake(t)
  <2>1. op[t].token # NoToken
    BY <1>12 DEF WriteHandshake, At, OpInv, Claimant
  <2>2. op[t].token \in Nat
    BY <1>12, AtIsOp DEF WriteHandshake, At, PC
  <2>3. OnlyOp(t) /\ OpInv(t)'
    BY <1>12, <2>1, WriteHandshakeDoes, GoesOnRelies, EndedRelies
  <2>4. FilesOK'
    BY <1>0, <1>12, <2>2, WriteHandshakeDoes DEF FilesOK
  <2> QED
    BY <1>12, <2>3, <2>4, WriteHandshakeDoes, ThreadKeeps, UnchangedKeeps
<1>13. CASE OpenActor(t)
  <2>1. op[t].token # NoToken
    BY <1>13 DEF OpenActor, At, OpInv, Claimant
  <2>2. op[t].token \in Nat
    BY <1>13, AtIsOp DEF OpenActor, At, PC
  <2>3. OnlyOp(t) /\ OpInv(t)'
    BY <1>13, <2>1, OpenActorDoes, GoesOnRelies
  <2>4. PICK p \in [owner : Nat] : p = [owner |-> op[t].token]
    BY <2>2
  <2>5. UNCHANGED pane \/ pane' = [pane EXCEPT ![op[t].node] = p]
    BY <1>13, <2>4, OpenActorDoes
  <2>6. pane' \in [Node -> [owner : Nat]]
    BY <1>0, <2>5 DEF FilesOK
  <2>7. FilesOK'
    BY <1>0, <1>13, <2>6, OpenActorDoes DEF FilesOK, files
  <2> QED
    BY <1>13, <2>3, <2>7, OpenActorDoes, ThreadKeeps, UnchangedKeeps
<1>14. CASE RecordActor(t)
  <2>1. op[t].token # NoToken
    BY <1>14 DEF RecordActor, At, OpInv, Claimant
  <2>2. op[t].node \in Node
    BY <1>14, AtIsOp DEF RecordActor, At, PC
  <2>3. OnlyOp(t) /\ OpInv(t)'
    BY <1>14, <2>1, RecordActorDoes, GoesOnRelies DEF OpInv
  <2>4. LedgerKeeps
    BY <1>14, <2>2, RecordActorDoes, OnlyLedgerKeeps, UnchangedKeeps
       DEF Advances
  <2> QED
    BY <1>14, <2>3, <2>4, RecordActorDoes, ThreadKeeps, FilesUnchanged
<1>15. CASE ConfirmRunning(t)
  <2>1. op[t].token # NoToken
    BY <1>15 DEF ConfirmRunning, At, OpInv, Claimant
  <2>2. op[t].node \in Node
    BY <1>15, AtIsOp DEF ConfirmRunning, At, PC
  <2>3. OnlyOp(t) /\ OpInv(t)'
    BY <1>15, <2>1, ConfirmRunningDoes, GoesOnRelies, EndedRelies
  <2>4. LedgerKeeps
    BY <1>15, <2>2, ConfirmRunningDoes, OnlyLedgerKeeps, UnchangedKeeps
       DEF Advances
  <2> QED
    BY <1>15, <2>3, <2>4, ConfirmRunningDoes, ThreadKeeps, FilesUnchanged
<1>16. ASSUME NEW from \in {"claimed", "spawning"}, BackToPlanned(t, from),
              op[t].pc \in PC
       PROVE  Inv'
  <2>1. op[t].node \in Node
    BY <1>16, AtIsOp
  <2>2. LedgerKeeps
    BY <1>16, <2>1, BackToPlannedDoes, OnlyLedgerKeeps, UnchangedKeeps
       DEF Advances
  <2> QED
    BY <1>16, <2>2, BackToPlannedDoes, EndedRelies, ThreadKeeps,
       FilesUnchanged
<1>17. CASE ReleaseClaim(t)
  BY <1>16, <1>17 DEF ReleaseClaim, At, PC
<1>18. CASE RollbackSpawning(t)
  BY <1>16, <1>18 DEF RollbackSpawning, At, PC
<1> QED
  BY <1>1, <1>2, <1>3, <1>4, <1>5, <1>6, <1>7, <1>8, <1>9, <1>10, <1>11,
     <1>12, <1>13, <1>14, <1>15, <1>17, <1>18 DEF SpawnStep

\* So does the collapse of a node.
LEMMA CollapseKeeps ==
    ASSUME Inv, NEW t \in Thread, Collapse(t)
    PROVE  Inv'
<1> USE DEF Inv
<1>1. op[t].node \in Node
  BY AtIsOp DEF Collapse, At, PC
<1>2. LedgerKeeps
  BY <1>1, CollapseDoes, OnlyLedgerKeeps, UnchangedKeeps DEF Advances
<1>3. OnlyOp(t) /\ OpInv(t)'
  BY CollapseDoes DEF OpInv, NoOp, Claimant
<1> QED
  BY <1>2, <1>3, CollapseDoes, ThreadKeeps, FilesUnchanged

\* So does the answer to a request.
LEMMA EndRequestKeeps ==
    ASSUME Inv, NEW t \in Thread,
           NEW status \in {"done", "rejected"}, EndRequest(t, status)
    PROVE  Inv'
<1> USE DEF Inv
<1>1. OnlyOp(t) /\ OpInv(t)'
  BY EndRequestDoes DEF OpInv, NoOp, Claimant
<1>2. FilesOK'
  BY EndRequestDoes DEF FilesOK, TypeOK
<1> QED
  BY <1>1, <1>2, EndRequestDoes, ThreadKeeps, UnchangedKeeps

\* A thread at rest starts what it is given.
LEMMA StartIs ==
    ASSUME TypeOK, NEW t \in Thread, NEW o \in Op, Start(t, o)
    PROVE  OnlyOp(t) /\ op'[t] = o
BY DEF TypeOK, Start, OnlyOp

\* A new operation has the fields that it is given.
LEMMA NewOpIs ==
    ASSUME NEW pc \in PC, NEW n \in Node, NEW st \in KnownStates,
           NEW gen \in Nat, NEW token \in Nat, NEW aim \in KnownStates,
           NEW requested \in BOOLEAN
    PROVE  /\ NewOp(pc, n, st, gen, token, aim, requested) \in Op
           /\ NewOp(pc, n, st, gen, token, aim, requested).pc = pc
           /\ NewOp(pc, n, st, gen, token, aim, requested).node = n
           /\ NewOp(pc, n, st, gen, token, aim, requested).aim = aim
<1> DEFINE o == NewOp(pc, n, st, gen, token, aim, requested)
<1>1. o.pc = pc /\ o.node = n /\ o.aim = aim
  BY DEF NewOp
<1>2. o \in Op
  BY SMTT(60) DEF NewOp, Op
<1> QED
  BY <1>1, <1>2

\* The operation that a request starts.
LEMMA ChildOpIs ==
    ASSUME NEW c \in Node, NEW token \in Nat, NEW requested \in BOOLEAN
    PROVE  /\ ChildOp(c, token, requested) \in Op
           /\ ChildOp(c, token, requested).pc = "parent"
<1>1. /\ "parent" \in PC /\ 0 \in Nat
      /\ "planned" \in KnownStates /\ "claimed" \in KnownStates
  BY DEF PC, KnownStates
<1> QED
  BY <1>1, NewOpIs DEF ChildOp

\* The servicing of a request moves one thread and the outboxes.
LEMMA ServiceRequestDoes ==
    ASSUME TypeOK, NEW t \in Thread, ServiceRequest(t)
    PROVE  /\ op[t] = NoOp /\ service[t] # {}
           /\ OnlyOp(t) /\ op'[t].pc \in {"idle", "parent"}
           /\ service' \in [Thread -> Services]
           /\ \A u \in Thread : u # t => service'[u] = service[u]
           /\ request' \in [Node -> {"none", "pending", "done", "rejected"}]
           /\ LedgerUnchanged
           /\ UNCHANGED <<pane, handshake, signal, briefed, tick, spent>>
<1>1. PICK r \in service[t] :
         LET c == r.node
             status == IF Live(bindings, c) THEN "done" ELSE "rejected"
         IN  \/ /\ request[c] # "pending"
                /\ service' = [service EXCEPT ![t] = {}]
                /\ UNCHANGED <<op, request>>
             \/ /\ request[c] = "pending"
                /\ service' = [service EXCEPT ![t] = @ \ {r}]
                /\ request' = [request EXCEPT ![c] = status]
                /\ UNCHANGED op
             \/ /\ request[c] = "pending" /\ ~Live(bindings, c)
                /\ service' = [service EXCEPT ![t] = @ \ {r}]
                /\ Start(t, ChildOp(c, r.token, TRUE))
                /\ UNCHANGED request
  BY DEF ServiceRequest
<1>2. r \in [node : Node, token : Nat]
  BY <1>1 DEF TypeOK
<1>3. r.node \in Node /\ r.token \in Nat
  BY <1>2
<1>4. op[t] = NoOp /\ NoOp.pc = "idle"
  BY DEF ServiceRequest, NoOp
<1>5. OnlyOp(t) /\ op'[t].pc \in {"idle", "parent"}
  <2>1. CASE UNCHANGED op
    BY <1>4, <2>1 DEF TypeOK, OnlyOp
  <2>2. CASE Start(t, ChildOp(r.node, r.token, TRUE))
    <3>1. PICK o \in Op : o = ChildOp(r.node, r.token, TRUE)
      BY <1>3, ChildOpIs
    <3>2. o.pc = "parent"
      BY <1>3, <3>1, ChildOpIs
    <3> QED
      BY <2>2, <3>1, <3>2, StartIs
  <2> QED
    BY <1>1, <2>1, <2>2
<1>6. /\ service' \in [Thread -> Services]
      /\ \A u \in Thread : u # t => service'[u] = service[u]
  <2>1. PICK s \in Services : service' = [service EXCEPT ![t] = s]
    BY <1>1 DEF TypeOK, Services
  <2> QED
    BY <2>1 DEF TypeOK, Services
<1>7. request' \in [Node -> {"none", "pending", "done", "rejected"}]
  BY <1>1, <1>3 DEF TypeOK
<1> QED
  BY <1>1, <1>4, <1>5, <1>6, <1>7 DEF ServiceRequest

\* Servicing a request keeps the invariant.
LEMMA ServiceRequestKeeps ==
    ASSUME Inv, NEW t \in Thread, ServiceRequest(t)
    PROVE  Inv'
<1> USE DEF Inv
<1>1. TypeOK'
  BY ServiceRequestDoes
     DEF TypeOK, OnlyOp, LedgerUnchanged, spent, Services
<1>2. OpInv(t)'
  BY ServiceRequestDoes DEF OpInv, Claimant
<1>3. \A u \in Thread : u # t => OpInv(u)'
  BY ServiceRequestDoes DEF OnlyOp, OpInv, LedgerUnchanged
<1>4. TickInv'
  BY ServiceRequestDoes, TickKeeps, UnchangedKeeps
<1> QED
  BY <1>1, <1>2, <1>3, <1>4

\* Every step of an operation keeps the invariant.
LEMMA OperationStepKeeps ==
    ASSUME Inv, NEW t \in Thread, OperationStep(t)
    PROVE  Inv'
<1>1. CASE Consume(t)
  BY <1>1, EndRequestKeeps DEF Consume
<1>2. CASE Refuse(t)
  BY <1>2, EndRequestKeeps DEF Refuse
<1> QED
  BY <1>1, <1>2, SpawnStepKeeps, CollapseKeeps, ServiceRequestKeeps
     DEF OperationStep

-----------------------------------------------------------------------------
(* What each step of the tick does. *)

\* What the tick carries from step to step.
Carries(leg, listed, unseen, snap, todo, boot) ==
    /\ tick' \in Tick
    /\ tick'.leg = leg /\ tick'.listed = listed /\ tick'.snap = snap
    /\ tick'.unseen = unseen
    /\ tick'.todo = todo /\ tick'.boot = boot

\* A tick starts with its list.
LEMMA StartTickIs ==
    ASSUME NEW boot \in BOOLEAN
    PROVE  /\ StartTick(boot) \in Tick
           /\ StartTick(boot).leg = "list" /\ StartTick(boot).listed = {}
           /\ StartTick(boot).unseen = {}
           /\ StartTick(boot).snap = [n \in Node |-> NoBinding]
           /\ StartTick(boot).todo = {} /\ StartTick(boot).boot = boot
BY DEF StartTick, Tick

\* A listing shows every session or hides it.
LEMMA ListingIs ==
    ASSUME NEW blind
    PROVE  /\ Listing(blind) \in SUBSET Node /\ Hidden(blind) \in SUBSET Node
           /\ \A n \in Node : pane[n] # NoPane
                  => n \in Listing(blind) \/ n \in Hidden(blind)
           /\ \A n \in Listing(blind) : pane[n] # NoPane
           /\ blind \in Failing /\ ~TmuxFaults => Hidden(blind) = {}
BY DEF Listing, Hidden, Failing

\* The sessions are listed before the ledger is read.
LEMMA ListTargetsDoes ==
    ASSUME TypeOK, ListTargets
    PROVE  /\ Leg("list") /\ TickOnly
           /\ \E blind \in Failing :
                  Carries("map", Listing(blind), Hidden(blind), tick.snap,
                          tick.todo, tick.boot)
<1>1. PICK blind \in Failing :
            tick' = [tick EXCEPT !.leg = "map", !.listed = Listing(blind),
                                 !.unseen = Hidden(blind)]
  BY DEF ListTargets
<1>2. Carries("map", Listing(blind), Hidden(blind), tick.snap, tick.todo,
              tick.boot)
  BY <1>1, ListingIs DEF TypeOK, Carries, Tick
<1> QED
  BY <1>2 DEF ListTargets

\* The sweep takes its snapshot.
LEMMA ReadBindingsDoes ==
    ASSUME TypeOK, ReadBindings
    PROVE  /\ Leg("map") /\ TickOnly
           /\ Carries("sweep", tick.listed, tick.unseen, bindings, Bound,
                      tick.boot)
BY DEF TypeOK, ReadBindings, Carries, Tick, Bound

\* A visit takes one node off the list of a leg.
LEMMA VisitDoes ==
    ASSUME TypeOK, NEW n \in Node, NEW l, Visit(l, n)
    PROVE  /\ Leg(l) /\ n \in tick.todo
           /\ Carries(l, tick.listed, tick.unseen, tick.snap,
                      tick.todo \ {n}, tick.boot)
BY DEF TypeOK, Visit, Leave, Leg, Carries, Tick

\* The sweep's visit remembers a session that the detector did not see.
LEMMA SweepVisits ==
    ASSUME TypeOK, NEW n \in Node, Sweep(n)
    PROVE  /\ Leg("sweep") /\ n \in tick.todo
           /\ \E blind \in Failing :
                  Carries("sweep", tick.listed,
                          tick.unseen \cup (Hidden(blind) \cap {n}),
                          tick.snap, tick.todo \ {n}, tick.boot)
<1>1. PICK blind \in Failing :
            tick' = [tick EXCEPT !.todo = @ \ {n},
                        !.unseen = @ \cup (Hidden(blind) \cap {n})]
  BY DEF Sweep
<1>2. Leg("sweep") /\ n \in tick.todo
  BY DEF Sweep, Leave
<1>3. Carries("sweep", tick.listed,
              tick.unseen \cup (Hidden(blind) \cap {n}), tick.snap,
              tick.todo \ {n}, tick.boot)
  BY <1>1, <1>2, ListingIs DEF TypeOK, Carries, Tick, Leg
<1> QED
  BY <1>2, <1>3

\* The boot's sweep gives way to a tick, another to the watch, which takes a
\* snapshot of its own.
LEMMA EndSweepDoes ==
    ASSUME TypeOK, EndSweep
    PROVE  /\ Leg("sweep") /\ TickOnly
           /\ tick' \in Tick /\ tick'.unseen = {}
           /\ \/ tick'.leg = "list"
              \/ Carries("watch", {}, {}, bindings, Bound, tick.boot)
<1>1. CASE tick.boot
  BY <1>1, StartTickIs DEF EndSweep
<1>2. CASE ~tick.boot
  BY <1>2 DEF EndSweep, TypeOK, Carries, Tick, Bound
<1> QED
  BY <1>1, <1>2

\* The watch gives way to the outboxes.
LEMMA EndWatchDoes ==
    ASSUME TypeOK, EndWatch
    PROVE  /\ Leg("watch") /\ TickOnly
           /\ tick' \in Tick /\ tick'.leg = "outbox" /\ tick'.unseen = {}
BY DEF EndWatch, StartTick, Tick

\* The re-drive takes its snapshot first.
LEMMA EndOutboxDoes ==
    ASSUME TypeOK, EndOutbox
    PROVE  /\ Leg("outbox") /\ TickOnly
           /\ Carries("sessions", tick.listed, tick.unseen, bindings,
                      tick.todo, tick.boot)
BY DEF TypeOK, EndOutbox, Leg, Carries, Tick

\* It lists the sessions after that.
LEMMA ListSessionsDoes ==
    ASSUME TypeOK, ListSessions
    PROVE  /\ Leg("sessions") /\ TickOnly
           /\ \E blind \in Failing :
                  Carries("redrive", Listing(blind), tick.unseen, tick.snap,
                          {n \in Node : tick.snap[n].state = "planned"},
                          tick.boot)
<1>1. PICK blind \in Failing :
            tick' = [tick EXCEPT !.leg = "redrive", !.listed = Listing(blind),
                        !.todo = {n \in Node : tick.snap[n].state = "planned"}]
  BY DEF ListSessions
<1>2. Carries("redrive", Listing(blind), tick.unseen, tick.snap,
              {n \in Node : tick.snap[n].state = "planned"}, tick.boot)
  BY <1>1, ListingIs DEF TypeOK, Carries, Tick
<1> QED
  BY <1>2 DEF ListSessions

\* The re-drive ends the tick.
LEMMA EndTickDoes ==
    ASSUME TypeOK, EndTick
    PROVE  /\ Leg("redrive") /\ TickOnly
           /\ tick' \in Tick /\ tick'.leg = "list" /\ tick'.unseen = {}
BY StartTickIs DEF EndTick

\* For the sweep a session is away or not seen.
Missed(n) ==
    \/ ~tick.snap[n].stamped
    \/ n \notin tick.listed
    \/ pane[n] = NoPane
    \/ n \in tick'.unseen

\* The sweep stamps a node only as the snapshot still describes it.
LEMMA SweepDoes ==
    ASSUME Inv, NEW n \in Node, Sweep(n)
    PROVE  /\ \/ /\ ~IsTerminal(tick.snap[n].state) /\ Missed(n)
                 /\ tick.snap[n].state = bindings[n].state
                 /\ tick.snap[n].gen = bindings[n].gen
                 /\ Advances(n, bindings'[n].state, tick.snap[n].epoch + 1)
                 /\ bindings'[n].state \in {"dead", "failed"}
              \/ LedgerUnchanged
           /\ UNCHANGED <<pane, files, op, service, spent>>
<1> USE DEF Inv
<1>0. UNCHANGED <<pane, files, op, service, spent>>
  BY DEF Sweep
<1>1. PICK blind \in Failing :
        /\ tick' = [tick EXCEPT !.todo = @ \ {n},
                                !.unseen = @ \cup (Hidden(blind) \cap {n})]
        /\ LET b == tick.snap[n] IN
           IF /\ ~IsTerminal(b.state) /\ b.state # "planned"
              /\ ~Present(n, blind)
           THEN Necro(n) ELSE LedgerUnchanged
  BY DEF Sweep
<1>2. tick.snap[n] \in Binding
  BY SweepVisits DEF TickInv, TypeOK, Tick, Leg
<1>3. CASE ~ /\ ~IsTerminal(tick.snap[n].state) /\ ~Present(n, blind)
             /\ Cas(n, tick.snap[n].state, tick.snap[n].gen, NoToken)
  BY <1>0, <1>1, <1>3 DEF Necro
<1>4. CASE tick.snap[n].state = "planned"
  BY <1>0, <1>1, <1>4
<1>5. CASE /\ ~IsTerminal(tick.snap[n].state) /\ ~Present(n, blind)
           /\ tick.snap[n].state # "planned"
           /\ Cas(n, tick.snap[n].state, tick.snap[n].gen, NoToken)
  <2> DEFINE b == tick.snap[n]
             to == IF IsCoordinator(tick.snap, n) THEN "dead" ELSE "failed"
  <2>1. to \in {"dead", "failed"} /\ to \in KnownStates
    BY DEF KnownStates
  <2> HIDE DEF to
  <2>2. /\ bindings[n] \in Binding /\ bindings[n].state = b.state
        /\ bindings[n].gen = b.gen
    BY <1>5 DEF Cas, TypeOK
  <2>3. bindings[n].state \in NonTerminalStates
    BY <1>5, <2>2 DEF NonTerminalStates, IsTerminal, Binding
  <2>4. IsLegal(bindings[n].state, to)
    BY <2>1, <2>3 DEF IsLegal, AllowedTransitions, NonTerminalStates
  <2>5. PICK m : m = Moved(bindings[n], to, FALSE)
    OBVIOUS
  <2>6. /\ m \in Binding /\ m.state = to /\ m.gen = bindings[n].gen + 1
        /\ m.paused = bindings[n].paused
    BY <2>1, <2>2, <2>5, MovedIs
  <2>7. PICK e \in Nat : e = b.epoch + 1
    BY <1>2 DEF Binding
  <2>8. PICK c : c = [m EXCEPT !.epoch = e]
    OBVIOUS
  <2>9. /\ c \in Binding /\ c.state = m.state /\ c.gen = m.gen
        /\ c.epoch = e /\ c.paused = m.paused
    BY <2>6, <2>7, <2>8 DEF Binding
  <2>10. CommitBinding(n, c)
    BY <1>1, <1>5, <2>5, <2>7, <2>8 DEF Necro, to
  <2>11. OnlyLedger(n) /\ bindings'[n] = c
    BY <2>9, <2>10, CommitIs
  <2>12. Advances(n, to, b.epoch + 1) /\ bindings'[n].state = to
    BY <2>2, <2>4, <2>6, <2>7, <2>9, <2>11 DEF Advances
  <2>13. Missed(n)
    <3>1. tick'.unseen = tick.unseen \cup (Hidden(blind) \cap {n})
      BY <1>1 DEF TypeOK, Tick
    <3> QED
      BY <1>5, <3>1, ListingIs DEF Present, Missed
  <2> QED
    BY <1>0, <1>5, <2>1, <2>2, <2>12, <2>13
<1> QED
  BY <1>3, <1>4, <1>5

\* A sign-off that is read starts a collapse of the bound node.
LEMMA ReadSignOffDoes ==
    ASSUME Inv, NEW n \in Node, ReadSignOff(n)
    PROVE  /\ OnlyOp("poll") /\ op["poll"] = NoOp
           /\ op'["poll"].pc = "collapse" /\ op'["poll"].node = n
           /\ op'["poll"].aim \in {"done", "failed"}
           /\ ~HasLiveDescendant(tick.snap, n)
           /\ LedgerUnchanged /\ UNCHANGED <<pane, files, service, spent>>
<1> USE DEF Inv
<1>1. Visit("watch", n)
  BY DEF ReadSignOff
<1>2. tick.snap[n] \in Binding /\ bindings[n] \in Binding
  BY <1>1, VisitDoes DEF TickInv, TypeOK, Tick, Leg
<1>3. /\ tick.snap[n].epoch \in Nat /\ bindings[n].state \in KnownStates
      /\ bindings[n].gen \in Nat
  BY <1>2 DEF Binding
<1>4. signal[n].kind \in {"done", "failed"}
  BY DEF ReadSignOff, SignedOff, TypeOK
<1>5. signal[n].kind \in KnownStates
  BY <1>4 DEF KnownStates
<1>6. PICK o : o = CollapseOp(n, tick.snap[n].epoch, signal[n].kind)
  OBVIOUS
<1>7. "collapse" \in PC
  BY DEF PC
<1>8. /\ o \in Op /\ o.pc = "collapse" /\ o.node = n
      /\ o.aim = signal[n].kind
  BY <1>3, <1>5, <1>6, <1>7 DEF CollapseOp, NewOp, Op
<1>9. OnlyOp("poll") /\ op'["poll"] = o /\ op["poll"] = NoOp
  BY <1>6, <1>8, StartIs DEF ReadSignOff, Thread, Start
<1> QED
  BY <1>4, <1>8, <1>9 DEF ReadSignOff, MayEnd

\* So does the last rung of the ladder, towards "failed".
LEMMA FailIdleLeafDoes ==
    ASSUME Inv, NEW n \in Node, FailIdleLeaf(n)
    PROVE  /\ OnlyOp("poll") /\ op["poll"] = NoOp
           /\ op'["poll"].pc = "collapse" /\ op'["poll"].node = n
           /\ op'["poll"].aim = "failed"
           /\ LedgerUnchanged /\ UNCHANGED <<pane, files, service, spent>>
<1> USE DEF Inv
<1>1. Visit("watch", n)
  BY DEF FailIdleLeaf
<1>2. tick.snap[n] \in Binding
  BY <1>1, VisitDoes DEF TickInv, TypeOK, Tick, Leg
<1>3. /\ tick.snap[n].epoch \in Nat /\ tick.snap[n].state \in KnownStates
      /\ tick.snap[n].gen \in Nat
  BY <1>2 DEF Binding
<1>4. PICK o : o = NewOp("collapse", n, tick.snap[n].state,
                         tick.snap[n].gen, tick.snap[n].epoch, "failed",
                         FALSE)
  OBVIOUS
<1>5. "collapse" \in PC /\ "failed" \in KnownStates
  BY DEF PC, KnownStates
<1>6. o \in Op /\ o.pc = "collapse" /\ o.node = n /\ o.aim = "failed"
  BY <1>3, <1>4, <1>5 DEF NewOp, Op
<1>7. OnlyOp("poll") /\ op'["poll"] = o /\ op["poll"] = NoOp
  BY <1>4, <1>6, StartIs DEF FailIdleLeaf, Thread, Start
<1> QED
  BY <1>6, <1>7 DEF FailIdleLeaf

\* The servicing of an outbox is under the token its owner has now.
LEMMA RequestsAre ==
    ASSUME TypeOK, NEW p \in Node
    PROVE  Requests(p) \in Services
<1>1. CASE Live(bindings, p)
  <2>1. bindings[p] \in Binding
    BY <1>1, BoundIsBinding DEF TypeOK
  <2>2. bindings[p].epoch \in Nat
    BY <2>1 DEF Binding
  <2> QED
    BY <1>1, <2>2 DEF Requests, Services
<1>2. CASE ~Live(bindings, p)
  BY <1>2 DEF Requests, Services
<1> QED
  BY <1>1, <1>2

\* The poll thread opens an outbox with what it finds in it.
LEMMA OpenOutboxDoes ==
    ASSUME TypeOK, NEW n \in Node, OpenOutbox(n)
    PROVE  /\ service' \in [Thread -> Services]
           /\ service'["ipc"] = service["ipc"]
           /\ LedgerUnchanged /\ UNCHANGED <<pane, files, op, spent>>
BY RequestsAre DEF OpenOutbox, TypeOK, Thread, Services

\* A re-drive starts a claim.
LEMMA RedriveDoes ==
    ASSUME Inv, NEW n \in Node, Redrive(n)
    PROVE  /\ OnlyOp("poll") /\ op["poll"] = NoOp /\ op'["poll"].pc = "pause"
           /\ LedgerUnchanged /\ UNCHANGED <<pane, files, service, spent>>
<1> USE DEF Inv
<1>1. Visit("redrive", n)
  BY DEF Redrive
<1>2. tick.snap[n] \in Binding
  BY <1>1, VisitDoes DEF TickInv, TypeOK, Tick, Leg
<1>3. tick.snap[n].epoch \in Nat /\ tick.snap[n].gen \in Nat
  BY <1>2 DEF Binding
<1>4. PICK o : o = ClaimOp(n, "planned", tick.snap[n].gen,
                           tick.snap[n].epoch)
  OBVIOUS
<1>5. "pause" \in PC /\ "planned" \in KnownStates /\ "claimed" \in KnownStates
  BY DEF PC, KnownStates
<1>6. o \in Op /\ o.pc = "pause"
  BY <1>3, <1>4, <1>5 DEF ClaimOp, NewOp, Op
<1>7. OnlyOp("poll") /\ op'["poll"] = o /\ op["poll"] = NoOp
  BY <1>4, <1>6, StartIs DEF Redrive, Thread, Start
<1> QED
  BY <1>6, <1>7 DEF Redrive

-----------------------------------------------------------------------------
(* The invariant through the steps of the tick. *)

\* No thread has a part in a step that leaves the operations alone.
LEMMA StandsKeeps ==
    ASSUME Inv, UNCHANGED op, LedgerKeeps, FilesOK', tick' \in Tick, TickInv',
           service' \in [Thread -> Services], crashes' \in Nat,
           calls' \in Nat
    PROVE  Inv'
<1>1. "poll" \in Thread
  BY DEF Thread
<1>2. op["poll"].pc \in {"brief", "fresh"} => op["poll"].node \in Node
  BY <1>1, AtIsOp DEF PC, Inv
<1>3. OnlyOp("poll") /\ OpInv("poll")'
  BY <1>1, <1>2 DEF Inv, TypeOK, OnlyOp, OpInv, LedgerKeeps
<1> QED
  BY <1>1, <1>3, StepKeeps

\* The types of what a step of the tick leaves alone.
LEMMA AloneKeeps ==
    ASSUME TypeOK, UNCHANGED <<pane, files, spent>>
    PROVE  FilesOK' /\ crashes' \in Nat /\ calls' \in Nat
BY FilesUnchanged DEF TypeOK, spent

\* An outbox that nobody opens stands.
LEMMA ServiceStands ==
    ASSUME TypeOK, UNCHANGED service
    PROVE  service' \in [Thread -> Services]
BY DEF TypeOK, Services

\* A step of the tick alone keeps the invariant if the tick does.
LEMMA TickOnlyKeeps ==
    ASSUME Inv, TickOnly, tick' \in Tick, TickInv'
    PROVE  Inv'
BY StandsKeeps, AloneKeeps, ServiceStands, UnchangedKeeps DEF Inv, TickOnly

\* A visit keeps what the tick relies on.
LEMMA VisitKeeps ==
    ASSUME Inv, NEW n \in Node, NEW l, Visit(l, n), LedgerKeeps
    PROVE  tick' \in Tick /\ TickInv'
<1>1. tick.todo \subseteq Node
  BY DEF Inv, TypeOK, Tick
<1> QED
  BY <1>1, VisitDoes DEF Inv, TickInv, Carries, LedgerKeeps, Leg

\* Each step of the tick keeps the invariant.
LEMMA TickStepKeeps ==
    ASSUME Inv, TickStep
    PROVE  Inv'
<1> USE DEF Inv
<1>1. CASE ListTargets
  BY <1>1, ListTargetsDoes, TickOnlyKeeps DEF Carries, TickInv
<1>2. CASE ReadBindings
  <2>1. TickInv'
    BY <1>2, ReadBindingsDoes DEF Carries, TickInv, Bound
  <2> QED
    BY <1>2, <2>1, ReadBindingsDoes, TickOnlyKeeps DEF Carries
<1>3. CASE EndSweep
  <2>1. LedgerUnchanged
    BY <1>3, EndSweepDoes DEF TickOnly
  <2>2. TickInv'
    BY <1>3, <2>1, EndSweepDoes DEF Carries, TickInv, Bound, LedgerUnchanged
  <2> QED
    BY <1>3, <2>2, EndSweepDoes, TickOnlyKeeps
<1>4. CASE EndWatch
  BY <1>4, EndWatchDoes, TickOnlyKeeps DEF TickInv
<1>5. CASE EndOutbox
  BY <1>5, EndOutboxDoes, TickOnlyKeeps DEF Carries, TickInv
<1>6. CASE ListSessions
  <2>1. TickInv'
    BY <1>6, ListSessionsDoes DEF Carries, TickInv, NoBinding
  <2> QED
    BY <1>6, <2>1, ListSessionsDoes, TickOnlyKeeps DEF Carries
<1>7. CASE EndTick
  BY <1>7, EndTickDoes, TickOnlyKeeps DEF TickInv
<1>8. ASSUME NEW n \in Node, Sweep(n) PROVE Inv'
  <2>1. LedgerKeeps
    BY <1>8, SweepDoes, OnlyLedgerKeeps, UnchangedKeeps DEF Advances
  <2>2. tick.todo \subseteq Node
    BY DEF TypeOK, Tick
  <2>3. tick' \in Tick /\ TickInv'
    BY <1>8, <2>1, <2>2, SweepVisits DEF TickInv, Carries, LedgerKeeps, Leg
  <2> QED
    BY <1>8, <2>1, <2>3, SweepDoes, StandsKeeps, AloneKeeps, ServiceStands
<1>9. ASSUME NEW n \in Node, ReadSignOff(n) PROVE Inv'
  <2>1. Visit("watch", n)
    BY <1>9 DEF ReadSignOff
  <2>2. LedgerKeeps
    BY <1>9, ReadSignOffDoes, UnchangedKeeps
  <2>3. tick' \in Tick /\ TickInv'
    BY <2>1, <2>2, VisitKeeps
  <2>4. OpInv("poll")'
    BY <1>9, ReadSignOffDoes DEF OpInv, Claimant, TerminalStates
  <2> QED
    BY <1>9, <2>2, <2>3, <2>4, ReadSignOffDoes, StepKeeps, AloneKeeps,
       ServiceStands DEF Thread
<1>10. ASSUME NEW n \in Node, FailIdleLeaf(n) PROVE Inv'
  <2>1. Visit("watch", n)
    BY <1>10 DEF FailIdleLeaf
  <2>2. LedgerKeeps
    BY <1>10, FailIdleLeafDoes, UnchangedKeeps
  <2>3. tick' \in Tick /\ TickInv'
    BY <2>1, <2>2, VisitKeeps
  <2>4. OpInv("poll")'
    BY <1>10, FailIdleLeafDoes DEF OpInv, Claimant, TerminalStates
  <2> QED
    BY <1>10, <2>2, <2>3, <2>4, FailIdleLeafDoes, StepKeeps, AloneKeeps,
       ServiceStands DEF Thread
<1>11. ASSUME NEW n \in Node, NEW l, Visit(l, n), LedgerUnchanged,
              UNCHANGED <<pane, files, op, service, spent>>
       PROVE  Inv'
  <2>1. LedgerKeeps
    BY <1>11, UnchangedKeeps
  <2>2. tick' \in Tick /\ TickInv'
    BY <1>11, <2>1, VisitKeeps
  <2> QED
    BY <1>11, <2>1, <2>2, StandsKeeps, AloneKeeps, ServiceStands
<1>12. ASSUME NEW n \in Node, LeaveNode(n) \/ LeaveSlot(n) PROVE Inv'
  BY <1>11, <1>12 DEF LeaveNode, LeaveSlot
<1>13. ASSUME NEW n \in Node, OpenOutbox(n) PROVE Inv'
  <2>1. Visit("outbox", n)
    BY <1>13 DEF OpenOutbox
  <2>2. LedgerKeeps
    BY <1>13, OpenOutboxDoes, UnchangedKeeps
  <2>3. tick' \in Tick /\ TickInv'
    BY <2>1, <2>2, VisitKeeps
  <2> QED
    BY <1>13, <2>2, <2>3, OpenOutboxDoes, StandsKeeps, AloneKeeps
<1>14. ASSUME NEW n \in Node, Redrive(n) PROVE Inv'
  <2>1. Visit("redrive", n)
    BY <1>14 DEF Redrive
  <2>2. LedgerKeeps
    BY <1>14, RedriveDoes, UnchangedKeeps
  <2>3. tick' \in Tick /\ TickInv'
    BY <2>1, <2>2, VisitKeeps
  <2>4. OpInv("poll")'
    BY <1>14, RedriveDoes DEF OpInv, Claimant
  <2> QED
    BY <1>14, <2>2, <2>3, <2>4, RedriveDoes, StepKeeps, AloneKeeps,
       ServiceStands DEF Thread
<1> QED
  BY <1>1, <1>2, <1>3, <1>4, <1>5, <1>6, <1>7, <1>8, <1>9, <1>10, <1>12,
     <1>13, <1>14 DEF TickStep

-----------------------------------------------------------------------------
(* The invariant through the steps of clients, actors and crashes. *)

\* Pausing a bound node moves nothing else of its binding.
LEMMA ClientPauseDoes ==
    ASSUME TypeOK, NEW n \in Node, NEW flag \in BOOLEAN, ClientPause(n, flag)
    PROVE  /\ OnlyLedger(n) /\ bindings[n] \in Binding
           /\ bindings' = [bindings EXCEPT ![n].paused = flag]
           /\ bindings'[n] \in Binding
           /\ bindings'[n].state = bindings[n].state
           /\ bindings'[n].gen = bindings[n].gen
           /\ bindings'[n].epoch = bindings[n].epoch
           /\ bindings'[n].stamped = bindings[n].stamped
           /\ calls' = calls + 1
           /\ UNCHANGED <<pane, files, op, service, tick, crashes>>
<1>1. bindings[n] \in Binding
  BY DEF ClientPause, Bound, TypeOK
<1>2. PICK b : b = [bindings[n] EXCEPT !.paused = flag]
  OBVIOUS
<1>3. /\ b \in Binding /\ b.state = bindings[n].state
      /\ b.gen = bindings[n].gen /\ b.epoch = bindings[n].epoch
      /\ b.stamped = bindings[n].stamped
  BY <1>1, <1>2 DEF Binding
<1>4. CommitBinding(n, b)
  BY <1>2 DEF ClientPause
<1>5. OnlyLedger(n) /\ bindings'[n] = b
  BY <1>3, <1>4, CommitIs
<1>6. bindings' = [bindings EXCEPT ![n].paused = flag]
  BY DEF ClientPause, CommitBinding
<1> QED
  BY <1>1, <1>3, <1>5, <1>6 DEF ClientPause, Serving


\* A verb that starts an operation keeps the invariant.
LEMMA VerbKeeps ==
    ASSUME Inv, NEW o \in Op, Start("ipc", o),
           o.pc \in {"pause", "parent", "collapse"},
           o.pc = "collapse" => o.aim \in TerminalStates,
           LedgerUnchanged, calls' = calls + 1,
           UNCHANGED <<pane, files, service, tick, crashes>>
    PROVE  Inv'
<1> USE DEF Inv
<1>1. OnlyOp("ipc") /\ op'["ipc"] = o
  BY StartIs DEF Thread
<1>2. OpInv("ipc")'
  BY <1>1 DEF OpInv, Claimant
<1>3. LedgerKeeps /\ FilesOK'
  BY UnchangedKeeps, FilesUnchanged
<1>4. tick' \in Tick /\ TickInv'
  BY <1>3, TickKeeps DEF TypeOK
<1>5. crashes' \in Nat /\ calls' \in Nat
  BY DEF TypeOK
<1> QED
  BY <1>1, <1>2, <1>3, <1>4, <1>5, StepKeeps, ServiceStands DEF Thread

\* Each verb of a client keeps the invariant.
LEMMA ClientStepKeeps ==
    ASSUME Inv, ClientStep
    PROVE  Inv'
<1> USE DEF Inv
<1>1. ASSUME NEW n \in Node, ClientSpawn(n) PROVE Inv'
  <2>1. bindings[n] \in Binding
    BY <1>1 DEF ClientSpawn, Bound, TypeOK
  <2>2. bindings[n].state \in KnownStates /\ bindings[n].gen \in Nat
    BY <2>1 DEF Binding
  <2>3. PICK o : o = ClaimOp(n, bindings[n].state, bindings[n].gen, NoToken)
    OBVIOUS
  <2>4. "pause" \in PC /\ "claimed" \in KnownStates /\ NoToken \in Nat
    BY DEF PC, KnownStates, NoToken
  <2>5. o \in Op /\ o.pc = "pause"
    BY <2>2, <2>3, <2>4 DEF ClaimOp, NewOp, Op
  <2> QED
    BY <1>1, <2>3, <2>5, VerbKeeps DEF ClientSpawn, Serving
<1>2. ASSUME NEW c \in Node, ClientSpawnChild(c) PROVE Inv'
  <2>1. bindings[Parent[c]] \in Binding
    BY <1>2 DEF ClientSpawnChild, Bound, TypeOK
  <2>2. bindings[Parent[c]].epoch \in Nat /\ NoToken \in Nat
    BY <2>1 DEF Binding, NoToken
  <2>3. PICK token \in Nat : Start("ipc", ChildOp(c, token, FALSE))
    BY <1>2, <2>2 DEF ClientSpawnChild
  <2>4. PICK o : o = ChildOp(c, token, FALSE)
    OBVIOUS
  <2>5. /\ "parent" \in PC
        /\ "claimed" \in KnownStates /\ "planned" \in KnownStates
    BY DEF PC, KnownStates
  <2>6. o \in Op /\ o.pc = "parent"
    BY <2>4, <2>5 DEF ChildOp, NewOp, Op
  <2> QED
    BY <1>2, <2>3, <2>4, <2>6, VerbKeeps DEF ClientSpawnChild, Serving
<1>3. ASSUME NEW p \in Node, ClientServiceOutbox(p) PROVE Inv'
  <2>1. service' \in [Thread -> Services]
    BY <1>3, RequestsAre DEF ClientServiceOutbox, TypeOK, Thread, Services
  <2>2. LedgerKeeps /\ FilesOK'
    BY <1>3, UnchangedKeeps, FilesUnchanged DEF ClientServiceOutbox
  <2>3. tick' \in Tick /\ TickInv'
    BY <1>3, <2>2, TickKeeps DEF ClientServiceOutbox, TypeOK
  <2>4. crashes' \in Nat /\ calls' \in Nat
    BY <1>3 DEF ClientServiceOutbox, Serving, TypeOK
  <2> QED
    BY <1>3, <2>1, <2>2, <2>3, <2>4, StandsKeeps DEF ClientServiceOutbox
<1>4. ASSUME NEW n \in Node, ClientKill(n) PROVE Inv'
  <2>1. bindings[n] \in Binding
    BY <1>4 DEF ClientKill, Bound, TypeOK
  <2>2. bindings[n].state \in KnownStates /\ bindings[n].gen \in Nat
    BY <2>1 DEF Binding
  <2>3. PICK aim \in TerminalStates :
           Start("ipc", CollapseOp(n, NoToken, aim))
    BY <1>4 DEF ClientKill
  <2>4. PICK o : o = CollapseOp(n, NoToken, aim)
    OBVIOUS
  <2>5. "collapse" \in PC /\ aim \in KnownStates /\ NoToken \in Nat
    BY DEF PC, KnownStates, TerminalStates, NoToken
  <2>6. o \in Op /\ o.pc = "collapse" /\ o.aim = aim
    BY <2>2, <2>4, <2>5 DEF CollapseOp, NewOp, Op
  <2> QED
    BY <1>4, <2>3, <2>4, <2>6, VerbKeeps DEF ClientKill, Serving
<1>5. ASSUME NEW n \in Node, NEW flag \in BOOLEAN, ClientPause(n, flag)
      PROVE  Inv'
  <2>1. LedgerKeeps
    BY <1>5, ClientPauseDoes, OnlyLedgerKeeps
  <2>2. FilesOK'
    BY <1>5, ClientPauseDoes, FilesUnchanged
  <2>3. tick' \in Tick /\ TickInv'
    BY <1>5, <2>1, ClientPauseDoes, TickKeeps DEF TypeOK
  <2>4. crashes' \in Nat /\ calls' \in Nat
    BY <1>5, ClientPauseDoes DEF TypeOK
  <2> QED
    BY <1>5, <2>1, <2>2, <2>3, <2>4, ClientPauseDoes, StandsKeeps,
       ServiceStands
<1> QED
  BY <1>1, <1>2, <1>3, <1>4, <1>5 DEF ClientStep

\* What actors and tmux do touches files and panes alone.
LEMMA ActorStepDoes ==
    ASSUME TypeOK, ActorStep
    PROVE  /\ FilesOK' /\ LedgerUnchanged
           /\ UNCHANGED <<handshake, op, service, tick, spent>>
           /\ \A m \in Node : pane'[m] \in {pane[m], NoPane}
<1>1. ASSUME NEW c \in Node, ParentRequests(c)
      PROVE  /\ request' \in [Node -> {"none", "pending", "done", "rejected"}]
             /\ briefed' \in [Node -> BOOLEAN]
  BY <1>1 DEF ParentRequests, TypeOK
<1>2. ASSUME NEW n \in Node, SignOff(n)
      PROVE  signal' \in [Node -> [kind : {"none", "done", "failed"},
                                   token : Nat]]
  <2>1. pane[n].owner \in Nat /\ handshake[n] \in Nat
    BY DEF TypeOK
  <2>2. PICK s \in [kind : {"none", "done", "failed"}, token : Nat] :
           signal' = [signal EXCEPT ![n] = s]
    BY <1>2, <2>1 DEF SignOff
  <2> QED
    BY <2>2 DEF TypeOK
<1>3. ASSUME NEW n \in Node, PaneDies(n)
      PROVE  /\ pane' \in [Node -> [owner : Nat]]
             /\ \A m \in Node : pane'[m] \in {pane[m], NoPane}
  BY <1>3 DEF PaneDies, TypeOK, NoPane
<1>4. CASE \E c \in Node : ParentRequests(c)
  BY <1>1, <1>4 DEF ParentRequests, TypeOK, FilesOK
<1>5. CASE \E n \in Node : SignOff(n)
  BY <1>2, <1>5 DEF SignOff, TypeOK, FilesOK
<1>6. CASE \E n \in Node : PaneDies(n)
  BY <1>3, <1>6 DEF PaneDies, TypeOK, FilesOK, files
<1> QED
  BY <1>4, <1>5, <1>6 DEF ActorStep

\* Each thing that an actor does keeps the invariant.
LEMMA ActorStepKeeps ==
    ASSUME Inv, ActorStep
    PROVE  Inv'
<1> USE DEF Inv
<1>1. LedgerKeeps
  BY ActorStepDoes, UnchangedKeeps
<1>2. tick' \in Tick /\ TickInv'
  BY <1>1, ActorStepDoes, TickKeeps DEF TypeOK
<1>3. crashes' \in Nat /\ calls' \in Nat
  BY ActorStepDoes DEF TypeOK, spent
<1> QED
  BY <1>1, <1>2, <1>3, ActorStepDoes, StandsKeeps, ServiceStands

\* A crash loses every operation and the tick.
LEMMA CrashKeeps ==
    ASSUME Inv, Crash
    PROVE  Inv'
<1>1. /\ op' = Idle /\ service' = [t \in Thread |-> {}]
      /\ tick' = StartTick(TRUE) /\ crashes' \in Nat /\ calls' \in Nat
  BY DEF Crash, Inv, TypeOK
<1>2. tick' \in Tick /\ tick'.leg = "list"
  BY <1>1, StartTickIs
<1>3. \A t \in Thread : op'[t] = NoOp /\ OpInv(t)'
  BY <1>1 DEF Idle, OpInv, NoOp, Claimant
<1>4. op' \in [Thread -> Op \cup {NoOp}]
  BY <1>1 DEF Idle
<1>5. TypeOK'
  BY <1>1, <1>2, <1>4 DEF Crash, Inv, TypeOK, LedgerUnchanged, files
<1>6. TickInv'
  BY <1>2 DEF TickInv
<1> QED
  BY <1>3, <1>5, <1>6 DEF Inv

-----------------------------------------------------------------------------
(* The first theorems. *)

\* The invariant holds as the daemon starts.
LEMMA InitEstablishes ==
    ASSUME Init
    PROVE  Inv
<1>1. tick \in Tick /\ tick.leg = "list"
  BY StartTickIs DEF Init
<1>2. \A t \in Thread : op[t] = NoOp /\ OpInv(t)
  BY DEF Init, Idle, OpInv, NoOp, Claimant
<1>3. [state |-> "running", gen |-> 3, epoch |-> 2, stamped |-> TRUE,
       paused |-> FALSE] \in Binding
  BY DEF Binding, KnownStates
<1>4. bindings \in [Node -> Binding \cup {NoBinding}]
  BY <1>3 DEF Init
<1>5. walEpoch \in [Node -> Nat] /\ handshake \in [Node -> Nat]
  BY DEF Init, NoToken
<1>6. pane \in [Node -> [owner : Nat]]
  BY DEF Init, NoPane
<1>7. signal \in [Node -> [kind : {"none", "done", "failed"}, token : Nat]]
  BY DEF Init, NoSignal
<1>8. /\ request \in [Node -> {"none", "pending", "done", "rejected"}]
      /\ briefed \in [Node -> BOOLEAN]
      /\ op \in [Thread -> Op \cup {NoOp}]
      /\ service \in [Thread -> SUBSET [node : Node, token : Nat]]
      /\ crashes \in Nat /\ calls \in Nat
  BY DEF Init, Idle
<1>9. TypeOK
  BY <1>1, <1>4, <1>5, <1>6, <1>7, <1>8 DEF TypeOK
<1>10. TickInv
  BY <1>1 DEF TickInv
<1> QED
  BY <1>2, <1>9, <1>10 DEF Inv

\* Each step of the system keeps the invariant.
LEMMA NextKeeps ==
    ASSUME Inv, [Next]_vars
    PROVE  Inv'
<1>1. CASE UNCHANGED vars
  BY <1>1 DEF vars, files, spent, Inv, TypeOK, OpInv, TickInv
<1>2. CASE Next
  BY <1>2, OperationStepKeeps, TickStepKeeps, ClientStepKeeps,
     ActorStepKeeps, CrashKeeps DEF Next, PollStep, IpcStep, Thread
<1> QED
  BY <1>1, <1>2

\* What the threads and the tick of poll_once rely on holds throughout, with
\* both threads, every verb, crashes at any step and failing writes.
THEOREM Invariance == Spec => []Inv
BY InitEstablishes, NextKeeps, PTL DEF Spec

\* Every variable keeps its type; in particular a binding that was read is
\* still there when poll_once or the outbox comes to use it.
THEOREM TypeCorrect == Spec => []TypeOK
<1>1. Inv => TypeOK
  BY DEF Inv
<1> QED
  BY <1>1, Invariance, PTL

-----------------------------------------------------------------------------
(* No claim leaks. *)

FaultFree == MaxCrashes = 0 /\ ~DiskFaults

\* The steps that see a claim through or give it back, and those that do so
\* with a spawn whose actor is on record.
Reaching == {"gate", "kill", "sign", "open", "step4", "release"}
Confirming == {"step5", "rollback"}

Holding == {"claimed", "spawning"}

Holds(t, n) ==
    /\ op[t].pc \in IF bindings[n].state = "claimed" THEN Reaching
                                                     ELSE Confirming
    /\ op[t].node = n /\ op[t].token = bindings[n].epoch

\* A claim has a thread that is at the right step of the right operation.
HolderInv ==
    \A n \in Node : bindings[n].state \in Holding
                        => \E t \in Thread : Holds(t, n)

\* The state and the epoch of a node stay.
Stays(n) == /\ bindings'[n].state = bindings[n].state
            /\ bindings'[n].epoch = bindings[n].epoch

\* It is enough to look at the thread that moves.
LEMMA HolderKeeps ==
    ASSUME HolderInv, NEW t \in Thread, OnlyOp(t),
           \A n \in Node : bindings'[n].state \in Holding
               => Holds(t, n)' \/ (Stays(n) /\ ~Holds(t, n))
    PROVE  HolderInv'
<1> SUFFICES ASSUME NEW n \in Node, bindings'[n].state \in Holding,
                    Stays(n), ~Holds(t, n)
             PROVE  \E u \in Thread : Holds(u, n)'
  BY DEF HolderInv
<1>1. PICK u \in Thread : Holds(u, n)
  BY DEF HolderInv, Stays
<1>2. op'[u] = op[u]
  BY <1>1 DEF OnlyOp
<1>3. Holds(u, n)'
  BY <1>1, <1>2 DEF Holds, Stays
<1> QED
  BY <1>3

\* And of the nodes only at the one it is about.
LEMMA OwnNodeSuffices ==
    ASSUME HolderInv, NEW t \in Thread, OnlyOp(t), op[t].node \in Node,
           \A m \in Node : m # op[t].node => bindings'[m] = bindings[m],
           bindings'[op[t].node].state \in Holding
               => \/ op'[t].node = op[t].node /\ Holds(t, op[t].node)'
                  \/ Stays(op[t].node) /\ ~Holds(t, op[t].node)
    PROVE  HolderInv'
<1>1. \A n \in Node : bindings'[n].state \in Holding
          => Holds(t, n)' \/ (Stays(n) /\ ~Holds(t, n))
  <2> SUFFICES ASSUME NEW n \in Node, bindings'[n].state \in Holding
               PROVE  Holds(t, n)' \/ (Stays(n) /\ ~Holds(t, n))
    OBVIOUS
  <2>1. CASE n # op[t].node
    BY <2>1 DEF Stays, Holds
  <2>2. CASE n = op[t].node
    BY <2>2 DEF Stays, Holds
  <2> QED
    BY <2>1, <2>2
<1> QED
  BY <1>1, HolderKeeps

\* A thread that holds nothing may move while the ledger stands still.
LEMMA BystanderMoves ==
    ASSUME HolderInv, NEW t \in Thread, OnlyOp(t),
           op[t].pc \notin Reaching \cup Confirming, UNCHANGED bindings
    PROVE  HolderInv'
<1>1. \A n \in Node : Stays(n) /\ ~Holds(t, n)
  BY DEF Stays, Holds
<1> QED
  BY <1>1, HolderKeeps

\* One that holds may move on within its part of the operation.
LEMMA HolderMoves ==
    ASSUME HolderInv, NEW t \in Thread, NEW pc, Goes(t, pc),
           \/ op[t].pc \in Reaching /\ pc \in Reaching
           \/ op[t].pc \in Confirming /\ pc \in Confirming,
           UNCHANGED bindings
    PROVE  HolderInv'
<1>1. \A n \in Node : Holds(t, n) => Holds(t, n)'
  BY DEF Goes, Holds, Reaching, Confirming
<1>2. \A n \in Node : Stays(n)
  BY DEF Stays
<1> QED
  BY <1>1, <1>2, HolderKeeps DEF Goes

\* Each step of a spawn leaves every claim with a holder.
LEMMA SpawnStepHolds ==
    ASSUME ~DiskFaults, Inv, HolderInv, NEW t \in Thread, SpawnStep(t)
    PROVE  HolderInv'
<1> USE DEF Inv, At
<1>1. CASE CheckParent(t)
  BY <1>1, CheckParentDoes, BystanderMoves
     DEF CheckParent, Reaching, Confirming, LedgerUnchanged, Goes, Ends
<1>2. CASE LookAtChild(t)
  BY <1>2, LookAtChildDoes, BystanderMoves
     DEF LookAtChild, Reaching, Confirming, LedgerUnchanged, Goes
<1>3. CASE ReapPane(t)
  BY <1>3, ReapPaneDoes, BystanderMoves
     DEF ReapPane, Reaching, Confirming, LedgerUnchanged, Goes
<1>4. CASE SeedIdentity(t)
  BY <1>4, SeedIdentityDoes, BystanderMoves
     DEF SeedIdentity, Reaching, Confirming, LedgerUnchanged, Ends
<1>5. CASE WriteRegistration(t)
  <2>1. op[t].node \in Node
    BY <1>5, AtIsOp DEF WriteRegistration, PC
  <2>2. bindings'[op[t].node] =
            [state |-> "planned", gen |-> 0, epoch |-> op[t].token,
             stamped |-> FALSE, paused |-> FALSE]
    BY <1>5, WriteRegistrationDoes
  <2>3. bindings'[op[t].node].state = "planned"
    BY <2>2
  <2>4. bindings'[op[t].node].state \notin Holding
    BY <2>3 DEF Holding
  <2> QED
    BY <1>5, <2>1, <2>4, WriteRegistrationDoes, OwnNodeSuffices
       DEF Goes, OnlyLedger
<1>6. CASE WriteBrief(t)
  BY <1>6, WriteBriefDoes, BystanderMoves
     DEF WriteBrief, Reaching, Confirming, Goes
<1>7. CASE ReadToken(t)
  BY <1>7, ReadTokenDoes, BystanderMoves
     DEF ReadToken, Reaching, Confirming, LedgerUnchanged
<1>8. CASE CheckPause(t)
  BY <1>8, CheckPauseDoes, BystanderMoves
     DEF CheckPause, Reaching, Confirming, LedgerUnchanged, Goes, Ends
<1>9. CASE Claim(t)
  <2>1. op[t].node \in Node
    BY <1>9, AtIsOp DEF Claim, PC
  <2>2. CASE Ends(t) /\ LedgerUnchanged
    BY <1>9, <2>2, BystanderMoves
       DEF Claim, Reaching, Confirming, LedgerUnchanged, Ends
  <2>3. CASE ~(Ends(t) /\ LedgerUnchanged)
    <3>1. /\ OnlyOp(t) /\ op'[t].pc = "gate" /\ op'[t].node = op[t].node
          /\ op'[t].token = bindings[op[t].node].epoch + 1
          /\ Advances(op[t].node, "claimed", bindings[op[t].node].epoch + 1)
      BY <1>9, <2>3, ClaimDoes
    <3>2. Holds(t, op[t].node)'
      BY <3>1 DEF Holds, Advances, Reaching
    <3> QED
      BY <2>1, <3>1, <3>2, OwnNodeSuffices DEF Advances, OnlyLedger
  <2> QED
    BY <2>2, <2>3
<1>10. CASE Gate(t)
  BY <1>10, GateDoes, HolderMoves DEF Gate, Reaching, LedgerUnchanged
<1>11. CASE KillStalePane(t)
  BY <1>11, KillStalePaneDoes, HolderMoves
     DEF KillStalePane, Reaching, LedgerUnchanged
<1>12. CASE WriteHandshake(t)
  BY <1>12, WriteHandshakeDoes, HolderMoves
     DEF WriteHandshake, Reaching, LedgerUnchanged
<1>13. CASE OpenActor(t)
  BY <1>13, OpenActorDoes, HolderMoves
     DEF OpenActor, Reaching, LedgerUnchanged
<1>14. CASE RecordActor(t)
  <2>1. op[t].node \in Node
    BY <1>14, AtIsOp DEF RecordActor, PC
  <2>2. CASE Goes(t, "release") /\ LedgerUnchanged
    BY <1>14, <2>2, HolderMoves DEF RecordActor, Reaching, LedgerUnchanged
  <2>3. CASE ~(Goes(t, "release") /\ LedgerUnchanged)
    <3>1. /\ OnlyOp(t) /\ op'[t].pc = "step5" /\ op'[t].node = op[t].node
          /\ op'[t].token = op[t].token
          /\ Advances(op[t].node, "spawning", op[t].token)
      BY <1>14, <2>3, RecordActorDoes
    <3>2. Holds(t, op[t].node)'
      BY <3>1 DEF Holds, Advances, Confirming
    <3> QED
      BY <2>1, <3>1, <3>2, OwnNodeSuffices DEF Advances, OnlyLedger
  <2> QED
    BY <2>2, <2>3
<1>15. CASE ConfirmRunning(t)
  <2>1. op[t].node \in Node
    BY <1>15, AtIsOp DEF ConfirmRunning, PC
  <2>2. CASE Goes(t, "rollback") /\ LedgerUnchanged
    BY <1>15, <2>2, HolderMoves
       DEF ConfirmRunning, Confirming, LedgerUnchanged
  <2>3. CASE ~(Goes(t, "rollback") /\ LedgerUnchanged)
    <3>1. /\ Ends(t)
          /\ Advances(op[t].node, "running", bindings[op[t].node].epoch)
      BY <1>15, <2>3, ConfirmRunningDoes
    <3> QED
      BY <2>1, <3>1, OwnNodeSuffices
         DEF Ends, Advances, OnlyLedger, Holding
  <2> QED
    BY <2>2, <2>3
<1>16. ASSUME NEW from \in Holding, BackToPlanned(t, from), op[t].pc \in PC,
              op[t].pc \in IF from = "claimed" THEN Reaching ELSE Confirming
       PROVE  HolderInv'
  <2> DEFINE n == op[t].node
  <2>1. n \in Node
    BY <1>16, AtIsOp
  <2>2. CASE Advances(n, "planned", bindings[n].epoch + 1)
    BY <1>16, <2>1, <2>2, BackToPlannedDoes, OwnNodeSuffices
       DEF Ends, Advances, OnlyLedger, Holding
  <2>3. CASE /\ ~(bindings[n].state = from /\ bindings[n].epoch = op[t].token)
             /\ LedgerUnchanged
    <3>1. bindings[n].state \in Holding => ~Holds(t, n)
      BY <1>16, <2>3 DEF Holds, Holding, Reaching, Confirming
    <3> QED
      BY <1>16, <2>1, <2>3, <3>1, BackToPlannedDoes, OwnNodeSuffices
         DEF Ends, LedgerUnchanged, Stays, Holding
  <2> QED
    BY <1>16, <2>2, <2>3, BackToPlannedDoes DEF Holding
<1>17. CASE ReleaseClaim(t)
  BY <1>16, <1>17 DEF ReleaseClaim, PC, Holding, Reaching
<1>18. CASE RollbackSpawning(t)
  BY <1>16, <1>18 DEF RollbackSpawning, PC, Holding, Confirming
<1> QED
  BY <1>1, <1>2, <1>3, <1>4, <1>5, <1>6, <1>7, <1>8, <1>9, <1>10, <1>11,
     <1>12, <1>13, <1>14, <1>15, <1>17, <1>18 DEF SpawnStep

\* A step that moves no operation and ends or spares every claim.
LEMMA StandsHolds ==
    ASSUME HolderInv, UNCHANGED op,
           \A n \in Node : bindings'[n].state \in Holding => Stays(n)
    PROVE  HolderInv'
<1> SUFFICES ASSUME NEW n \in Node, bindings'[n].state \in Holding
             PROVE  \E u \in Thread : Holds(u, n)'
  BY DEF HolderInv
<1>1. PICK u \in Thread : Holds(u, n)
  BY DEF HolderInv, Stays
<1> QED
  BY <1>1 DEF Holds, Stays

\* Each step of an operation keeps a holder to each claim.
LEMMA OperationStepHolds ==
    ASSUME ~DiskFaults, Inv, HolderInv, NEW t \in Thread, OperationStep(t)
    PROVE  HolderInv'
<1> USE DEF Inv
<1>1. CASE Collapse(t)
  <2>1. /\ op[t].node \in Node /\ op[t].pc = "collapse"
        /\ op[t].aim \in TerminalStates
    BY <1>1, AtIsOp DEF Collapse, At, PC, OpInv
  <2>2. CASE LedgerUnchanged
    BY <1>1, <2>1, <2>2, CollapseDoes, BystanderMoves
       DEF LedgerUnchanged, Reaching, Confirming
  <2>3. CASE Advances(op[t].node, op[t].aim, bindings[op[t].node].epoch)
    BY <1>1, <2>1, <2>3, CollapseDoes, OwnNodeSuffices
       DEF Advances, OnlyLedger, Holding, TerminalStates
  <2> QED
    BY <1>1, <2>2, <2>3, CollapseDoes
<1>2. CASE Consume(t) \/ Refuse(t)
  <2>1. op[t].pc \in {"consume", "refuse"}
    BY <1>2 DEF Consume, Refuse, At
  <2>2. PICK status \in {"done", "rejected"} : EndRequest(t, status)
    BY <1>2 DEF Consume, Refuse
  <2> QED
    BY <2>1, <2>2, EndRequestDoes, BystanderMoves
       DEF LedgerUnchanged, Reaching, Confirming
<1>3. CASE ServiceRequest(t)
  BY <1>3, ServiceRequestDoes, BystanderMoves
     DEF LedgerUnchanged, Reaching, Confirming, NoOp
<1> QED
  BY <1>1, <1>2, <1>3, SpawnStepHolds DEF OperationStep

\* So does each step of the tick.
LEMMA TickStepHolds ==
    ASSUME Inv, HolderInv, TickStep
    PROVE  HolderInv'
<1> USE DEF Inv
<1>1. ASSUME UNCHANGED op, UNCHANGED bindings PROVE HolderInv'
  BY <1>1, StandsHolds DEF Stays
<1>2. ASSUME OnlyOp("poll"), op["poll"] = NoOp, UNCHANGED bindings
      PROVE  HolderInv'
  BY <1>2, BystanderMoves DEF Thread, NoOp, Reaching, Confirming
<1>3. CASE \/ ListTargets \/ ReadBindings \/ EndSweep \/ EndWatch
           \/ EndOutbox \/ ListSessions \/ EndTick
  BY <1>1, <1>3
     DEF ListTargets, ReadBindings, EndSweep, EndWatch, EndOutbox,
         ListSessions, EndTick, TickOnly, LedgerUnchanged
<1>4. ASSUME NEW n \in Node, Sweep(n) PROVE HolderInv'
  <2>1. CASE LedgerUnchanged
    BY <1>1, <1>4, <2>1 DEF Sweep, LedgerUnchanged
  <2>2. CASE /\ OnlyLedger(n)
             /\ bindings'[n].state \in {"dead", "failed"}
    <3>1. \A m \in Node : bindings'[m].state \in Holding => Stays(m)
      BY <2>2 DEF OnlyLedger, Holding, Stays
    <3> QED
      BY <1>4, <3>1, StandsHolds DEF Sweep
  <2> QED
    BY <1>4, <2>1, <2>2, SweepDoes DEF Advances
<1>5. ASSUME NEW n \in Node, LeaveNode(n) \/ LeaveSlot(n) \/ OpenOutbox(n)
      PROVE  HolderInv'
  BY <1>1, <1>5 DEF LeaveNode, LeaveSlot, OpenOutbox, LedgerUnchanged
<1>6. ASSUME NEW n \in Node, ReadSignOff(n) \/ FailIdleLeaf(n) \/ Redrive(n)
      PROVE  HolderInv'
  BY <1>2, <1>6, ReadSignOffDoes, FailIdleLeafDoes, RedriveDoes
     DEF LedgerUnchanged
<1> QED
  BY <1>3, <1>4, <1>5, <1>6 DEF TickStep

\* So does each verb of a client.
LEMMA ClientStepHolds ==
    ASSUME Inv, HolderInv, ClientStep
    PROVE  HolderInv'
<1> USE DEF Inv
<1>1. ASSUME NEW n \in Node, NEW flag \in BOOLEAN, ClientPause(n, flag)
      PROVE  HolderInv'
  <2>1. \A m \in Node : Stays(m)
    BY <1>1, ClientPauseDoes DEF OnlyLedger, Stays
  <2> QED
    BY <1>1, <2>1, ClientPauseDoes, StandsHolds
<1>2. ASSUME NEW p \in Node, ClientServiceOutbox(p) PROVE HolderInv'
  BY <1>2, StandsHolds DEF ClientServiceOutbox, LedgerUnchanged, Stays
<1>3. ASSUME NEW o, Start("ipc", o), UNCHANGED bindings PROVE HolderInv'
  <2>1. /\ op["ipc"] = NoOp
        /\ \A u \in Thread : u # "ipc" => op'[u] = op[u]
    BY <1>3 DEF Start, TypeOK
  <2>2. SUFFICES ASSUME NEW n \in Node, bindings'[n].state \in Holding
                 PROVE  \E u \in Thread : Holds(u, n)'
    BY DEF HolderInv
  <2>3. PICK u \in Thread : Holds(u, n)
    BY <1>3, <2>2 DEF HolderInv
  <2>4. u # "ipc"
    BY <2>1, <2>3 DEF Holds, NoOp, Reaching, Confirming
  <2> QED
    BY <1>3, <2>1, <2>3, <2>4 DEF Holds
<1>4. ASSUME NEW n \in Node,
             ClientSpawn(n) \/ ClientSpawnChild(n) \/ ClientKill(n)
      PROVE  HolderInv'
  BY <1>3, <1>4
     DEF ClientSpawn, ClientSpawnChild, ClientKill, LedgerUnchanged
<1> QED
  BY <1>1, <1>2, <1>4 DEF ClientStep

\* Without a crash and without a failing disk no claim leaks.
THEOREM NoClaimLeaks == FaultFree => (Spec => []ClaimHasHolder)
<1> SUFFICES ASSUME FaultFree PROVE Spec => []ClaimHasHolder
  OBVIOUS
<1>1. Init => HolderInv
  BY DEF Init, HolderInv, Holding, NoBinding
<1>2. Inv /\ HolderInv /\ [Next]_vars => HolderInv'
  <2> SUFFICES ASSUME Inv, HolderInv, [Next]_vars PROVE HolderInv'
    OBVIOUS
  <2>1. CASE UNCHANGED vars
    BY <2>1, StandsHolds DEF vars, Stays
  <2>2. CASE ActorStep
    BY <2>2, ActorStepDoes, StandsHolds DEF Inv, LedgerUnchanged, Stays
  <2>3. CASE Crash
    BY <2>3 DEF Crash, FaultFree, Inv, TypeOK
  <2> QED
    BY <2>1, <2>2, <2>3, OperationStepHolds, TickStepHolds, ClientStepHolds
       DEF Next, PollStep, IpcStep, Thread, FaultFree
<1>3. HolderInv => ClaimHasHolder
  BY DEF HolderInv, ClaimHasHolder, Holding, Holds, Reaching, Confirming,
         Claimant
<1> QED
  BY <1>1, <1>2, <1>3, Invariance, PTL DEF Spec
=============================================================================
