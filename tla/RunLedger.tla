------------------------------ MODULE RunLedger ------------------------------
(***************************************************************************)
(* The durable core of harnessd: the run-ledger (an append-only write-     *)
(* ahead log, ledger.py and store.py), the binding ledger (one map,        *)
(* replaced whole), the executor that is their only writer (executor.py),  *)
(* re-registration of an address (chokepoint.py, genesis.py), and the      *)
(* boot-time replay of the log over the bindings (reconcile.py).           *)
(*                                                                         *)
(* A mutation takes the one exclusive lock, reads the live binding, checks *)
(* its compare-and-swap arguments, builds a row and a candidate, and then  *)
(* heals the log's tail, appends the row and replaces the map: three disk  *)
(* steps, and the daemon may die before, between or inside them.  Callers  *)
(* are the daemon's IPC and poll threads and the clients behind the first; *)
(* their arguments come from unlocked reads made at any earlier time.      *)
(***************************************************************************)
EXTENDS Integers, Sequences, SequencesExt, FiniteSetsExt, Lifecycle

CONSTANTS
    Node,        \* node addresses, address and seat together
    Caller,      \* whoever calls the executor or registers a node
    Slice,       \* contents of a binding's own slice (paused, answered, ...)
    InitSlice,   \* the slice a registration writes
    Escalated,   \* the slice that carries terminal_signal = ESCALATED
    KeepSlice,   \* a binding_delta that does not touch the slice
    Targets,     \* the states that transitions aim at; a run may narrow them
    CrashKinds,  \* what a crash may do to the files, see Crash
    MaxSeq, MaxEpoch, MaxCrashes    \* bounds

ASSUME SliceAssumption ==
    InitSlice \in Slice /\ Escalated \in Slice /\ KeepSlice \notin Slice

ASSUME TargetAssumption == Targets \subseteq KnownStates

ASSUME CrashAssumption ==
    CrashKinds \subseteq {"torn", "unterminated", "rename_lost"}

ASSUME BoundAssumption ==
    MaxSeq \in Nat /\ MaxEpoch \in Nat /\ MaxCrashes \in Nat

NoGen == -1          \* a row without generations: journalled, never replayed
NoState == "none"
NoBinding == [state |-> NoState]
NoView == [node |-> "none"]
NoSeed == [node |-> "none"]
Idle == [stage |-> "idle"]

(***************************************************************************)
(* A binding.  The owner token is a composite of address, seat, session    *)
(* and lease epoch; the model keeps the epoch it was minted at.  wm is     *)
(* last_applied_seq, the replay watermark.                                 *)
(***************************************************************************)
Binding == [state : KnownStates, gen : Nat, epoch : Nat, token : Nat,
            slice : Slice, wm : Nat]
MaybeBinding == Binding \cup {NoBinding}
View == [node : Node, state : KnownStates, gen : Nat, epoch : Nat, token : Nat]

Row == [seq : Nat, node : Node, exp : Nat \cup {NoGen}, gen : Nat \cup {NoGen},
        from : KnownStates \cup {NoState}, to : KnownStates \cup {NoState},
        epoch : Nat, token : Nat, delta : Slice \cup {KeepSlice}]

VARIABLES
    lines,       \* the log file: its physical lines, [row, intact]
    terminated,  \* whether its last line ends in a newline
    bindings,    \* the binding file
    previous,    \* what the binding file held before its last rename
    phase,       \* "serving", "down" or "replaying"
    mem, pos,    \* the replay in progress: the map and the next row
    op,          \* the mutation that holds the lock, or Idle
    view,        \* per caller, what it last read of a binding (unlocked)
    seed,        \* per caller, the identity seed of a registration under way
    crashes

disk == <<lines, terminated, bindings, previous>>
boot == <<phase, mem, pos, crashes>>
vars == <<disk, boot, op, view, seed>>

-----------------------------------------------------------------------------
(* Reading the log. *)

\* A torn final line is dropped; a torn line elsewhere fails the load.
Loadable == \A i \in 1 .. Len(lines) - 1 : lines[i].intact

LoadWal ==
    LET good == IF lines # <<>> /\ ~Last(lines).intact THEN Front(lines)
                                                      ELSE lines
    IN  [i \in DOMAIN good |-> good[i].row]

WalSeqs == {LoadWal[i].seq : i \in DOMAIN LoadWal}
MaxWalSeq == IF LoadWal = <<>> THEN 0 ELSE Max(WalSeqs)
NextSeqByCount == Len(LoadWal) + 1
NextSeq == MaxWalSeq + 1

-----------------------------------------------------------------------------
(* Replay. *)

RowPreImage(row) ==
    [state |-> row.from, gen |-> row.exp, epoch |-> 0, token |-> 0,
     slice |-> InitSlice, wm |-> 0]

\* Two slips in the replay: the epoch, or the state, left to the delta.
ApplyOneKeepingEpoch(b, row) ==
    IF row.seq <= b.wm \/ b.gen = row.gen \/ b.gen # row.exp THEN b
    ELSE [b EXCEPT !.state = row.to, !.gen = row.gen, !.token = row.token,
                   !.wm = row.seq]

ApplyOneKeepingState(b, row) ==
    IF row.seq <= b.wm \/ b.gen = row.gen \/ b.gen # row.exp THEN b
    ELSE [b EXCEPT !.gen = row.gen, !.epoch = row.epoch, !.token = row.token,
                   !.wm = row.seq]

ApplyOne(b, row) ==
    IF \/ row.seq <= b.wm           \* at or below the watermark
       \/ b.gen = row.gen           \* already landed
       \/ b.gen # row.exp           \* not this event's pre-image
    THEN b
    ELSE [state |-> row.to, gen |-> row.gen, epoch |-> row.epoch,
          token |-> row.token, wm |-> row.seq,
          slice |-> IF row.delta = KeepSlice THEN b.slice ELSE row.delta]

\* A slip: a journal-only row seeds the rebuilding of a node.
ReplayRowPhantom(map, row) ==
    [map EXCEPT ![row.node] =
        ApplyOne(IF @ # NoBinding THEN @ ELSE RowPreImage(row), row)]

\* A node the map lacks is rebuilt from its first row that has a pre-image.
ReplayRow(map, row) ==
    LET b == map[row.node] IN
    [map EXCEPT ![row.node] =
        IF b # NoBinding THEN ApplyOne(b, row)
        ELSE IF row.exp = NoGen THEN NoBinding
        ELSE ApplyOne(RowPreImage(row), row)]

\* The rows of a log, one after the other, over a map.
ReplayAll(map, wal) ==
    LET upTo[i \in 0 .. Len(wal)] ==
            IF i = 0 THEN map ELSE ReplayRow(upTo[i - 1], wal[i])
    IN  upTo[Len(wal)]

\* What a restart would make of the files as they are now.
Recovered == ReplayAll(bindings, LoadWal)

-----------------------------------------------------------------------------
(* Mutations: the locked read, the checks and the row. *)

MkRow(n, exp, gen, from, to, epoch, token, delta) ==
    [seq |-> NextSeq, node |-> n, exp |-> exp, gen |-> gen, from |-> from,
     to |-> to, epoch |-> epoch, token |-> token, delta |-> delta]

Patch(slice, delta) == IF delta = KeepSlice THEN slice ELSE delta

\* The lock is free; the caller takes it and has a row ready to write.
Begin(c, row, cand) ==
    /\ phase = "serving" /\ op = Idle
    /\ NextSeq <= MaxSeq
    /\ op' = [stage |-> "heal", caller |-> c, row |-> row, cand |-> cand]
    /\ view' = [view EXCEPT ![c] = NoView]
    /\ UNCHANGED <<disk, boot, seed>>

Free(c) == seed[c] = NoSeed /\ (op # Idle => op.caller # c)

Read(c, n) ==
    /\ phase = "serving" /\ Free(c) /\ bindings[n] # NoBinding
    /\ view' = [view EXCEPT ![c] =
                    LET b == bindings[n] IN
                    [node |-> n, state |-> b.state, gen |-> b.gen,
                     epoch |-> b.epoch, token |-> b.token]]
    /\ UNCHANGED <<disk, boot, op, seed>>

\* The compare-and-swap of state and generation against the caller's view.
CasHolds(c) ==
    LET live == bindings[view[c].node] IN
    /\ live # NoBinding
    /\ live.state = view[c].state
    /\ live.gen = view[c].gen

(***************************************************************************)
(* A committed transition.  rotate is the claim, release and necro form:   *)
(* a new epoch, one above the view's, and a token minted at it, in the     *)
(* same candidate as the new state.                                        *)
(***************************************************************************)
Transition(c, to, rotate, fenced, delta) ==
    /\ Free(c) /\ view[c] # NoView /\ CasHolds(c)
    /\ LET n == view[c].node
           live == bindings[n]
           epoch == IF rotate THEN view[c].epoch + 1 ELSE live.epoch
           token == IF rotate THEN epoch ELSE live.token
           slice == Patch(live.slice, delta)
       IN  /\ epoch <= MaxEpoch
           /\ fenced => live.token = view[c].token
           /\ Admissible(live.state, to, slice = Escalated)
           /\ delta = Escalated => to = "running"
           /\ Begin(c,
                MkRow(n, live.gen, live.gen + 1, live.state, to, epoch,
                      token, delta),
                [state |-> to, gen |-> live.gen + 1, epoch |-> epoch,
                 token |-> token, slice |-> slice, wm |-> NextSeq])

\* A stale owner token: the event is journalled and the binding left alone.
StaleReturn(c) ==
    /\ Free(c) /\ view[c] # NoView
    /\ LET n == view[c].node
           live == bindings[n]
       IN  /\ live # NoBinding /\ live.token # view[c].token
           /\ Begin(c,
                MkRow(n, live.gen, live.gen, live.state, live.state,
                      live.epoch, live.token, KeepSlice),
                NoBinding)

\* pause, resume, post_answer, deliver, ack_inbox, heartbeat, ...
OwnSliceWrite(c, n, delta) ==
    /\ Free(c) /\ bindings[n] # NoBinding
    /\ LET live == bindings[n] IN
       Begin(c,
             MkRow(n, live.gen, live.gen, live.state, live.state,
                   live.epoch, live.token, delta),
             [live EXCEPT !.slice = delta, !.wm = NextSeq])

\* A row that is not a transition; its address need not be bound.
Journal(c, n) ==
    /\ Free(c)
    /\ Begin(c, MkRow(n, NoGen, NoGen, NoState, NoState, 0, 0, KeepSlice),
             NoBinding)

-----------------------------------------------------------------------------
(* Mutations: the disk steps, still under the lock. *)

\* A slip: the torn tail is left for the next frame to be appended to.
HealNothing ==
    /\ phase = "serving" /\ op # Idle /\ op.stage = "heal"
    /\ op' = [op EXCEPT !.stage = "append"]
    /\ UNCHANGED <<disk, boot, view, seed>>

Heal ==
    /\ phase = "serving" /\ op # Idle /\ op.stage = "heal"
    /\ lines' = IF terminated THEN lines ELSE Front(lines)
    /\ terminated' = TRUE
    /\ op' = [op EXCEPT !.stage = "append"]
    /\ UNCHANGED <<bindings, previous, boot, view, seed>>

\* An append onto an unterminated line would merge with it.
Framed(row) ==
    IF terminated
    THEN Append(lines, [row |-> row, intact |-> TRUE])
    ELSE [lines EXCEPT ![Len(lines)].intact = FALSE]

AppendFrame ==
    /\ phase = "serving" /\ op # Idle /\ op.stage = "append"
    /\ lines' = Framed(op.row)
    /\ terminated' = TRUE
    /\ op' = IF op.cand = NoBinding THEN Idle
             ELSE [op EXCEPT !.stage = "checkpoint"]
    /\ UNCHANGED <<bindings, previous, boot, view, seed>>

\* The old map is remembered only where a crash can bring it back.
ReplaceMap(new) ==
    /\ bindings' = new
    /\ previous' = IF "rename_lost" \in CrashKinds THEN bindings ELSE new

Checkpoint ==
    /\ phase = "serving" /\ op # Idle /\ op.stage = "checkpoint"
    /\ ReplaceMap([bindings EXCEPT ![op.row.node] = op.cand])
    /\ op' = Idle
    /\ UNCHANGED <<lines, terminated, boot, view, seed>>

-----------------------------------------------------------------------------
(* (Re-)registration: an unlocked look and an unlocked seed, then a locked  *)
(* write of the map, without a row.                                         *)

RowEpochs(n) ==
    {LoadWal[i].epoch : i \in {j \in DOMAIN LoadWal : LoadWal[j].node = n}}

\* Slips in the seed: a restart at epoch 1, at watermark 0, or one too high.
SeedEpochReset(n) == [node |-> n, epoch |-> 1, wm |-> MaxWalSeq]
SeedWatermarkReset(n) ==
    [node |-> n, epoch |-> Max({0} \cup RowEpochs(n) \cup
        (IF bindings[n] = NoBinding THEN {} ELSE {bindings[n].epoch})) + 1,
     wm |-> 0]
SeedWatermarkAhead(n) == [SeedWatermarkReset(n) EXCEPT !.wm = NextSeq]

IdentitySeed(n) ==
    LET known == RowEpochs(n) \cup
                 (IF bindings[n] = NoBinding THEN {} ELSE {bindings[n].epoch})
    IN  IF known = {} THEN [node |-> n, epoch |-> 1, wm |-> 0]
        ELSE [node |-> n, epoch |-> Max(known) + 1, wm |-> MaxWalSeq]

\* A slip: a live incarnation may be registered over.
RegistrableAlways(b) == TRUE
Registrable(b) ==
    b = NoBinding \/ b.state = "planned" \/ IsTerminal(b.state)

BeginRegister(c, n) ==
    /\ phase = "serving" /\ Free(c)
    /\ Registrable(bindings[n])
    /\ IdentitySeed(n).epoch <= MaxEpoch
    /\ seed' = [seed EXCEPT ![c] = IdentitySeed(n)]
    /\ view' = [view EXCEPT ![c] = NoView]
    /\ UNCHANGED <<disk, boot, op>>

Registered(s) ==
    [state |-> "planned", gen |-> 0, epoch |-> s.epoch, token |-> s.epoch,
     slice |-> InitSlice, wm |-> s.wm]

Register(c) ==
    /\ phase = "serving" /\ op = Idle /\ seed[c] # NoSeed
    /\ ReplaceMap([bindings EXCEPT ![seed[c].node] = Registered(seed[c])])
    /\ seed' = [seed EXCEPT ![c] = NoSeed]
    /\ UNCHANGED <<lines, terminated, boot, op, view>>

-----------------------------------------------------------------------------
(* Crash and boot. *)

(***************************************************************************)
(* The daemon dies.  A write of a frame cut short leaves a torn line, or,  *)
(* when only its newline is missing, a whole but unterminated one.  The    *)
(* binding file's directory is never synced, so a power loss may take back *)
(* its last rename.  Threads lose what they held; clients keep their view. *)
(***************************************************************************)
CutFrame ==
    IF op # Idle /\ op.stage = "append"
    THEN {[lines |-> Append(lines, [row |-> op.row,
                                    intact |-> k = "unterminated"]),
           terminated |-> FALSE] :
            k \in CrashKinds \cap {"torn", "unterminated"}}
    ELSE {}

Crash ==
    /\ phase # "down" /\ crashes < MaxCrashes
    /\ \E f \in {[lines |-> lines, terminated |-> terminated]} \cup CutFrame :
        lines' = f.lines /\ terminated' = f.terminated
    /\ bindings' \in {bindings} \cup
                     (IF "rename_lost" \in CrashKinds THEN {previous} ELSE {})
    /\ previous' = bindings'
    /\ phase' = "down" /\ op' = Idle /\ crashes' = crashes + 1
    /\ mem' = [n \in Node |-> NoBinding] /\ pos' = 1
    /\ seed' = [c \in Caller |-> NoSeed]
    /\ UNCHANGED view

\* A slip: the torn tail that a crash leaves is refused like any other.
BootLoadIntact ==
    /\ phase = "down" /\ \A i \in DOMAIN lines : lines[i].intact
    /\ phase' = "replaying" /\ mem' = bindings /\ pos' = 1
    /\ UNCHANGED <<disk, op, view, seed, crashes>>

\* The load fails closed, and the daemon stays down, on a torn inner line.
BootLoad ==
    /\ phase = "down" /\ Loadable
    /\ phase' = "replaying" /\ mem' = bindings /\ pos' = 1
    /\ UNCHANGED <<disk, op, view, seed, crashes>>

BootReplay ==
    /\ phase = "replaying" /\ pos \in DOMAIN LoadWal
    /\ mem' = ReplayRow(mem, LoadWal[pos])
    /\ pos' = pos + 1
    /\ UNCHANGED <<disk, phase, crashes, op, view, seed>>

BootCheckpoint ==
    /\ phase = "replaying" /\ pos \notin DOMAIN LoadWal
    /\ ReplaceMap(mem)
    /\ phase' = "serving"
    /\ mem' = [n \in Node |-> NoBinding] /\ pos' = 1
    /\ UNCHANGED <<lines, terminated, crashes, op, view, seed>>

-----------------------------------------------------------------------------

Init ==
    /\ lines = <<>> /\ terminated = TRUE
    /\ bindings = [n \in Node |-> NoBinding] /\ previous = bindings
    /\ phase = "serving"
    /\ mem = [n \in Node |-> NoBinding] /\ pos = 1
    /\ op = Idle
    /\ view = [c \in Caller |-> NoView]
    /\ seed = [c \in Caller |-> NoSeed]
    /\ crashes = 0

Mutate ==
    \E c \in Caller :
        \/ \E to \in Targets, rotate, fenced \in BOOLEAN,
              d \in {KeepSlice, Escalated} :
                Transition(c, to, rotate, fenced, d)
        \/ StaleReturn(c)
        \/ \E n \in Node, d \in Slice : OwnSliceWrite(c, n, d)
        \/ \E n \in Node : Journal(c, n)

Disk == Heal \/ AppendFrame \/ Checkpoint

Enrol == \E c \in Caller : Register(c) \/ \E n \in Node : BeginRegister(c, n)

Boot == BootLoad \/ BootReplay \/ BootCheckpoint

Next ==
    \/ \E c \in Caller, n \in Node : Read(c, n)
    \/ Mutate
    \/ Disk
    \/ Enrol
    \/ Crash
    \/ Boot

Spec == Init /\ [][Next]_vars

\* launchd relaunches the daemon, and a launch runs its boot to the end.
FairSpec == Spec /\ WF_vars(Boot)

-----------------------------------------------------------------------------
(* Properties. *)

TypeOK ==
    /\ lines \in Seq([row : Row, intact : BOOLEAN])
    /\ terminated \in BOOLEAN
    /\ bindings \in [Node -> MaybeBinding]
    /\ previous \in [Node -> MaybeBinding]
    /\ phase \in {"serving", "down", "replaying"}
    /\ mem \in [Node -> MaybeBinding] /\ pos \in Nat \ {0}
    /\ op \in {Idle} \cup
              [stage : {"heal", "append", "checkpoint"}, caller : Caller,
               row : Row, cand : MaybeBinding]
    /\ view \in [Caller -> {NoView} \cup View]
    /\ seed \in [Caller -> {NoSeed} \cup [node : Node, epoch : Nat, wm : Nat]]
    /\ crashes \in Nat

(***************************************************************************)
(* A torn frame is never buried: whatever sequence of torn appends,        *)
(* restarts and further appends, only the last line can be torn, so a load *)
(* never fails closed and the daemon can always boot (_heal_torn_tail,     *)
(* load_wal).                                                              *)
(***************************************************************************)
OnlyFinalLineTorn ==
    /\ Loadable
    /\ terminated /\ lines # <<>> => Last(lines).intact

(***************************************************************************)
(* The log's sequence numbers rise strictly, across callers, crashes and   *)
(* healed tails: next_seq never hands out a number twice (FORK-SEQ,        *)
(* SWL-01), which the per-node replay watermark relies on.                 *)
(***************************************************************************)
SeqStrictlyRises ==
    \A i, j \in 1 .. Len(lines) : i < j => lines[i].row.seq < lines[j].row.seq

(***************************************************************************)
(* Ownership never splits: in the binding file and in a replay in progress *)
(* an owner token is the one minted at the binding's lease epoch, whatever *)
(* rotations, stale views, cut renames and rebuilt nodes came before       *)
(* (F-012: both rotate in one candidate, and the replay restores both).    *)
(***************************************************************************)
TokenMintedAtEpoch ==
    \A n \in Node : \A b \in {bindings[n], mem[n]} :
        b # NoBinding => b.token = b.epoch

(***************************************************************************)
(* Write-ahead: once a transition's row is on disk and before its          *)
(* checkpoint is, a restart arrives at exactly the candidate (commit()).   *)
(***************************************************************************)
IntentReplayable ==
    op # Idle /\ op.stage = "checkpoint" /\ op.row.gen # op.row.exp =>
        Recovered[op.row.node] = op.cand

(***************************************************************************)
(* When no mutation is in flight a restart changes nothing: replay of the  *)
(* whole log over the checkpointed bindings is the identity, also after    *)
(* addresses were re-registered at generation 0 (SM-2).                    *)
(***************************************************************************)
RestartIsIdentity ==
    phase = "serving" /\ op = Idle => Recovered = bindings

(***************************************************************************)
(* Fencing never regresses: along the life of an address, through claims,  *)
(* releases, necros, re-registrations and crashes, the lease epoch never   *)
(* falls, and a new incarnation starts strictly above it (SM-1).           *)
(***************************************************************************)
EpochNeverRegresses ==
    [][\A n \in Node :
        bindings[n] # NoBinding /\ bindings'[n] # NoBinding =>
            /\ bindings'[n].epoch >= bindings[n].epoch
            /\ bindings'[n].gen < bindings[n].gen =>
                   bindings'[n].epoch > bindings[n].epoch]_bindings

(***************************************************************************)
(* A registration never replaces a live incarnation: the only way back to  *)
(* generation 0 is from planned or from a terminal state                   *)
(* (_register_child: "this does NOT clobber it").                          *)
(***************************************************************************)
NoClobber ==
    [][\A n \in Node :
        /\ bindings[n] # NoBinding /\ bindings'[n] # NoBinding
        /\ bindings'[n].gen < bindings[n].gen
        => bindings[n].state \in {"planned"} \cup TerminalStates]_bindings

\* An interrupted daemon is serving again after finitely many relaunches.
BootCompletes == phase # "serving" ~> phase = "serving"

-----------------------------------------------------------------------------
(* The registers that the two files implement: what a restart recovers,    *)
(* without the watermark and the token, which the lease epoch determines.  *)
RegOf(b) ==
    IF b = NoBinding THEN NoBinding
    ELSE [state |-> b.state, gen |-> b.gen, epoch |-> b.epoch,
          slice |-> b.slice]

RegMap == LET map == Recovered IN [n \in Node |-> RegOf(map[n])]

Atomic == INSTANCE AtomicLedger WITH NoReg <- NoBinding, reg <- RegMap

\* Crashes, replays and half-done mutations are invisible in the registers.
ImplementsAtomicLedger == Atomic!Spec
=============================================================================
