# The harness in TLA+

The repository holds two programs that keep long-running trees of coding agents going.

* `src/harnessd` is a daemon. It keeps one durable record per agent, opens agents in tmux sessions,
  watches them, wakes them, delivers what they made, and is expected to survive its own death at any
  instruction: launchd relaunches it and relaunch is recovery.
* `src/research/orchestration-frame/self-improvement-harness` (below: the *control plane*) is a set
  of commands over a directory of files that orchestrator sessions run, and a watchdog that polls
  them from outside every session.

This directory holds TLA+ models of both, TLC configurations that check them on small instances, and
TLAPS proofs.

Contents: [the system](#the-system), [what is hard](#what-is-hard),
[modules](#modules), [runs](#runs), [findings](#findings), [fairness](#fairness),
[proofs](#proofs), [what is not modelled](#what-is-not-modelled), [plan](#plan).

## The system

| Component | Code | State it keeps | Operations | Talks to |
|---|---|---|---|---|
| lifecycle table | `states.py`, `validate.py` | none | legality of an edge, validity of a candidate | executor |
| run-ledger (WAL) | `ledger.py`, `store.py` | `run-ledger.jsonl` | framed append, heal of a torn tail, load, `next_seq` | executor, boot replay, once-only rows |
| binding ledger | `ledger.py`, `store.py` | one JSON map, address to binding | unlocked read, whole-map replace by rename | everyone reads, executor and registration write |
| executor | `executor.py`, `fencing.py` | the exclusive lock | `transition`, `claim`, `commit`, `journal`, own-slice writes (`deliver`, `pause`, `resume`, `post_answer`, `ack_inbox`, `record_wake_pending`, `watchdog_checkpoint`) | WAL, binding ledger |
| boot replay | `reconcile.py` | a map in memory | replay of rows over bindings, checkpoint | WAL, binding ledger |
| spawn chokepoint | `spawn/chokepoint.py` | seat files in the node's directory | register, brief, claim, gate, handshake, open, STEP4, STEP5, kickoff, release, rollback, collapse, escalate | executor, tmux, outbox, ipc, daemon |
| reconcile sweep | `reconcile.py` | none across ticks | list sessions, read bindings, adopt or necro | tmux, detector, executor |
| poll loop | `daemon.py` | cooldowns | tick: sweep, watchdog leg with its wakes, outboxes, re-drive | all of the above |
| watchdog | `watchdog.py` | counters in the binding | sign-off first, ladder, prompt gate, wake checks | detector, chokepoint, executor |
| detector | `detector.py`, `detector_signals.py` | `_size_cache` | verdict, growth edge, pane activity, signal reader | tmux, transcripts, signal files |
| return contract | `return_contract.py` | once-only rows | check a DONE, journal its defects once | watchdog, inbox |
| outbox | `spawn/outbox.py` | request files `.json`, `.done`, `.rejected` | request, service, consume | chokepoint |
| ipc | `ipc.py` | none | spawn, kill, service_outbox, pause, resume, answer, promote, transition, read-only verbs | executor, chokepoint, outbox, promote |
| tmux | `spawn/tmux.py` | sessions, one per address | create, list, capture, send keys, kill | adapters, sweep, wake |
| promote | `promote.py` | the delivery block of a binding, files outside the jail | gate, copy-out or push, stamp of success or failure | executor, ipc |
| genesis | `genesis.py`, `necro.py` | runtime descriptor | preconditions, boot replay, routing, registration and spawn of the root | chokepoint, reconcile |
| instance lock | `daemon.py` | one flock | acquire, refuse; released by death only | boot |
| adapters, containment, configuration, briefs, client, eval | the rest | none that a protocol changes | pure functions, file output | chokepoint |
| control plane | `control_plane.py` | `manifest.yaml`, `run-ledger.jsonl`, `CONTINUATION.md`, `.control-plane.lock` | `show`, `next`, `heartbeat`, `release-lease`, `transition`, `watchdog-checkpoint` | sessions, workboard, watchdog |
| workboard | `workboard.py` | `WORKBOARD.yaml`, a lock of its own | `set-stream`, `touch` | validation reads it without that lock |
| control-plane watchdog | `watchdog.py` | none | poll: load, `show`, derive, `watchdog-checkpoint` | control plane |
| loop supervisor | `loop_supervisor.py` | a prototype of an earlier phase | drives one client turn after turn | nothing here |

Two threads share all of `harnessd` inside the daemon: the poll thread, which runs one tick after
another, and the IPC thread, which serves one client verb at a time. Every change of a binding goes
through one lock; every decision is made from reads outside it. Agents are other processes: the
daemon sees a pane capture, a transcript's size and sign-off files, and can only type into a prompt.

The control plane has no process of its own. A command takes the lock, loads and validates the
files, writes three of them one after the other, and ends. The workboard changes under another lock,
the completion gate is edited by hand under none, and the watchdog is a third process that reads
twice before it writes.

What makes each part correct:

* *Ledgers and executor*: every mutation is atomic and durable; sequence numbers rise; a token is
  minted with its epoch; epochs never fall; a registration replaces no live incarnation; a restart
  is the identity; a daemon that died gets back to serving.
* *Chokepoint, sweep, outbox, ipc*: one holder per token; no claim without somebody who gives it
  back; an actor that is recorded can sign off and is not reaped while its session lives and is
  listed; the tree ends bottom-up; every request is answered.
* *Watchdog, detector, wake*: nothing is acknowledged unread; what is put into an inbox is read; the
  ladder fails only a leaf that is idle and owes an answer, and does fail one that stays silent; a
  completion reaches the parent.
* *Instance lock, genesis*: one process writes; the root that a serving daemon counts on is the actor
  of its own epoch, holds its token and was told to start; a boot that failed is not silent; relaunch
  recovers.
* *Promote*: what is stamped delivered has arrived, whole and no older than it was accepted.
* *Control plane, workboard*: a program that has ended is leased by nobody; the three files tell one
  story; a transition is decided on the program it changes; a verdict is of the round it ends (the
  documents ask for it, the code only warns); the ledger does not go back over a final decision.
* *Control-plane watchdog*: a silent session is escalated, a session that reports again is cleared.

## What is hard

Crash points between two disk writes that belong together (row and checkpoint, registration and
brief, collapse and the parent's line, copy-out and stamp, manifest and ledger row); unlocked reads
that go stale under the other thread (registration, necro, the DONE gate); identities that are
reused (session names, generation 0, sequence numbers after a heal); deliveries that report success
and reach nobody; a shared memory of what was last seen (`_size_cache`) with two readers; two clocks
(the agent's `ts` and the daemon's stamp) compared with each other; two processes started on one
runtime root; a listing that fails and looks empty; a retry that finds what the failure left half
done; verdicts derived from one load of a file and committed over another. `PROJECT.json` lists them
under `hazards`, each at its line, with the properties that cover it or the reason why none does.

## Modules

### Lifecycle

`states.py` and the admission rule of `validate.py`: `AllowedTransitions`, `IsLegal`, `Admissible`.
Used by every other module.

### RunLedger, AtomicLedger

`RunLedger` is the durable core, disk step by disk step. The log is a sequence of `lines`, each a
row and whether it is intact, with a flag for the final newline; the binding file is a map whose
`previous` value a power loss can bring back. A mutation is `op`: it takes the lock in one of
`Transition`, `StaleReturn`, `OwnSliceWrite`, `Journal`, and then goes through `Heal`,
`AppendFrame`, `Checkpoint`, with `Crash` possible before, between and inside them (a frame cut
short, a frame without its newline, a lost rename). A caller's arguments come from `Read`, at any
earlier time. `BeginRegister` and `Register` are the two halves of a re-registration: the seed
(`IdentitySeed`) is read without the lock. A boot is `BootLoad`, one `BootReplay` per row and
`BootCheckpoint`, and can be cut as well.

Owner tokens are written as the epoch they were minted at; `TokenMintedAtEpoch` says why that is
enough for the other modules. The own slice is one abstract value.

`AtomicLedger` is what the three promise together: a register per node that changes in indivisible
steps and that no crash can change. `RunLedger!RegMap`, what a restart would recover, is the
refinement mapping, `ImplementsAtomicLedger` the property.

### SpawnChokepoint

The spawn path and the two threads that use it. A binding changes in one step here, as
`AtomicLedger` allows (`StepsAreLedgerSteps` checks that every step is one of its steps); all that
lies between is interleaved. `op[t]` is the operation of a thread; its `pc` names the next step and
each step is an action named after what it does (`LookAtChild`, `SeedIdentity`, `WriteRegistration`,
..., `Claim`, ..., `RecordActor` for STEP4, `ConfirmRunning` for STEP5, `ReleaseClaim`). `tick` is
the poll thread's place in its tick: `ListTargets`, `ReadBindings`, `Sweep`, the watchdog leg as
far as it ends nodes, outboxes and re-drive. The client verbs are the `Client...` actions. The
actors request children, sign off and die.

A call of tmux may fail (`TmuxFaults`), and nobody notices: `list_targets` returns the empty listing
on any non-zero exit (`Listing`), for the sweep, for the detector that it asks and for the re-drive,
and a `kill_stale_pane` that fails leaves the session where it is (`TearDown`), so that the open
which follows collides with it. `tick.unseen` keeps, for a property only, the live sessions that a
failed call of the current sweep did not show.

### Watchdog, Mailbox

The watchdog leg, the verdict it rests on, the kickoff that ends a spawn, and the verbs that meet
them. Addresses are registered and running, one incarnation each, so that the sender's fence on
token, epoch and session uuid comes down to a fence on the lifecycle state; re-claims are
`SpawnChokepoint`'s. The poll thread stands at one node (`tick.at`) before one step (`tick.pc`):
`ReadSignal`, then `Escalate`, `RefuseDone`, or `Collapse` and `NotifyParent`, or the ladder
(`Judge`, `Bump` and `Prod`, `FailNonresponsive`), then the wake (`ResolveWake`, `WakeGate`,
`Nudge`, `RecordWakePending`). `_wake_on_unacked_inbox` is four actions because an append, a turn or
a crash can fall between them.

An inbox is the number of its lines, an offset the number of the line it ends. A transcript is
abstracted to `grown`: the set of those who remember a size of it and whom it has outgrown, the
detector, the verification of a nudge, and (for a property only) the ladder. Time is a counter that
moves when a time is written down. A pane shows start-up, a prompt, a prompt under an operator's
copy-mode, a prompt that was typed into, a turn, or is gone.

`Mailbox` is what the inboxes, the nudges and their verification promise together: a line is put into
one inbox at a time; an agent reads to the end; a nudge in flight covers lines that none was
acknowledged for; an acknowledgement takes the nudge in flight with it, once, and only when its lines
are read. The inbox, `read`, and the two offsets in the binding are the refinement mapping,
`ImplementsMailbox` the property.

`last_progress_at` is not modelled: its only writer, `watchdog_checkpoint`, is given the value that
the binding already has, so it stays null and the suspicion window W never protects anybody.
For the same reason a flat transcript counts as beyond W.

### Genesis, Promote, Daemon

`Genesis` is `daemon.boot` and `run_genesis` for a set of processes on one runtime root. `pc[d]` is
where a process is: `Start`, `Acquire` or `Refused`, `Check` (descriptor and preconditions), then the
reconcile pass as the root meets it (`Adopt`, `Reap`), the routing (`KeepSlot`, `KillStale`,
`Register`), and the spawn of the root write by write (`Claim`, `Clean`, `Sign`, `Open`, `Record` for
STEP4, `Confirm` for STEP5, `Kickoff`). While a process serves, its ticks may reap the root, and the
root's actor may sign off. `root` is the root's binding, `session` the tmux session of its name,
`handshake` the epoch of the token that the actor finds in its directory, `told` the last incarnation
whose kickoff line is in the inbox. A transition is one step here: the lock holder has not started
its second thread yet, so that the root's slot has one writer (`RunLedger` takes a transition apart).

Reading the code against `list_targets` shows three things that the model takes over. It reports no
session uuid, so that a listed pane is always adopted and the RESUME and REAP legs of the routing are
not reached. It keys panes by their triple, so that a root recorded by its session's bare name, which
it is before STEP4, is never listed. And a root that was cut between STEP4 and STEP5 is adopted while
spawning, a state from which the table has no edge to done.

`Promote` is one node's delivery: versions of files in the workspace, at its git head and at the
destination of each route; the delivery block of the binding; and the promote that runs (`promo`),
with its copy file by file (`CopyFile`, which may fail for a file and go on), its push, and its two
stamps. The agents go on writing and committing meanwhile.

`Daemon` composes the two: promotes run in a process that serves, and the death of that process takes
both its promote and its lock.

### ControlPlane

`manifest`, `ledger`, `packet` and `board` are the four files, the ledger by its last row's state and
whether a line is torn. A command that validates (`Accept`: `Heartbeat`, `ReleaseLease`,
`Transition`, the watchdog's `PollCheckpoints`) leaves a `commit`, whose three writes
(`SaveManifest`, `AppendLedger`, `SaveContinuation`) are steps; `CommandDies` may fall before and
between them, and inside the append. `SetStream` changes the board at any time, under its own lock;
`EditGate` is the edit of the completion gate in the file itself, which the documents ask for and no
command does. A planner's `Transition` uses what an earlier `Plan` (the command `next`) has shown it.
The watchdog's `poll` goes through `PollLoads` (without a lock), `PollShows`, `PollDerives` and
`PollCheckpoints` or `PollRefused`.

Artifacts are the round that wrote them, so that "a verdict of this round" can be said; time is
whether the progress is fresh. A transition may give any round and any of the pointers that the
instance allows (`Pointers`), next to those that are there: in the code each is an argument of its
own, and an artifact of another round is only warned of.

`Shown` is what `render_continuation` repeats: the program, the lease, the watch's condition, why the
program is open (`WhyOpen`: the streams of the gate, or its reason), and the workboard's derived
status, which is that of the moment of rendering. The last two change without a command, by
`EditGate` and `SetStream`; CONTINUATION.md then shows the old ones until the next command completes.
`edited` says, for a property only, that this has happened since a manifest was last saved, and
`SurfacesAgree` asks for them only while it has not. Left out of `Shown` is what is passed through
(the resume packet, the texts of the next action) and the rows of the ledger that are recited.

The count of stale checks goes on without a cap in the code (`watchdog.py:206-207`). All that is ever
asked of it is whether it has reached the grace, so `Escalation` lets it stay there; that `count` is at
most `Grace` is a fact about the model.

### MC modules, proofs

`MCRunLedger` adds a symmetry set; `MCSpawnChokepoint` and `MCWatchdog` give a root with one node
below it, `MCWatchdogLeaf` a single leaf, `MCDaemon` two processes and two files, `MCControlPlane`
all states of the program but two. `RunLedgerProofs` and, on top of it, `ReplayProofs`; `SpawnProofs`
and, on top of it, `PollSpawnProofs`; `WatchdogProofs` and, on top of it, `MailboxProofs`;
`DaemonProofs`; and `ControlPlaneProofs` hold the theorems.

Some definitions are introduced as *a slip*: a plausible mistake, such as a dropped reset or a
second nudge measured too late, which no specification uses. Replacing the real definition by its
slip makes the property named beside it in `PROJECT.json` fail.

## Runs

| Run | Instance | Checks | Shows |
|---|---|---|---|
| `ledger_crash` | 1 node, 2 callers, 3 rows, 2 epochs, a crash of any kind | `TypeOK`, `OnlyFinalLineTorn`, `SeqStrictlyRises`, `TokenMintedAtEpoch` | the log keeps its shape and numbering, ownership its epoch, with a crash at every point and two callers with stale views |
| `ledger_serial` | 1 node, 1 caller, 3 rows, 3 epochs, 2 slices, 2 crashes that may tear a frame | `IntentReplayable`, `RestartIsIdentity`, `EpochNeverRegresses`, `NoClobber`, `BootCompletes`, `ImplementsAtomicLedger` | write-ahead logging makes every mutation atomic, and a boot that is cut is made up for |
| `spawn_poll` | root and child, failing disk writes and calls of tmux, 1 daemon death, epochs to 5 | `TypeOK`, `ActorCanSignOff`, `SweepReapsTheUnseen`, `DoneIsBottomUp`, `StepsAreLedgerSteps`, `RequestAnswered` | the poll thread by itself, with actors that request, sign off and die: the sweep reaps a session only where it was hidden from that sweep |
| `spawn_overlap` | one client verb of any kind, epochs to 5, the child's actor may sign off or die | `ClaimHasHolder` | both threads register and spawn one child, and no claim leaks |
| `watchdog_leaf` | one leaf, grace 2, one sign-off, one swallowed keystroke, one answer or pause, one daemon death, a pane that may die | `TypeOK`, `NonresponseIsHonest`, `LineIsRead`, `SilentLeafEnds`, `ImplementsMailbox` | the ladder fails only an idle leaf and converges; lines are read, and acknowledged once |
| `watchdog_tree` | root over a leaf, grace 1, one sign-off, one answer, an operator at the root | `AckedIsRead`, `DoneIsTold` | nothing is acknowledged unread, completion reaches the parent |
| `plane_rounds` | 2 sessions, one of them a planner, 1 stream, 1 round, 1 killed command | `TerminalReleased`, `SurfacesAgree`, `PlanIsCurrent`, `LedgerMovesAhead` | the files of the control plane, with every order of commands, hand edits and a kill at any write |
| `plane_watch` | 1 session, 1 stream, grace 2, recovery switched on, the watchdog killed once | `TypeOK`, `SilenceEscalates`, `RenewalClears` | stale verdicts, refused checkpoints and a restart neither hide a silent session nor stick to one that is back |
| `boot` | 2 processes, 2 files, 3 faults and calls in all | `TypeOK`, `DescriptorIsTheHolders`, `ActorHoldsToken`, `RootIsTold`, `DeliveryVouches`, `NoSilentBoot`, `RootObeysTable`, `RelaunchRecovers` | boots and deliveries with deaths at any step, blind listings, sessions that survive their kill, refused spawns, a lapsing credential |
| `spawn_clobber`, `watchdog_ladder`, `promote_retry` | as small as the trace needs | one property each | see [findings](#findings) |

Bounds. Three rows are the least with which a number can be handed out again after a heal and a
later row be shadowed by it; the two crashes of `ledger_serial` allow a crash during the recovery
from a crash; `ledger_crash` has one, and what it checks is proved for any number. Two nodes are the
least tree in which a parent can be reaped, paused or collapsed over a child; a second child adds
only the fan-out cap, which is not modelled. At `MaxEpoch` a claim or a registration of
`SpawnChokepoint` fails in the way it fails on a full disk, so that the bound is a behaviour of the
code and not an end of it; five epochs let an address be registered, claimed, reaped and claimed
again, so that files of its first incarnation meet its second. The root's session does not end by
itself in `spawn_poll`: a listing that fails has the root reaped as well, and over its session.
`spawn_overlap` lets only the child's actor sign off or die, the one whose slot is fought over; what
the root's actor does is in `spawn_poll`. Grace 2 is the code's default and makes a counter that is
persisted, reset and exhausted; grace 1 keeps the tree small and still has a prod between the first
idle verdict and the failure. One sign-off, one swallowed keystroke and one client verb each meet
every other step; the property of two questions, where an older answer must not shield a newer
question, needs a second sign-off and is left to a larger run. `TmuxFaults` is set where the poll
thread is by itself; with both threads it would multiply a state space that is as large as it can
be, and the claims that `spawn_overlap` is about do not read a listing. What `plane_rounds` checks
does not tell rounds apart, so it has one, and pointers that are all set or all cleared. One stream
with a minimum and a maximum of one makes the board's status inactive, underutilized or saturated.
`plane_rounds` leaves the watchdog out, as it writes nothing that the run's properties read but the
condition in the packet; `plane_watch` has it, with one session, one state to end in, and a stream
that blocks, which refuses a checkpoint. In `boot` the three events are shared by faults, accepts
and what agents write: two faults in a row of a recovery and a third thing beside them. Its fourteen
epochs are more than three faults account for, so that only a boot that fails on its own would come
up against them. Only actions that nothing in the code limits are counted.

`CHECK_DEADLOCK FALSE` is set for the ledger runs, whose bounds end the behaviour.

## Findings

* **A registration overwrites a live claim** (`spawn_clobber`). `_register_child` looks at the binding
  without the lock and writes under it; a child that the other thread registers and claims in between
  goes back to planned, generation 0, at the same epoch. Its docstring (`chokepoint.py:1164-1165`)
  says a live child is not clobbered. With one thread that registers it holds: `NoClobber` in
  `ledger_serial`, and as a part of `StepsAreLedgerSteps` in `spawn_poll`.
* **Turns do not reset the ladder** (`watchdog_ladder`). The sweep consumes the growth edge that the
  watchdog leg of the same tick would need. `WATCHDOG.md:475-476` says any new turn resets the count.
* **A retried delivery forgets its kind** (`promote_retry`). `promote` derives destination and kind
  together, but a failure stamps only the destination. The next accept finds a destination without a
  kind and copies the files to a local directory named like the remote's URL, and the deliverable is
  stamped delivered (`promote.py:421`; `DAEMON.md:363` says the kind drives copy-out or push).

Divergences that no run is spent on. TLC gives the first as a counterexample when the property is put
into the run named:

* A failed call of tmux reads as an empty server. `list_targets` (`tmux.py:250-253`) takes any non-zero
  exit for "no server", and the sweep stamps every node it should adopt dead or failed over its live
  session; `DAEMON.md:872-873` calls the reaping evidence-based and says it never blind-kills.
  `NecroSparesTheRecorded`, which says that of the sweep, is violated in `spawn_poll` after four steps.
  What holds, and is checked and proved, is `SweepReapsTheUnseen`: nothing but such a call makes the
  sweep of the poll thread reap a session that is there.
* A round is opened on an earlier one's artifacts. The iteration and the artifact pointers are
  arguments of their own of any transition (`control_plane.py:1542-1564`);
  `self-improvement-loop-contract.md:94` says they move "in the same committed transition", and
  `CONTROL-PLANE.md:89` that they must. Validation warns and commits (`control_plane.py:1002-1006`).
  With two rounds in `plane_rounds` the program stands on an artifact of another round than its own
  after a single transition; that a state rests on artifacts of its round is the caller's to see to,
  and no property says it.
* A whole row without its newline is replayed at boot and deleted as torn by the next append, and its
  number is handed out again; `ledger.py:209-214` says dropped bytes carry no committed state.
  `ledger_crash` has the crash that leaves such a row, among its `CrashKinds`; in `ledger_serial` it
  would break `RestartIsIdentity`.
* Until STEP4 the recorded target is the bare session name, never a key of the listing, so that a
  daemon that dies between open and STEP4 reaps the node over its live session; `DAEMON.md:872-873`
  says reaping is evidence-based. `SweepReapsTheUnseen` and `ActorHoldsToken` say what does hold.
* The answer verb accepts a question that the watchdog has not stamped yet; the stamp that follows is
  later than the answer, which then never releases the slot (`executor.py:738-740`).
* `watchdog.py:343-344` says that an exhausted ladder escalates to the parent, but `_watchdog_tick`
  enacts nothing of `check_leaf`'s FAILED action, and only `collapse`, which the ladder does not call,
  writes to the parent's inbox.

Four changes to passing instances give counterexamples that no document contradicts. They are among
the hazards:

* with the verb `service_outbox`, both threads come to hold one token for one child;
* with the verb `spawn_child` and a root that signs off, a coordinator is collapsed done over a child
  that was registered after the gate was read (`DoneIsBottomUp`);
* with `DiskFaults` in `spawn_overlap`, a failed handshake write leaves a claim without a holder;
* with the verb `spawn` in `spawn_poll`, a sweep that listed the sessions before the IPC thread opened
  an actor reaps it after it is recorded (`SweepReapsTheUnseen`).

## Fairness

* `RunLedger!FairSpec`: weak fairness of `Boot`. launchd relaunches the daemon on any exit
  (`design/DAEMON.md:134-139`), and `daemon.run` boots to the end before it serves. Crashes are
  bounded, so `BootCompletes` says that finitely many deaths are made up for, including deaths in a
  boot.
* `SpawnChokepoint!FairSpec`: weak fairness of each thread's steps. The poll loop is on a five second
  timer. It does not catch what a tick raises: the servicing of a request and the re-drive of a slot
  have handlers of their own, and any other exception ends the daemon, which launchd relaunches. In
  the model that is a `Crash`, after which the sweep of the boot and the ticks go on. The IPC thread
  runs a request to its end. No actor, client or crash is fair.
* `Watchdog!FairSpec`: the poll thread and the IPC thread as above; a started client reaches its
  prompt, a prompt that was typed into starts a turn, a turn ends. No agent has to sign off and no
  operator has to leave: `LineIsRead` asks for the pane to be free again and again, `SilentLeafEnds`
  for the opposite, a pane that swallows everything from some point on.
* `ControlPlane!FairSpec`: weak fairness of a command's writes, as a command that runs ends, and of
  the watchdog's lock-free steps, as its loop sleeps and polls again. The two steps that need the lock
  have strong fairness: the watchdog waits for it in the kernel's `flock` queue, and commands that
  take it again and again cannot overtake it for ever. No session owes a command. That a watchdog
  which was killed polls again is assumed of an operator or a service manager: `watchdog-service.sh`
  starts it, and nothing in the repository restarts it.
* `Daemon!Spec`: weak fairness of `Start` and of `Boot` per process: launchd starts a daemon that is
  down, and a process that runs goes on. Faults are bounded by the instance, and `RelaunchRecovers`
  assumes a credential that is alive from some point on.

## Proofs

Each proof module has one invariant that is inductive, a lemma per action that keeps it, and theorems
that read the runs' properties off it. The only assumptions are the named ones on the constants.

**`RunLedgerProofs`**, for every set of nodes, callers and slices, all kinds of crashes and all
bounds: `TypeOK`, `OnlyFinalLineTorn`, `SeqStrictlyRises`, `TokenMintedAtEpoch`. None is inductive. A
number is fresh when `next_seq` computes it and is written two steps later; so the invariant must say
that the row in flight is above every row a load returns, and, once the tail is healed, above every
line of the file (`OpInv`). A token is minted with its epoch in the candidate, in the row, in the map
that a replay builds and in the map that a power loss brings back; so all of them must satisfy
`BindingOK` or `RowOK` (`MapInv`, `LogInv`). A seed read without the lock must still be within its
bound when it is used (`SeedInv`). The lemmas on the operators: a bounded set of naturals has the
maximum that `Max` returns, the rows of a load are rows of lines, `next_seq` is above all of them, a
replayed row keeps `BindingOK`.

**`ReplayProofs`**, for every set of nodes, callers and slices, all bounds and crashes that may cut a
frame short (`PlainCrashes`): `RestartIsIdentity`, `IntentReplayable`, `NoClobber`,
`EpochNeverRegresses`, and the whole refinement `ImplementsAtomicLedger`, boots that are cut
included. What a replay computes is a recursive function over the log. The library's induction rules
cannot be instantiated, so the lemmas on it (`ReplayedExists`, `InertPrefix`, `ReplayOfLast`) are
proved by a least counterexample: the well-foundedness of `<` on the naturals gives the shortest
prefix of the log that would refute them, and the step from the prefix before it refutes that.

The invariant (`ReplayInv`) rests on one idea. A row is *inert* over a map if a replay passes over
it (its node was registered, and the watermark of its binding has overtaken it) and *due* if its
effect is to come. At every instant all rows are inert (`Quiet`), or all but the last, and that one
is due (`Pending`): it is the row of the mutation in flight, or of one that a crash has cut
(`RowsInv`). Then the map that a replay builds is the binding file, or the file with the last row
applied, and all five properties are read off this. What keeps it: a watermark is never above the
log (`WatermarkInv`), an operation in flight still has the binding it read (`FlightInv`), a seed is
still above every transition of its node when it is used (`RegistrationInv`), and a torn last line
is not loaded (`TailInv`).

The theorems assume of the callers only `NoOverlap`: while one registers a node, no other registers or
moves that node. For the epochs and the refinement they also assume `FreshViews`: a view that passes
the compare-and-swap is of the live epoch. `SoleCallerIsOrderly` proves both for a single caller,
through crashes and restarts, and `SoleCallerLedger` states the five properties for it without them.
None can be dropped, and each is a fact about the code. A row that is whole but for its newline is
replayed, and then deleted by the next append, so that its number is handed out again below a
watermark; a power loss that takes a rename back takes the checkpoint with it (`PlainCrashes` excludes
both). A seed computed before another caller's transition of the node leaves rows above its watermark
that the next boot replays onto the new registration (`NoOverlap`). Generation 0 and `planned` come
back with every registration, so that a view of an earlier incarnation can pass the compare-and-swap
and claim under its epoch (`FreshViews`).

**`SpawnProofs`**, for every tree and all bounds, with both threads and every verb: `TypeOK`, and
`ClaimHasHolder` under `FaultFree` (no crash, no failing write; with either, TLC finds the leak). The
types rest on what is read and used later: a binding that the tick or a brief comes back to must still
be there (`OpInv`, `TickInv`). `ClaimHasHolder` is not inductive: after STEP4 it is another step of the
operation that answers for the slot, so `HolderInv` pairs a claimed slot with the steps from the gate
to STEP4 and the release, a spawning one with STEP5 and the rollback, and both with the token that the
slot was claimed under; a thread that has lost its claim no longer has the slot's epoch.

**`PollSpawnProofs`**, for every tree, all bounds, crashes, failing writes and calls of tmux, under
`PollSpawnsAlone`: clients may pause and resume, but spawn, collapse and service nothing. Proved are
`ActorCanSignOff`, `SweepReapsTheUnseen`, `DoneIsBottomUp`, `StepsAreLedgerSteps` and
`RegistrationSparesLive`; the last is what `spawn_clobber` finds violated, so that the theorem and
the run together say where the fault lies: the second thread. `SweepSparesTheSeen` proves
`NecroSparesTheRecorded` for a tmux that never fails. The invariant says which leg an operation
belongs to (`LegInv`), that a slot which was found free, and a claim, are so still (`SpawnInv`),
that a recorded actor has its stamp, its session and its handshake in one epoch (`ActorInv`), and
that the snapshots of the sweep and the watch are as good as the ledger for what they are asked
(`SweepInv`: a session of a recorded node is listed or among the unseen; `WatchInv`: a pause may
have changed the flag, and what has died since only makes a collapse more due). The refinement and
the action properties are read off one lemma (`StepChanges`) that lists the ways in which a step may
change the ledger: take a free slot under a higher epoch, advance a slot by a generation, or set a
pause.

**`WatchdogProofs`**, for every tree, grace and bound: `TypeOK`, `AckedIsRead`,
`NonresponseIsHonest`. `AckedIsRead` rests on a chain over four steps of two actors (`WakeInv`,
`VisitInv`): the size is captured at a prompt, so no turn runs; a turn that starts reads at least that
much; what was remembered of the transcript starts anew when the nudge is recorded; so growth, or a
turn in progress, means that the nudge's lines were read. The tick decides from a snapshot; that it
still tells the pending nudge and the rung when they are used is `SnapInv`, which also keeps the
ladder's counter within its grace, a part of the type. The ladder's last rung is taken a step after
its verdict; between the two no turn can start, as only the poll thread types, and an answer is later
than every stamp (`ClockInv`), so that nobody begins to wait.

**`MailboxProofs`**, for every tree, grace and bound, on the same invariant: `DoneIsTold` and
`ImplementsMailbox`. `DoneIsTold` counts lines against children. Between a collapse and its line, and
between the start and a kickoff, the count is one short; so `TellInv` counts only the children whose
line is not the poll thread's next step, and the kickoff once its line is there (`Started`). Then the
steps that matter are three: a collapse adds nobody, `NotifyParent` adds at most one child and, to a
live parent, one line, and no parent comes back to life. That there are finitely many nodes
(`NodeAssumption`: the ledger is one JSON file) is what cardinalities need. `ImplementsMailbox` needs
that a nudge covers more than was acknowledged and no less than the nudge it replaces, four steps
after the inbox was measured; `MailInv` follows that size from the gate to the record, and says that
the snapshot's watermark is the ledger's until the wake is resolved.

**`DaemonProofs`**, for every set of processes and files and all bounds: `TypeOK`,
`DescriptorIsTheHolders`, `ActorHoldsToken`, `RootIsTold`, `NoSilentBoot`, `RootObeysTable`,
`DeliveryVouches`. `RootObeysTable` is also what lets `Genesis` write a transition as one step that
succeeds: the executor would never refuse it. For the boot, `HolderInv` ties the lock to who is past
`Acquire`, `RootInv` says what a root that is recorded by its pane has behind it (its session, its
token), and `StageInv` what each step of the spawn has done and what the routing left for it; the
other properties speak of serving daemons only and would not survive a relaunch that adopts without
them. For the deliveries, `VersionInv` says that versions rise from destination to head to
workspace, so that a retry never brings an older file, and `PromoInv` what a promote has brought by
the step it is at. The two share no variable and are kept side by side.

**`ControlPlaneProofs`**, for every set of sessions, planners and streams, any grace and any number
of rounds and kills, any saturation of the workboard and any pointers: `TypeOK`, `TerminalReleased`,
`SurfacesAgree`, `PlanIsCurrent`, `LedgerMovesAhead`. What validation admits is an invariant of the
manifest and of the candidate in flight (`KeptInv`), although the board changes beside them;
`SurfaceInv` says which of the three files a commit has brought up to date at each stage, of what
only commands write and, until somebody edits gate or board, of these too; `ViewInv` that a view
which was overtaken shows it by the ledger's length, but between the manifest's write and its row;
`AheadInv` that the manifest is ahead of the ledger, which lost rows make more than one move. That
`Ahead` is reflexive, transitive and contains the table is proved from its definition.

Every invariant, action property and refinement that a passing run checks is stated by a theorem.
Only model-checked are the liveness properties, `BootCompletes`, `RequestAnswered`, `LineIsRead`,
`SilentLeafEnds`, `SilenceEscalates`, `RenewalClears` and `RelaunchRecovers`: liveness under fairness
is beyond the proof system. Some theorems hold under a condition that the runs meet by their
constants: `FaultFree` for `ClaimHasHolder`, `PollSpawnsAlone` for `PollSpawnProofs`, `PlainCrashes`
with `NoOverlap` or `Orderly` for `ReplayProofs`. `RegistrationSparesLive`,
which a run refutes, is proved for the poll thread alone; the other properties that runs refute are
stated by no theorem.

## What is not modelled

* `necro.resume_brief`, `chokepoint.resume` and the RESUME and REAP legs of genesis: reached only for
  a running root whose pane has another session's uuid, which `list_targets` never reports.
* The fan-out cap, the descent rule and request numbering of the outbox; the re-drive's cooldown;
  the once-only escalation rows; the `transition` verb, which passes a client's arguments to the
  executor (`RunLedger` has arbitrary callers).
* In `RunLedger` a disk error that the process survives. In `Watchdog` a kickoff on the IPC
  thread, a kill, a second incarnation, the death probe of coordinators (it reports, and within one
  incarnation its condition is never reached before the sweep has reaped the node), the inbox line of
  a refused DONE as a step of its own (it goes with its row), and an `OSError` of the append to the
  parent's inbox, which `_notify_parent_of_collapse` swallows (`chokepoint.py:1808`): `DoneIsTold`
  holds of a disk that takes the line.
* In `Promote` what the patterns of the intent-spec match and what the copy excludes; a
  re-registration of the node while it is promoted. In `Genesis` every node but the root.
* In `ControlPlane` what no command reads back (contact policy, resume packet, brief, the count of
  recovery attempts, the names of lease owners) and a row that is whole but for its newline. A row
  torn within its line is modelled, and with it what the code does then: every later command refuses
  the ledger, for good.
* Adapters, sandbox profiles, credentials, trust files, briefs, configuration, the client, eval:
  pure functions and file output. The loop supervisor: one process of an earlier phase that calls a
  client turn after turn.

## Plan

1. `Lifecycle`, `RunLedger` with `AtomicLedger`, `RunLedgerProofs`: the durable core. Done.
2. `SpawnChokepoint`: the spawn path over an atomic ledger. Done but for the cap.
3. `Watchdog`, `WatchdogProofs`: verdicts, ladder, wakes, verbs. Done but for kickoffs on the IPC
   thread.
4. `Genesis`, `Promote`, `Daemon`, `DaemonProofs`: the process, its root and its deliveries. Done.
5. `ControlPlane`, `ControlPlaneProofs`: the self-improvement harness. Done.
6. `Outbox`: the cap counted by two threads, renames as steps, at-least-once servicing, with an
   abstract specification (a request is spawned or refused once) that it implements.
7. `Mailbox`, an abstract mailbox that `Watchdog`'s wake implements, and `MailboxProofs`. Done.
8. `SpawnProofs`, `PollSpawnProofs`. Done.
9. `ReplayProofs`: what a restart recovers and the refinement of `AtomicLedger`. Done. Left: that the
   poll thread of `SpawnChokepoint` makes the orderly calls that it assumes, as a theorem across the
   two modules rather than by `StepsAreLedgerSteps` for the one and `Orderly` for the other.
