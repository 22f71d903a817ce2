----------------------------- MODULE ControlPlane -----------------------------
(***************************************************************************)
(* The self-improvement harness: the control plane that holds its state     *)
(* (control_plane.py), the registry of its work streams (workboard.py) and  *)
(* the watchdog that polls it from outside every session (watchdog.py).     *)
(*                                                                         *)
(* The actors are orchestrator sessions, which run one command at a time    *)
(* and owe none, so that one that dies needs no action, and the watchdog.   *)
(* A mutating command holds .control-plane.lock from before it loads until  *)
(* it is done, but the workboard has a lock of its own, the watchdog reads  *)
(* the manifest without any, and a command writes its three files one after *)
(* the other: each write is a step here.                                    *)
(*                                                                         *)
(* A command whose candidate does not validate changes nothing and is left  *)
(* out.  So is what no command here reads back: the contact policy, the     *)
(* resume packet, the brief, and the count of recovery attempts.  The lease *)
(* has an owner exactly while it is active, and nobody compares owners.     *)
(* Every writer of last_progress_at writes last_heartbeat_at too, so that   *)
(* the age of the progress alone decides whether a lease is stale.          *)
(***************************************************************************)
EXTENDS Naturals, FiniteSets

CONSTANTS
    Session,       \* orchestrator sessions
    Planner,       \* those that may tarry between `next` and `transition`
    Stream,        \* the streams of the workboard
    StreamStatus,  \* the statuses that set-stream is given
    Grace,         \* watchdog.stale_grace_checks
    Target,        \* the states that transitions move to
    Pointers,      \* the artifact pointers that transitions leave
    Watched,       \* the watchdog is started
    RunRecovery,   \* auto_resume_command is set and --run-recovery was given
    MaxRound,      \* rounds there are
    MinActive,     \* the workboard's saturation: how many streams are to be
    MaxActive,     \* active, at least and at most (0: no limit)
    Killable,      \* what may be killed: "command", "watchdog"
    MaxCrashes     \* times that something is killed

ASSUME StreamAssumption ==
    StreamStatus \subseteq {"planned", "active", "waiting", "completed",
                            "blocked", "cancelled"}

TERMINAL_STATES == {"stopped", "blocked", "cancelled"}

\* The program's states, and for each the states it may be moved to.
ALLOWED_TRANSITIONS ==
    LET always(S) == S \cup {"blocked", "cancelled"}
    IN  [planned |-> always({"planned", "builder_in_progress"}),
         builder_in_progress |->
             always({"builder_in_progress", "reviewer_1_pending"}),
         reviewer_1_pending |->
             always({"reviewer_1_pending", "reviewer_1_continue",
                     "reviewer_1_pass"}),
         reviewer_1_continue |->
             always({"reviewer_1_continue", "planned",
                     "builder_in_progress"}),
         reviewer_1_pass |->
             always({"reviewer_1_pass", "reviewer_2_pending"}),
         reviewer_2_pending |->
             always({"reviewer_2_pending", "reviewer_2_continue",
                     "global_reconciliation_pending", "stopped"}),
         reviewer_2_continue |->
             always({"reviewer_2_continue", "planned",
                     "builder_in_progress"}),
         global_reconciliation_pending |->
             always({"global_reconciliation_pending", "planned",
                     "builder_in_progress", "stopped"}),
         stopped |-> {"stopped"},
         blocked |-> {"blocked", "cancelled"},
         cancelled |-> {"cancelled"}]

KNOWN_STATES == DOMAIN ALLOWED_TRANSITIONS

ASSUME BoundAssumption ==
    /\ Planner \subseteq Session
    /\ {RunRecovery, Watched} \subseteq BOOLEAN
    /\ {Grace, MaxRound} \subseteq Nat \ {0}
    /\ {MinActive, MaxActive} \subseteq Nat
    /\ Target \subseteq KNOWN_STATES
    /\ Killable \subseteq {"command", "watchdog"} /\ MaxCrashes \in Nat

Kind == {"work", "local_loop_stopped", "done"}

STALE_FAMILY == {"stale_suspect", "recovery_required", "recovery_in_progress"}

WATCHDOG_CONDITIONS ==
    {"never_checked", "healthy", "inactive", "terminal", "invalid"}
        \cup STALE_FAMILY

Role == {"builder", "reviewer_1", "reviewer_2"}

ASSUME PointersAssumption == Pointers \subseteq [Role -> 0 .. MaxRound]

\* The states in which a role's artifact must be there, with that role in its
\* frontmatter.
NeededIn(role) ==
    LET closing == {"global_reconciliation_pending", "stopped"}
        second == {"reviewer_1_pass", "reviewer_2_pending",
                   "reviewer_2_continue"} \cup closing
    IN  CASE role = "builder" ->
                 {"reviewer_1_pending", "reviewer_1_continue"} \cup second
          [] role = "reviewer_1" -> second
          [] role = "reviewer_2" -> {"reviewer_2_continue"} \cup closing

(***************************************************************************)
(* manifest.yaml: the program's state, its next action, the round with the  *)
(* artifacts its pointers name (0: unset, else the round that wrote them),  *)
(* the global_completion gate, the lease with the freshness of its          *)
(* progress, and the watchdog's condition and count.  The observation       *)
(* window repeats the condition.                                            *)
(***************************************************************************)
Manifest == [status : KNOWN_STATES, kind : Kind, round : 1 .. MaxRound,
             artifact : [Role -> 0 .. MaxRound],
             satisfied : BOOLEAN, open : SUBSET Stream,
             lease : {"active", "inactive"}, fresh : BOOLEAN,
             condition : WATCHDOG_CONDITIONS, count : 0 .. Grace]

\* What only a transition writes.
Program(m) == [status |-> m.status, kind |-> m.kind, round |-> m.round,
               artifact |-> m.artifact]

(***************************************************************************)
(* A command that has validated its candidate: what it writes next, the     *)
(* candidate, whether it appends a row, and whether it was planned on       *)
(* another program than the one it changes.                                 *)
(***************************************************************************)
Commit == [stage : {"save", "append", "packet"}, candidate : Manifest,
           row : BOOLEAN, misled : BOOLEAN]

Idle == [stage |-> "none"]

(***************************************************************************)
(* What `next` showed a session: the state, whether the ledger is still as  *)
(* long as it was, and, for a property only, whether the program has been   *)
(* changed since.                                                           *)
(***************************************************************************)
View == [status : KNOWN_STATES, same : BOOLEAN, moved : BOOLEAN]

NoView == [status |-> "none", same |-> FALSE, moved |-> FALSE]

VARIABLES
    manifest,  \* manifest.yaml
    ledger,    \* run-ledger.jsonl: the last row's state; a line is torn
    packet,    \* CONTINUATION.md: what it repeats of manifest and workboard
    board,     \* WORKBOARD.yaml: per stream, its status
    edited,    \* whether gate or board has been edited since a manifest was
               \* last saved, for a property only
    commit,    \* the command that holds .control-plane.lock, or Idle
    poll,      \* the watchdog's poll
    view,      \* per planner, what `next` showed it
    lapsed,    \* whether a commit was cut short and none has completed since
    crashes    \* counted for its bound

vars == <<manifest, ledger, packet, board, edited, commit, poll, view,
          lapsed, crashes>>

Asleep == [pc |-> "asleep"]

-----------------------------------------------------------------------------
(* Validation. *)

WORKBOARD_COUNTABLE_STATUSES == {"active", "waiting"}

Countable(b) == {x \in Stream : b[x] \in WORKBOARD_COUNTABLE_STATUSES}

Unresolved(b) == {x \in Stream : b[x] \notin {"completed", "cancelled"}}

BoardStatus ==
    {"inactive", "oversubscribed", "underutilized", "saturated"}

\* The status that is derived of a workboard whenever it is summarised.
DerivedStatus(b) ==
    LET active == Cardinality(Countable(b))
    IN  IF Unresolved(b) = {} THEN "inactive"
        ELSE IF MaxActive > 0 /\ active > MaxActive THEN "oversubscribed"
        ELSE IF MinActive > 0 /\ active < MinActive THEN "underutilized"
        ELSE "saturated"

\* Why the program is open: the streams that the gate names, and where it
\* names none its reason, which is satisfied or not.
WhyOpen(m) == [open |-> m.open, settled |-> m.open = {} /\ m.satisfied]

\* What CONTINUATION.md repeats of a manifest, and of the workboard as it is
\* when the packet is rendered.
Shown(m, b) == [program |-> Program(m), lease |-> m.lease,
                condition |-> m.condition, why |-> WhyOpen(m),
                board |-> DerivedStatus(b)]

\* A lease is active, stale or inactive.
LeaseHealth(m) ==
    IF m.lease = "inactive" THEN "inactive"
    ELSE IF m.fresh THEN "active" ELSE "stale"

\* A stop is global, and only a local one waits for reconciliation.
StopGuard(m) ==
    /\ m.satisfied => m.open = {}
    /\ m.kind = "local_loop_stopped" =>
           m.status = "global_reconciliation_pending" /\ ~m.satisfied
    /\ m.status = "stopped" => m.satisfied
    /\ m.status = "stopped" <=> m.kind = "done"

\* A slip: only a stopped program must have let its lease go.
LeaseGuardAtStop(m) == m.status = "stopped" => m.lease = "inactive"

LeaseGuard(m) == m.status \in TERMINAL_STATES => m.lease = "inactive"

WatchdogGuard(m) ==
    /\ m.condition \in STALE_FAMILY => m.count >= 1
    /\ m.condition = "terminal" => m.status \in TERMINAL_STATES

\* The gate names the board's unresolved streams, and an active lease works
\* on one of them.
Bound(open, leased, b) ==
    /\ open = Unresolved(b)
    /\ leased => Countable(b) # {}

ArtifactsThere(m) ==
    \A role \in Role : m.status \in NeededIn(role) => m.artifact[role] # 0

\* The manifest is sound in itself.
Sound(m) ==
    StopGuard(m) /\ LeaseGuard(m) /\ WatchdogGuard(m) /\ ArtifactsThere(m)

\* validate() finds no error.
Valid(m, b) == Sound(m) /\ Bound(m.open, m.lease = "active", b)

-----------------------------------------------------------------------------
(* Commands. *)

Init ==
    /\ manifest =
           [status |-> "planned", kind |-> "work", round |-> 1,
            artifact |-> [role \in Role |-> 0],
            satisfied |-> FALSE, open |-> Stream,
            lease |-> "inactive", fresh |-> TRUE,
            condition |-> "never_checked", count |-> 0]
    /\ ledger = [state |-> "planned", torn |-> FALSE]
    /\ board = [x \in Stream |-> "active"]
    /\ packet = Shown(manifest, board)
    /\ edited = FALSE
    /\ commit = Idle
    /\ poll = Asleep
    /\ view = [s \in Planner |-> NoView]
    /\ lapsed = FALSE
    /\ crashes = 0

\* A command takes the lock, loads the manifest and the ledger, and validates
\* its candidate against the workboard as it is now.
Accept(candidate, row, misled) ==
    /\ commit = Idle
    /\ ~ledger.torn
    /\ Valid(candidate, board)
    /\ commit' = [stage |-> "save", candidate |-> candidate, row |-> row,
                  misled |-> misled]
    /\ UNCHANGED <<manifest, ledger, packet, board, edited, lapsed, crashes>>

\* heartbeat: with --progress the progress is fresh again.
Heartbeat(s) ==
    /\ \E progress \in BOOLEAN :
           Accept([manifest EXCEPT !.lease = "active",
                                   !.fresh = @ \/ progress],
                  TRUE, FALSE)
    /\ UNCHANGED <<view, poll>>

ReleaseLease(s) ==
    /\ Accept([manifest EXCEPT !.lease = "inactive"], TRUE, FALSE)
    /\ UNCHANGED <<view, poll>>

\* A slip: a blocked program may go anywhere.
SuccessorsUnblocked(m) ==
    IF m.status = "blocked" THEN KNOWN_STATES
    ELSE ALLOWED_TRANSITIONS[m.status]

Successors(m) == ALLOWED_TRANSITIONS[m.status]

\* What `next` shows.
Current == [status |-> manifest.status, same |-> TRUE, moved |-> FALSE]

\* transition: a compare-and-set on the state that was read, and if the
\* caller gives it on the ledger's length; a terminal state ends the lease.
\* The current round and every pointer are arguments of their own, which any
\* transition may give, clear or leave out: that an artifact is not of the
\* current round is warned of and accepted.
Transition(s) ==
    /\ LET seen == IF s \in Planner THEN view[s] ELSE Current
       IN  /\ seen.status = manifest.status
           /\ \E target \in Successors(manifest) \cap Target,
                 kind \in Kind, round \in 1 .. MaxRound,
                 artifact \in Pointers \cup {manifest.artifact},
                 guarded \in BOOLEAN :
                  /\ guarded => seen.same
                  /\ Accept([manifest EXCEPT
                                 !.status = target, !.kind = kind,
                                 !.round = round, !.artifact = artifact,
                                 !.lease = IF target \in TERMINAL_STATES
                                           THEN "inactive" ELSE @],
                            TRUE, guarded /\ seen.moved)
    /\ view' = [p \in Planner |-> IF p = s THEN NoView ELSE view[p]]
    /\ UNCHANGED poll

\* next: what a session plans on, read under the shared lock.
Plan(s) ==
    /\ s \in Planner
    /\ commit = Idle /\ ~ledger.torn
    /\ view' = [view EXCEPT ![s] = Current]
    /\ UNCHANGED <<manifest, ledger, packet, board, edited, commit, poll,
                   lapsed, crashes>>

(***************************************************************************)
(* commit_mutation: the manifest, the row, the packet, one after the other; *)
(* then the lock is free.                                                   *)
(***************************************************************************)
SaveManifest ==
    /\ commit.stage = "save"
    /\ manifest' = commit.candidate
    /\ edited' = FALSE
    /\ commit' = [commit EXCEPT !.stage = IF commit.row THEN "append"
                                                         ELSE "packet"]
    /\ view' = IF Program(manifest') = Program(manifest) THEN view
               ELSE [s \in Planner |->
                         [view[s] EXCEPT !.moved = view[s] # NoView]]
    /\ UNCHANGED <<ledger, packet, board, poll, lapsed, crashes>>

\* A slip: the row's state and its next action's kind are mixed up.
RowStateOfKind(m) == m.kind

RowState(m) == m.status

\* A slip: a row only where the state changes.
AppendLedgerOfMoves ==
    LET moved == commit.candidate.status # ledger.state
    IN  /\ commit.stage = "append"
        /\ ledger' = [ledger EXCEPT !.state = RowState(commit.candidate)]
        /\ view' = IF moved THEN [s \in Planner |->
                                      [view[s] EXCEPT !.same = FALSE]]
                   ELSE view
        /\ commit' = [commit EXCEPT !.stage = "packet"]
        /\ UNCHANGED <<manifest, packet, board, edited, poll, lapsed,
                       crashes>>

AppendLedger ==
    /\ commit.stage = "append"
    /\ ledger' = [ledger EXCEPT !.state = RowState(commit.candidate)]
    /\ view' = [s \in Planner |-> [view[s] EXCEPT !.same = FALSE]]
    /\ commit' = [commit EXCEPT !.stage = "packet"]
    /\ UNCHANGED <<manifest, packet, board, edited, poll, lapsed, crashes>>

\* A slip: the packet is left alone where the program has not moved.
SaveContinuationOfMoves ==
    /\ commit.stage = "packet"
    /\ packet' = IF Program(commit.candidate) = packet.program THEN packet
                 ELSE Shown(commit.candidate, board)
    /\ commit' = Idle
    /\ poll' = IF poll.pc = "waiting" THEN Asleep ELSE poll
    /\ lapsed' = (lapsed /\ ~commit.row)
    /\ UNCHANGED <<manifest, ledger, board, edited, view, crashes>>

SaveContinuation ==
    /\ commit.stage = "packet"
    /\ packet' = Shown(commit.candidate, board)
    /\ commit' = Idle
    /\ poll' = IF poll.pc = "waiting" THEN Asleep ELSE poll
    /\ lapsed' = (lapsed /\ ~commit.row)
    /\ UNCHANGED <<manifest, ledger, board, edited, view, crashes>>

\* The command dies: the lock goes with it, what it wrote stays.  An append
\* may leave half a line, which no later load accepts.
CommandDies ==
    /\ "command" \in Killable /\ crashes < MaxCrashes
    /\ commit # Idle
    /\ crashes' = crashes + 1
    /\ commit' = Idle
    /\ poll' = IF poll.pc = "waiting" THEN Asleep ELSE poll
    /\ lapsed' = (lapsed \/ commit.stage # "save")
    /\ ledger' \in {ledger} \cup IF commit.stage = "append"
                                 THEN {[ledger EXCEPT !.torn = TRUE]} ELSE {}
    /\ UNCHANGED <<manifest, packet, board, edited, view>>

-----------------------------------------------------------------------------
(* The workboard, and the one surface that no command writes. *)

\* set-stream: under the workboard's own lock, validated by itself.
SetStream(s) ==
    /\ \E x \in Stream, status \in StreamStatus :
           board' = [board EXCEPT ![x] = status]
    /\ board' # board
    /\ edited' = TRUE
    /\ UNCHANGED <<manifest, ledger, packet, commit, poll, view,
                   lapsed, crashes>>

\* The gate is edited in the file itself, without the lock.
EditGate(s) ==
    /\ \E satisfied \in BOOLEAN :
           /\ satisfied => Unresolved(board) = {}
           /\ manifest.status = "stopped" => satisfied
           /\ manifest' = [manifest EXCEPT !.open = Unresolved(board),
                                           !.satisfied = satisfied]
    /\ manifest' # manifest
    /\ edited' = TRUE
    /\ UNCHANGED <<ledger, packet, board, commit, poll, view, lapsed,
                   crashes>>

\* stale_after_s goes by, which no command takes.  Only the watchdog minds.
ProgressAges ==
    /\ Watched /\ commit = Idle /\ manifest.fresh
    /\ manifest' = [manifest EXCEPT !.fresh = FALSE]
    /\ UNCHANGED <<ledger, packet, board, edited, commit, poll, view, lapsed,
                   crashes>>

-----------------------------------------------------------------------------
(* The watchdog's poll. *)

\* A slip: the watchdog rests while a recovery is in progress.
PollLoadsUnlessRecovering ==
    /\ Watched /\ poll = Asleep
    /\ manifest.condition # "recovery_in_progress"
    /\ poll' = [pc |-> "loaded", condition |-> manifest.condition,
                count |-> manifest.count]
    /\ UNCHANGED <<manifest, ledger, packet, board, edited, commit, view,
                   lapsed, crashes>>

\* The condition and the count are read from the manifest without the lock.
PollLoads ==
    /\ Watched /\ poll = Asleep
    /\ poll' = [pc |-> "loaded", condition |-> manifest.condition,
                count |-> manifest.count]
    /\ UNCHANGED <<manifest, ledger, packet, board, edited, commit, view,
                   lapsed, crashes>>

\* What matters of a manifest to the verdict on it.
Seen == [sound |-> Sound(manifest) /\ ~ledger.torn, open |-> manifest.open,
         ended |-> manifest.status \in TERMINAL_STATES,
         health |-> LeaseHealth(manifest)]

\* `show` reads the manifest again, under the shared lock.
PollShows ==
    /\ poll.pc = "loaded" /\ commit = Idle
    /\ poll' = [pc |-> "shown", condition |-> poll.condition,
                count |-> poll.count, seen |-> Seen]
    /\ UNCHANGED <<manifest, ledger, packet, board, edited, commit, view,
                   lapsed, crashes>>

\* A slip: the count is not carried over.
EscalationForgetful(condition, count) ==
    IF Grace > 1 THEN {<<"stale_suspect", 1>>}
    ELSE {<<"recovery_required", 1>>}

\* What a stale lease comes to.  The code counts on without a cap; all that is
\* ever asked is whether the grace is reached, and so the count stays there.
Escalation(condition, count) ==
    LET n == IF condition \in STALE_FAMILY THEN count + 1 ELSE 1
        met == IF n < Grace THEN n ELSE Grace
    IN  IF n < Grace THEN {<<"stale_suspect", met>>}
        ELSE IF condition = "recovery_in_progress"
             THEN {<<"recovery_in_progress", met>>}
        ELSE {<<"recovery_required", met>>}
             \cup (IF RunRecovery THEN {<<"recovery_in_progress", met>>}
                   ELSE {})

\* derive_checkpoint: `show` validates what it read against the workboard as
\* it is after the lock.  With RunRecovery the recovery command is launched in
\* this step, or its launch fails.
Verdicts(p) ==
    IF ~p.seen.sound \/ ~Bound(p.seen.open, p.seen.health # "inactive", board)
    THEN {<<"invalid", 0>>}
    ELSE IF p.seen.ended THEN {<<"terminal", 0>>}
    ELSE CASE p.seen.health = "active" -> {<<"healthy", 0>>}
           [] p.seen.health = "inactive" -> {<<"inactive", 0>>}
           [] p.seen.health = "stale" -> Escalation(p.condition, p.count)

PollDerives ==
    /\ poll.pc = "shown"
    /\ \E verdict \in Verdicts(poll) :
           poll' = [pc |-> "derived", condition |-> verdict[1],
                    count |-> verdict[2]]
    /\ UNCHANGED <<manifest, ledger, packet, board, edited, commit, view,
                   lapsed, crashes>>

\* watchdog-checkpoint loads the manifest a third time, and validates.  Only a
\* change of condition is a row of the ledger.
Checkpointed == [manifest EXCEPT !.condition = poll.condition,
                                 !.count = poll.count]

PollCheckpoints ==
    /\ poll.pc = "derived"
    /\ Accept(Checkpointed, manifest.condition # poll.condition, FALSE)
    /\ poll' = [pc |-> "waiting"]
    /\ UNCHANGED view

PollRefused ==
    /\ poll.pc = "derived" /\ commit = Idle
    /\ ledger.torn \/ ~Valid(Checkpointed, board)
    /\ poll' = Asleep
    /\ UNCHANGED <<manifest, ledger, packet, board, edited, commit, view,
                   lapsed, crashes>>

\* The watchdog is killed and, by its operator or a service manager, started
\* again.  A checkpoint that it waited for goes on without it.
WatchdogDies ==
    /\ "watchdog" \in Killable /\ crashes < MaxCrashes
    /\ poll # Asleep
    /\ crashes' = crashes + 1
    /\ poll' = Asleep
    /\ UNCHANGED <<manifest, ledger, packet, board, edited, commit, view,
                   lapsed>>

-----------------------------------------------------------------------------

Command(s) ==
    Heartbeat(s) \/ ReleaseLease(s) \/ Transition(s) \/ Plan(s)

Aside(s) == SetStream(s) \/ EditGate(s)

CommitStep == SaveManifest \/ AppendLedger \/ SaveContinuation

PollStep == PollLoads \/ PollShows \/ PollDerives \/ PollCheckpoints
                \/ PollRefused

Next ==
    \/ \E s \in Session : Command(s) \/ Aside(s)
    \/ CommitStep
    \/ PollStep
    \/ ProgressAges
    \/ CommandDies
    \/ WatchdogDies

Spec == Init /\ [][Next]_vars

(***************************************************************************)
(* A command that runs ends, and the watchdog goes on polling.  It waits    *)
(* for the lock in the kernel's queue, which commands cannot overtake for   *)
(* ever: hence the strong fairness.  Sessions owe nothing.                  *)
(***************************************************************************)
FairSpec ==
    /\ Spec
    /\ WF_vars(CommitStep)
    /\ WF_vars(PollLoads) /\ WF_vars(PollDerives)
    /\ SF_vars(PollShows) /\ SF_vars(PollCheckpoints \/ PollRefused)

-----------------------------------------------------------------------------
(* Safety. *)

Poll ==
    [pc : {"asleep", "waiting"}]
    \cup [pc : {"loaded", "derived"}, condition : WATCHDOG_CONDITIONS,
          count : 0 .. Grace]
    \cup [pc : {"shown"}, condition : WATCHDOG_CONDITIONS, count : 0 .. Grace,
          seen : [sound : BOOLEAN, open : SUBSET Stream, ended : BOOLEAN,
                  health : {"active", "stale", "inactive"}]]

\* Every variable keeps its type.
TypeOK ==
    /\ manifest \in Manifest
    /\ ledger \in [state : KNOWN_STATES, torn : BOOLEAN]
    /\ packet \in [program : [status : KNOWN_STATES, kind : Kind,
                              round : 1 .. MaxRound,
                              artifact : [Role -> 0 .. MaxRound]],
                   lease : {"active", "inactive"},
                   condition : WATCHDOG_CONDITIONS,
                   why : [open : SUBSET Stream, settled : BOOLEAN],
                   board : BoardStatus]
    /\ board \in [Stream -> StreamStatus \cup {"active"}]
    /\ edited \in BOOLEAN
    /\ commit \in Commit \cup {Idle}
    /\ poll \in Poll
    /\ view \in [Planner -> View \cup {NoView}]
    /\ lapsed \in BOOLEAN
    /\ crashes \in 0 .. MaxCrashes

\* No session holds a lease on a program that has ended, whichever of a last
\* heartbeat, a checkpoint and the transition that ended it came first, and
\* wherever one of them was cut short (control_plane.py: the terminal branch
\* of transition, and the lease check of validate).
TerminalReleased ==
    manifest.status \in TERMINAL_STATES => manifest.lease = "inactive"

\* Between commands the manifest, the ledger's last row and CONTINUATION.md
\* tell the same story of the program, its lease and its watch, and of the
\* gate and the workboard too unless those have been edited since; and after
\* a command that was killed between its writes the next one that appends a
\* row and completes brings them together again (control_plane.py,
\* commit_mutation and render_continuation).
SurfacesAgree ==
    (commit = Idle /\ ~lapsed) =>
        /\ ledger.state = manifest.status
        /\ packet.program = Program(manifest)
        /\ packet.lease = manifest.lease
        /\ packet.condition = manifest.condition
        /\ ~edited => packet = Shown(manifest, board)

\* A transition that gives the ledger's length it has seen is decided on the
\* program it changes: nobody has moved the program since it was read
\* (control_plane.py, the compare-and-set of transition).  A killed command
\* may have moved it without a row, so that the length is the same.
PlanIsCurrent == (commit # Idle /\ crashes = 0) => ~commit.misled

\* The states that lie ahead of each.
Ahead ==
    [from \in KNOWN_STATES |->
        {to \in KNOWN_STATES :
            \A S \in SUBSET KNOWN_STATES :
                (/\ from \in S
                 /\ \A t \in S : ALLOWED_TRANSITIONS[t] \subseteq S)
                    => to \in S}]

\* The ledger never goes back over a decision that the table makes final: each
\* row's state lies ahead of the state of the row before it, lost rows or not
\* (control_plane.py, ALLOWED_TRANSITIONS; every command appends the state of
\* the manifest it has loaded under the lock).
LedgerMovesAhead == [][ledger'.state \in Ahead[ledger.state]]_ledger

-----------------------------------------------------------------------------
(* Liveness. *)

Leased(freshness) ==
    /\ Valid(manifest, board) /\ ~ledger.torn
    /\ manifest.lease = "active" /\ manifest.fresh = freshness

\* A session that has gone silent does not stay unnoticed: a stale lease that
\* nobody renews, on a plane that validates, is escalated (watchdog.py,
\* derive_checkpoint; WATCHDOG.md, "if the active session silently dies").
SilenceEscalates ==
    Leased(FALSE) ~> (\/ manifest.condition \in {"recovery_required",
                                                 "recovery_in_progress"}
                      \/ ~Leased(FALSE))

\* A renewed lease clears the suspicion, even where a verdict derived from
\* what was read before is committed over the renewal (watchdog.py).
RenewalClears ==
    Leased(TRUE) ~> (manifest.condition = "healthy" \/ ~Leased(TRUE))

=============================================================================
