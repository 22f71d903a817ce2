------------------------- MODULE ControlPlaneProofs -------------------------
(***************************************************************************)
(* Proofs about ControlPlane for every set of sessions, planners and       *)
(* streams, every grace, number of rounds and number of kills: its types,  *)
(* that a lease ends with the program, that the three surfaces come        *)
(* together again, that plans are current, and that the ledger never goes  *)
(* back over a final decision.                                             *)
(***************************************************************************)
EXTENDS ControlPlane, TLAPS

-----------------------------------------------------------------------------
(* The inductive invariant. *)

\* Two manifests tell the same of the program, its lease and its watch.
Alike(m, n) == /\ Program(m) = Program(n)
               /\ m.lease = n.lease /\ m.condition = n.condition

\* A packet repeats a manifest as far as only commands write it.
Repeats(p, m) == /\ p.program = Program(m)
                 /\ p.lease = m.lease /\ p.condition = m.condition

\* What validation has seen to no later step takes from a manifest.
KeptInv == /\ LeaseGuard(manifest)
           /\ commit # Idle => LeaseGuard(commit.candidate)

\* How far a command has brought the three surfaces along.
SurfaceInv ==
    /\ commit.stage = "append" => commit.row
    /\ commit.stage = "save" /\ ~commit.row =>
           Program(commit.candidate) = Program(manifest)
    /\ commit.stage \in {"append", "packet"} =>
           /\ Alike(commit.candidate, manifest)
           /\ ~edited => WhyOpen(commit.candidate) = WhyOpen(manifest)
    /\ commit.stage = "packet" /\ (commit.row \/ ~lapsed) =>
           ledger.state = manifest.status
    /\ commit.stage \in {"none", "save"} /\ ~lapsed =>
           /\ ledger.state = manifest.status
           /\ Repeats(packet, manifest)
           /\ ~edited => packet = Shown(manifest, board)

\* A view that was overtaken shows it by the ledger's length, but while the
\* command that overtakes it has not yet appended its row.
ViewInv ==
    crashes = 0 =>
        /\ commit # Idle => ~commit.misled
        /\ commit.stage # "append" =>
               \A s \in Planner : ~(view[s].same /\ view[s].moved)

\* The program lies ahead of the ledger, and a candidate ahead of both.
AheadInv ==
    /\ manifest.status \in Ahead[ledger.state]
    /\ commit.stage = "save" =>
           commit.candidate.status \in Ahead[manifest.status]

Inv == TypeOK /\ KeptInv /\ SurfaceInv /\ ViewInv /\ AheadInv

-----------------------------------------------------------------------------
(* Lemmas about the operators of the model. *)

\* A state lies ahead of itself, and so does what it may be moved to.
LEMMA AheadOfItself ==
    ASSUME NEW a \in KNOWN_STATES
    PROVE  a \in Ahead[a]
  BY DEF Ahead

LEMMA AheadByOne ==
    ASSUME NEW a \in KNOWN_STATES, NEW b \in KNOWN_STATES,
           b \in ALLOWED_TRANSITIONS[a]
    PROVE  b \in Ahead[a]
  BY DEF Ahead

\* What lies ahead of what lies ahead lies ahead.
LEMMA AheadFarther ==
    ASSUME NEW a \in KNOWN_STATES, NEW b \in Ahead[a], NEW c \in Ahead[b]
    PROVE  c \in Ahead[a]
  BY DEF Ahead

\* The states by name.
LEMMA StatesByName ==
    KNOWN_STATES = {"planned", "builder_in_progress", "reviewer_1_pending",
                    "reviewer_1_continue", "reviewer_1_pass",
                    "reviewer_2_pending", "reviewer_2_continue",
                    "global_reconciliation_pending", "stopped", "blocked",
                    "cancelled"}
  BY DEF KNOWN_STATES, ALLOWED_TRANSITIONS

\* What a packet shows is typed, and repeats the manifest it is rendered of.
LEMMA ShownTyped ==
    ASSUME NEW m \in Manifest, NEW b
    PROVE  /\ Shown(m, b) \in [program : [status : KNOWN_STATES, kind : Kind,
                                         round : 1 .. MaxRound,
                                         artifact : [Role -> 0 .. MaxRound]],
                              lease : {"active", "inactive"},
                              condition : WATCHDOG_CONDITIONS,
                              why : [open : SUBSET Stream, settled : BOOLEAN],
                              board : BoardStatus]
           /\ Repeats(Shown(m, b), m)
<1>1. DerivedStatus(b) \in BoardStatus
  BY DEF DerivedStatus, BoardStatus
<1>2. WhyOpen(m) \in [open : SUBSET Stream, settled : BOOLEAN]
  <2>1. (m.open = {} /\ m.satisfied) \in BOOLEAN
    BY Zenon
  <2> QED
    BY <2>1 DEF WhyOpen, Manifest
<1>3. Program(m) \in [status : KNOWN_STATES, kind : Kind,
                      round : 1 .. MaxRound,
                      artifact : [Role -> 0 .. MaxRound]]
  BY DEF Program, Manifest
<1> QED
  BY <1>1, <1>2, <1>3 DEF Shown, Manifest, Repeats

\* The first state is within the invariant.
LEMMA InitInv == Init => Inv
<1> SUFFICES ASSUME Init PROVE Inv
  OBVIOUS
<1> USE DEF Init
<1>1. "planned" \in KNOWN_STATES
  BY StatesByName
<1>2. TypeOK
  <2>1. manifest \in Manifest
    BY <1>1, BoundAssumption DEF Manifest, Kind, WATCHDOG_CONDITIONS
  <2>2. packet \in [program : [status : KNOWN_STATES, kind : Kind,
                               round : 1 .. MaxRound,
                               artifact : [Role -> 0 .. MaxRound]],
                    lease : {"active", "inactive"},
                    condition : WATCHDOG_CONDITIONS,
                    why : [open : SUBSET Stream, settled : BOOLEAN],
                    board : BoardStatus]
    BY <2>1, ShownTyped
  <2>3. /\ ledger \in [state : KNOWN_STATES, torn : BOOLEAN]
        /\ board \in [Stream -> StreamStatus \cup {"active"}]
        /\ view \in [Planner -> View \cup {NoView}]
        /\ edited \in BOOLEAN
    BY <1>1
  <2>4. poll \in Poll /\ crashes \in 0 .. MaxCrashes
    BY BoundAssumption DEF Poll, Asleep
  <2> QED
    BY <2>1, <2>2, <2>3, <2>4 DEF TypeOK
<1>3. KeptInv
  BY DEF KeptInv, LeaseGuard, TERMINAL_STATES
<1>4. SurfaceInv /\ ViewInv
  <2>1. manifest \in Manifest
    BY <1>2 DEF TypeOK
  <2>2. Repeats(packet, manifest)
    BY <2>1, ShownTyped
  <2>3. ledger.state = manifest.status
    OBVIOUS
  <2>4. packet = Shown(manifest, board) /\ commit = Idle
    OBVIOUS
  <2> QED
    BY <2>2, <2>3, <2>4 DEF SurfaceInv, ViewInv, Idle, NoView
<1>5. AheadInv
  BY <1>1, AheadOfItself DEF AheadInv, Idle
<1> QED
  BY <1>2, <1>3, <1>4, <1>5 DEF Inv

-----------------------------------------------------------------------------
(* Commands. *)

\* A candidate that validates, and lies ahead, begins a commit.
LEMMA AcceptInv ==
    ASSUME Inv, NEW c \in Manifest, NEW row \in BOOLEAN,
           NEW misled \in BOOLEAN, Accept(c, row, misled),
           c.status \in Ahead[manifest.status],
           ~row => Program(c) = Program(manifest),
           crashes = 0 => ~misled,
           poll' \in Poll, view' \in [Planner -> View \cup {NoView}],
           \A s \in Planner : view'[s] \in {view[s], NoView}
    PROVE  Inv'
<1>1. /\ commit = Idle /\ Valid(c, board)
      /\ UNCHANGED <<manifest, ledger, packet, board, edited, lapsed,
                     crashes>>
      /\ commit' = [stage |-> "save", candidate |-> c, row |-> row,
                    misled |-> misled]
  BY DEF Accept
<1>2. TypeOK'
  BY <1>1 DEF Inv, TypeOK, Commit
<1>3. KeptInv'
  <2>1. LeaseGuard(c)
    BY <1>1 DEF Valid, Sound
  <2> QED
    BY <1>1, <2>1 DEF Inv, KeptInv
<1>4. SurfaceInv'
  BY <1>1 DEF Inv, SurfaceInv, Idle
<1>5. ViewInv'
  BY <1>1 DEF Inv, ViewInv, Idle, NoView
<1>6. AheadInv'
  BY <1>1 DEF Inv, AheadInv
<1> QED
  BY <1>2, <1>3, <1>4, <1>5, <1>6 DEF Inv

\* A heartbeat and a release change the lease alone.
LEMMA LeaseInv ==
    ASSUME Inv, NEW s \in Session, Heartbeat(s) \/ ReleaseLease(s)
    PROVE  Inv'
<1>1. /\ view' = view /\ poll' = poll
      /\ \E c : /\ Accept(c, TRUE, FALSE)
                /\ \/ \E progress \in BOOLEAN :
                         c = [manifest EXCEPT !.lease = "active",
                                              !.fresh = @ \/ progress]
                   \/ c = [manifest EXCEPT !.lease = "inactive"]
  BY DEF Heartbeat, ReleaseLease
<1>2. PICK c : /\ Accept(c, TRUE, FALSE)
               /\ \/ \E progress \in BOOLEAN :
                        c = [manifest EXCEPT !.lease = "active",
                                             !.fresh = @ \/ progress]
                  \/ c = [manifest EXCEPT !.lease = "inactive"]
  BY <1>1
<1>3. manifest \in Manifest
  BY DEF Inv, TypeOK
<1>4. c \in Manifest /\ c.status = manifest.status
  <2>1. CASE c = [manifest EXCEPT !.lease = "inactive"]
    BY <1>3, <2>1 DEF Manifest
  <2>2. ASSUME NEW progress \in BOOLEAN,
               c = [manifest EXCEPT !.lease = "active",
                                    !.fresh = @ \/ progress]
        PROVE  c \in Manifest /\ c.status = manifest.status
    BY <1>3, <2>2 DEF Manifest
  <2> QED
    BY <1>2, <2>1, <2>2
<1>5. c.status \in Ahead[manifest.status]
  BY <1>3, <1>4, AheadOfItself DEF Manifest
<1> QED
  BY <1>1, <1>2, <1>4, <1>5, AcceptInv DEF Inv, TypeOK

\* A transition changes the program, and points to any artifacts.
LEMMA TransitionInv ==
    ASSUME Inv, NEW s \in Session, Transition(s)
    PROVE  Inv'
<1> DEFINE seen == IF s \in Planner THEN view[s] ELSE Current
<1>1. PICK target \in Successors(manifest) \cap Target, kind \in Kind,
           round \in 1 .. MaxRound,
           artifact \in Pointers \cup {manifest.artifact},
           guarded \in BOOLEAN :
          /\ guarded => seen.same
          /\ Accept([manifest EXCEPT
                         !.status = target, !.kind = kind,
                         !.round = round, !.artifact = artifact,
                         !.lease = IF target \in TERMINAL_STATES
                                   THEN "inactive" ELSE @],
                    TRUE, guarded /\ seen.moved)
  BY DEF Transition
<1> DEFINE c == [manifest EXCEPT
                     !.status = target, !.kind = kind,
                     !.round = round, !.artifact = artifact,
                     !.lease = IF target \in TERMINAL_STATES
                               THEN "inactive" ELSE @]
<1>2. Accept(c, TRUE, guarded /\ seen.moved)
  BY <1>1
<1>3. manifest \in Manifest /\ target \in KNOWN_STATES
  BY <1>1, BoundAssumption DEF Inv, TypeOK
<1>4. artifact \in [Role -> 0 .. MaxRound]
  BY <1>1, <1>3, PointersAssumption DEF Manifest
<1>5. c \in Manifest /\ c.status = target
  BY <1>1, <1>3, <1>4 DEF Manifest
<1>6. c.status \in Ahead[manifest.status]
  BY <1>1, <1>3, <1>5, AheadByOne DEF Successors, Manifest
<1>7. /\ poll' = poll
      /\ view' = [p \in Planner |-> IF p = s THEN NoView ELSE view[p]]
  BY DEF Transition
<1>8. /\ view' \in [Planner -> View \cup {NoView}]
      /\ \A p \in Planner : view'[p] \in {view[p], NoView}
  BY <1>7 DEF Inv, TypeOK
<1>9. /\ seen.moved \in BOOLEAN
      /\ crashes = 0 => ~(guarded /\ seen.moved)
  <2>1. seen \in View \cup {NoView, Current}
    BY DEF Inv, TypeOK
  <2>2. seen.moved \in BOOLEAN
    <3>1. NoView.moved \in BOOLEAN /\ Current.moved \in BOOLEAN
      BY DEF NoView, Current
    <3>2. \A v \in View : v.moved \in BOOLEAN
      BY DEF View
    <3> HIDE DEF seen
    <3> QED
      BY <2>1, <3>1, <3>2
  <2>3. crashes = 0 => ~(seen.same /\ seen.moved)
    BY <1>2 DEF Inv, ViewInv, Accept, Current, Idle
  <2> QED
    BY <1>1, <2>2, <2>3
<1> HIDE DEF c, seen
<1> QED
  BY <1>2, <1>5, <1>6, <1>7, <1>8, <1>9, AcceptInv DEF Inv, TypeOK, c

\* A command at one of its writes has a candidate.
LEMMA CommitTyped ==
    ASSUME Inv, commit # Idle
    PROVE  commit \in Commit
  BY DEF Inv, TypeOK

\* A next stage keeps the rest of the commit.
LEMMA StageMoves ==
    ASSUME commit \in Commit, NEW next \in {"append", "packet"},
           commit' = [commit EXCEPT !.stage = next]
    PROVE  /\ commit' \in Commit /\ commit'.stage = next
           /\ commit'.candidate = commit.candidate
           /\ commit'.row = commit.row /\ commit'.misled = commit.misled
  BY DEF Commit

\* What the view becomes when the program or the ledger moves on.
LEMMA ViewTyped ==
    ASSUME Inv,
           \/ view' = view
           \/ view' = [s \in Planner |-> [view[s] EXCEPT !.same = FALSE]]
           \/ view' = [s \in Planner |->
                          [view[s] EXCEPT !.moved = view[s] # NoView]]
    PROVE  view' \in [Planner -> View \cup {NoView}]
<1>1. ASSUME NEW v \in View \cup {NoView}
      PROVE  /\ [v EXCEPT !.same = FALSE] \in View \cup {NoView}
             /\ [v EXCEPT !.moved = v # NoView] \in View \cup {NoView}
  <2>1. CASE v = NoView
    <3>1. ASSUME NEW r \in [status : {"none"}, same : BOOLEAN,
                            moved : BOOLEAN]
          PROVE  /\ r.same = FALSE => [r EXCEPT !.same = FALSE] = r
                 /\ r.moved = FALSE => [r EXCEPT !.moved = FALSE] = r
      OBVIOUS
    <3>2. /\ NoView \in [status : {"none"}, same : BOOLEAN, moved : BOOLEAN]
          /\ NoView.same = FALSE /\ NoView.moved = FALSE
      BY DEF NoView
    <3>3. (NoView # NoView) = FALSE
      OBVIOUS
    <3> HIDE DEF NoView
    <3> QED
      BY <2>1, <3>1, <3>2, <3>3
  <2>2. CASE v \in View /\ v # NoView
    BY <2>2 DEF View
  <2> QED
    BY <2>1, <2>2
<1>2. view \in [Planner -> View \cup {NoView}]
  BY DEF Inv, TypeOK
<1>3. CASE view' = view
  BY <1>2, <1>3
<1>4. CASE view' = [s \in Planner |-> [view[s] EXCEPT !.same = FALSE]]
  BY <1>1, <1>2, <1>4
<1>5. CASE view' = [s \in Planner |->
                        [view[s] EXCEPT !.moved = view[s] # NoView]]
  BY <1>1, <1>2, <1>5
<1> QED
  BY <1>3, <1>4, <1>5

\* The manifest is written: the program moves, and every view of it is old.
LEMMA SaveManifestInv ==
    ASSUME Inv, SaveManifest
    PROVE  Inv'
<1>1. /\ commit.stage = "save" /\ manifest' = commit.candidate
      /\ edited' = FALSE
      /\ UNCHANGED <<ledger, packet, board, poll, lapsed, crashes>>
      /\ commit' = [commit EXCEPT !.stage = IF commit.row THEN "append"
                                                           ELSE "packet"]
  BY DEF SaveManifest
<1>2. commit \in Commit /\ commit # Idle
  BY <1>1, CommitTyped DEF Idle
<1>3. /\ commit' \in Commit
      /\ commit'.stage = IF commit.row THEN "append" ELSE "packet"
      /\ commit'.candidate = commit.candidate
      /\ commit'.row = commit.row /\ commit'.misled = commit.misled
  BY <1>1, <1>2, StageMoves
<1>4. TypeOK'
  <2>1. view' \in [Planner -> View \cup {NoView}]
    BY ViewTyped DEF SaveManifest
  <2>2. manifest' \in Manifest
    BY <1>1, <1>2 DEF Commit
  <2> QED
    BY <1>1, <1>3, <2>1, <2>2 DEF Inv, TypeOK
<1>5. KeptInv'
  BY <1>1, <1>2, <1>3 DEF Inv, KeptInv
<1>6. SurfaceInv'
  BY <1>1, <1>2, <1>3 DEF Inv, SurfaceInv, Alike, Program, Commit
<1>7. ViewInv'
  BY <1>1, <1>2, <1>3 DEF Inv, ViewInv, SurfaceInv, SaveManifest
<1>8. AheadInv'
  <2>1. /\ manifest.status \in Ahead[ledger.state]
        /\ manifest'.status \in Ahead[manifest.status]
        /\ ledger.state \in KNOWN_STATES
    BY <1>1 DEF Inv, AheadInv, TypeOK
  <2>2. manifest'.status \in Ahead[ledger.state]
    BY <2>1, AheadFarther
  <2> QED
    BY <1>1, <1>3, <2>2 DEF AheadInv
<1> QED
  BY <1>4, <1>5, <1>6, <1>7, <1>8 DEF Inv

\* The row is appended: every view is shorter than the ledger.
LEMMA AppendLedgerInv ==
    ASSUME Inv, AppendLedger
    PROVE  Inv'
<1>1. /\ commit.stage = "append"
      /\ ledger' = [ledger EXCEPT !.state = commit.candidate.status]
      /\ view' = [s \in Planner |-> [view[s] EXCEPT !.same = FALSE]]
      /\ commit' = [commit EXCEPT !.stage = "packet"]
      /\ UNCHANGED <<manifest, packet, board, edited, poll, lapsed, crashes>>
  BY DEF AppendLedger, RowState
<1>2. commit \in Commit /\ commit # Idle
  BY <1>1, CommitTyped DEF Idle
<1>3. /\ commit' \in Commit /\ commit'.stage = "packet"
      /\ commit'.candidate = commit.candidate
      /\ commit'.row = commit.row /\ commit'.misled = commit.misled
  BY <1>1, <1>2, StageMoves
<1>4. commit.candidate.status = manifest.status
  BY <1>1 DEF Inv, SurfaceInv, Alike, Program
<1>5. /\ ledger' \in [state : KNOWN_STATES, torn : BOOLEAN]
      /\ ledger'.state = manifest.status
  BY <1>1, <1>4 DEF Inv, TypeOK, Manifest
<1>6. TypeOK'
  <2>1. view' \in [Planner -> View \cup {NoView}]
    BY <1>1, ViewTyped
  <2> QED
    BY <1>1, <1>3, <1>5, <2>1 DEF Inv, TypeOK
<1>7. KeptInv'
  BY <1>1, <1>2, <1>3 DEF Inv, KeptInv
<1>8. SurfaceInv'
  BY <1>1, <1>3, <1>5 DEF Inv, SurfaceInv
<1>9. ViewInv'
  <2>1. \A s \in Planner : ~view'[s].same
    BY <1>1 DEF Inv, TypeOK, View, NoView
  <2> QED
    BY <1>1, <1>2, <1>3, <2>1 DEF Inv, ViewInv
<1>10. AheadInv'
  <2>1. manifest.status \in KNOWN_STATES
    BY DEF Inv, TypeOK, Manifest
  <2> QED
    BY <1>1, <1>3, <1>5, <2>1, AheadOfItself DEF AheadInv
<1> QED
  BY <1>6, <1>7, <1>8, <1>9, <1>10 DEF Inv

\* The packet is written and the lock let go, or the command is killed.
LEMMA CommitEndsInv ==
    ASSUME Inv, SaveContinuation \/ CommandDies
    PROVE  Inv'
<1>1. /\ UNCHANGED <<manifest, board, edited, view>>
      /\ commit # Idle /\ commit' = Idle
      /\ poll' = IF poll.pc = "waiting" THEN Asleep ELSE poll
  BY DEF SaveContinuation, CommandDies, Idle
<1>2. commit \in Commit
  BY <1>1, CommitTyped
<1>3. /\ ledger'.state = ledger.state
      /\ ledger' \in [state : KNOWN_STATES, torn : BOOLEAN]
  BY DEF SaveContinuation, CommandDies, Inv, TypeOK
<1>4. lapsed' \in BOOLEAN /\ crashes' \in 0 .. MaxCrashes
  <2>1. CASE SaveContinuation
    BY <2>1 DEF SaveContinuation, Inv, TypeOK
  <2>2. CASE CommandDies
    BY <2>2, BoundAssumption DEF CommandDies, Inv, TypeOK
  <2> QED
    BY <2>1, <2>2
<1>5. TypeOK'
  <2>1. poll' \in Poll
    BY <1>1 DEF Inv, TypeOK, Poll, Asleep
  <2>2. packet' \in [program : [status : KNOWN_STATES, kind : Kind,
                                round : 1 .. MaxRound,
                                artifact : [Role -> 0 .. MaxRound]],
                     lease : {"active", "inactive"},
                     condition : WATCHDOG_CONDITIONS,
                     why : [open : SUBSET Stream, settled : BOOLEAN],
                     board : BoardStatus]
    <3>1. CASE SaveContinuation
      <4>1. /\ packet' = Shown(commit.candidate, board)
            /\ commit.candidate \in Manifest
        BY <1>2, <3>1 DEF SaveContinuation, Commit
      <4> QED
        BY <4>1, ShownTyped
    <3>2. CASE CommandDies
      BY <3>2 DEF CommandDies, Inv, TypeOK
    <3> QED
      BY <3>1, <3>2
  <2> QED
    BY <1>1, <1>3, <1>4, <2>1, <2>2 DEF Inv, TypeOK
<1>6. KeptInv'
  BY <1>1 DEF Inv, KeptInv
<1>7. SurfaceInv'
  <2>1. CASE SaveContinuation
    <3>1. /\ commit.stage = "packet"
          /\ packet' = Shown(commit.candidate, board)
          /\ ~lapsed' => commit.row \/ ~lapsed
      BY <2>1 DEF SaveContinuation
    <3>2. commit.candidate \in Manifest
      BY <1>2 DEF Commit
    <3>3. /\ Alike(commit.candidate, manifest)
          /\ ~edited => WhyOpen(commit.candidate) = WhyOpen(manifest)
          /\ ~lapsed' => ledger.state = manifest.status
      BY <3>1 DEF Inv, SurfaceInv
    <3>4. Repeats(packet', manifest)
      BY <3>1, <3>2, <3>3, ShownTyped DEF Alike, Repeats
    <3>5. ~edited => packet' = Shown(manifest, board)
      BY <3>1, <3>3 DEF Shown, Alike
    <3> QED
      BY <1>1, <1>3, <3>3, <3>4, <3>5 DEF SurfaceInv, Idle
  <2>2. CASE CommandDies
    <3>1. /\ ~lapsed' => ~lapsed /\ commit.stage = "save"
          /\ packet' = packet
      BY <2>2 DEF CommandDies
    <3> QED
      BY <1>1, <1>3, <3>1 DEF Inv, SurfaceInv, Idle
  <2> QED
    BY <2>1, <2>2
<1>8. ViewInv'
  <2>1. CASE SaveContinuation
    BY <1>1, <2>1 DEF SaveContinuation, Inv, ViewInv
  <2>2. CASE CommandDies
    <3>1. crashes' # 0
      BY <2>2, BoundAssumption DEF CommandDies, Inv, TypeOK
    <3> QED
      BY <3>1 DEF ViewInv
  <2> QED
    BY <2>1, <2>2
<1>9. AheadInv'
  BY <1>1, <1>3 DEF Inv, AheadInv, Idle
<1> QED
  BY <1>5, <1>6, <1>7, <1>8, <1>9 DEF Inv

\* `next` copies what is current.
LEMMA PlanInv ==
    ASSUME Inv, NEW s \in Session, Plan(s)
    PROVE  Inv'
<1>1. /\ commit = Idle /\ s \in Planner
      /\ view' = [view EXCEPT ![s] = Current]
      /\ UNCHANGED <<manifest, ledger, packet, board, edited, commit, poll,
                     lapsed, crashes>>
  BY DEF Plan
<1>2. /\ Current \in View /\ ~Current.moved
      /\ view \in [Planner -> View \cup {NoView}]
  BY DEF Current, View, Inv, TypeOK, Manifest
<1>3. TypeOK'
  <2>1. view' \in [Planner -> View \cup {NoView}]
    BY <1>1, <1>2
  <2> QED
    BY <1>1, <2>1 DEF Inv, TypeOK
<1>4. ViewInv'
  <2>1. \A p \in Planner : view'[p] \in {view[p], Current}
    BY <1>1, <1>2
  <2> QED
    BY <1>1, <1>2, <2>1 DEF Inv, ViewInv
<1>5. KeptInv' /\ SurfaceInv' /\ AheadInv'
  BY <1>1 DEF Inv, KeptInv, SurfaceInv, AheadInv
<1> QED
  BY <1>3, <1>4, <1>5 DEF Inv

-----------------------------------------------------------------------------
(* What no command does. *)

\* The gate edited by hand, and time, leave what only commands write alone;
\* and an edit is noted.
LEMMA HandsInv ==
    ASSUME Inv, (\E s \in Session : EditGate(s)) \/ ProgressAges
    PROVE  Inv'
<1>1. UNCHANGED <<ledger, packet, board, commit, poll, view, lapsed, crashes>>
  BY DEF EditGate, ProgressAges
<1>2. manifest \in Manifest
  BY DEF Inv, TypeOK
<1>3. /\ manifest' \in Manifest
      /\ manifest'.status = manifest.status /\ manifest'.kind = manifest.kind
      /\ manifest'.round = manifest.round
      /\ manifest'.artifact = manifest.artifact
      /\ manifest'.lease = manifest.lease
      /\ manifest'.condition = manifest.condition
  <2>1. CASE ProgressAges
    BY <1>2, <2>1 DEF ProgressAges, Manifest
  <2>2. ASSUME NEW open \in SUBSET Stream, NEW satisfied \in BOOLEAN,
               manifest' = [manifest EXCEPT !.open = open,
                                            !.satisfied = satisfied]
        PROVE  /\ manifest' \in Manifest
               /\ manifest'.status = manifest.status
               /\ manifest'.kind = manifest.kind
               /\ manifest'.round = manifest.round
               /\ manifest'.artifact = manifest.artifact
               /\ manifest'.lease = manifest.lease
               /\ manifest'.condition = manifest.condition
    BY <1>2, <2>2 DEF Manifest
  <2>3. Unresolved(board) \in SUBSET Stream
    BY DEF Unresolved
  <2> QED
    BY <2>1, <2>2, <2>3 DEF EditGate
<1>4. /\ Program(manifest') = Program(manifest)
      /\ \A m : Alike(m, manifest') <=> Alike(m, manifest)
      /\ \A p : Repeats(p, manifest') <=> Repeats(p, manifest)
  BY <1>3 DEF Program, Alike, Repeats
<1>5. TypeOK'
  <2>1. edited' \in BOOLEAN
    BY DEF EditGate, ProgressAges, Inv, TypeOK
  <2> QED
    BY <1>1, <1>3, <2>1 DEF Inv, TypeOK
<1>6. KeptInv'
  BY <1>1, <1>3 DEF Inv, KeptInv, LeaseGuard
<1>7. SurfaceInv'
  <2>1. ~edited' => /\ ~edited
                    /\ WhyOpen(manifest') = WhyOpen(manifest)
                    /\ Shown(manifest', board) = Shown(manifest, board)
    <3>1. CASE edited'
      BY <3>1
    <3>2. CASE ~edited'
      <4>1. /\ ProgressAges /\ edited' = edited
            /\ manifest' = [manifest EXCEPT !.fresh = FALSE]
        BY <3>2 DEF EditGate, ProgressAges
      <4>2. WhyOpen(manifest') = WhyOpen(manifest)
        BY <1>2, <4>1 DEF WhyOpen, Manifest
      <4> QED
        BY <1>3, <1>4, <3>2, <4>1, <4>2 DEF Shown
    <3> QED
      BY <3>1, <3>2
  <2> QED
    BY <1>1, <1>3, <1>4, <2>1 DEF Inv, SurfaceInv
<1>8. ViewInv' /\ AheadInv'
  BY <1>1, <1>3 DEF Inv, ViewInv, AheadInv
<1> QED
  BY <1>5, <1>6, <1>7, <1>8 DEF Inv

\* Steps that leave the surfaces, the commit and the views alone.
LEMMA AsideInv ==
    ASSUME Inv, UNCHANGED <<manifest, ledger, packet, commit, view, lapsed>>,
           board' \in [Stream -> StreamStatus \cup {"active"}],
           edited' \in BOOLEAN, edited' \/ UNCHANGED <<board, edited>>,
           poll' \in Poll, crashes' \in 0 .. MaxCrashes,
           crashes' = 0 => crashes = 0
    PROVE  Inv'
<1>1. TypeOK'
  BY DEF Inv, TypeOK
<1>2. KeptInv' /\ ViewInv' /\ AheadInv'
  BY DEF Inv, KeptInv, ViewInv, AheadInv
<1>3. SurfaceInv'
  BY DEF Inv, SurfaceInv
<1> QED
  BY <1>1, <1>2, <1>3 DEF Inv

\* An escalation stays within the grace.
LEMMA VerdictTyped ==
    ASSUME NEW p, p.condition \in WATCHDOG_CONDITIONS, p.count \in 0 .. Grace,
           p.seen.health \in {"active", "stale", "inactive"},
           NEW verdict \in Verdicts(p)
    PROVE  /\ verdict[1] \in WATCHDOG_CONDITIONS
           /\ verdict[2] \in 0 .. Grace
<1> DEFINE n == IF p.condition \in STALE_FAMILY THEN p.count + 1 ELSE 1
           met == IF n < Grace THEN n ELSE Grace
<1>1. met \in 0 .. Grace /\ 0 \in 0 .. Grace
  BY BoundAssumption
<1>2. CASE verdict \in Escalation(p.condition, p.count)
  <2>1. verdict \in {<<"stale_suspect", met>>, <<"recovery_required", met>>,
                     <<"recovery_in_progress", met>>}
    BY <1>2 DEF Escalation
  <2> HIDE DEF met
  <2> QED
    BY <1>1, <2>1 DEF WATCHDOG_CONDITIONS, STALE_FAMILY
<1>3. CASE verdict \in {<<"invalid", 0>>, <<"terminal", 0>>,
                        <<"healthy", 0>>, <<"inactive", 0>>}
  BY <1>1, <1>3 DEF WATCHDOG_CONDITIONS
<1> QED
  BY <1>2, <1>3 DEF Verdicts

\* What a poll knows by the step it is at.
LEMMA PollTyped ==
    ASSUME Inv
    PROVE  /\ poll.pc \in {"loaded", "derived"} =>
                  /\ poll.condition \in WATCHDOG_CONDITIONS
                  /\ poll.count \in 0 .. Grace
           /\ poll.pc = "shown" =>
                  /\ poll.condition \in WATCHDOG_CONDITIONS
                  /\ poll.count \in 0 .. Grace
                  /\ poll.seen.health \in {"active", "stale", "inactive"}
<1>1. poll \in Poll
  BY DEF Inv, TypeOK
<1>2. CASE poll \in [pc : {"asleep", "waiting"}]
  BY <1>2
<1>3. CASE poll \in [pc : {"loaded", "derived"},
                     condition : WATCHDOG_CONDITIONS, count : 0 .. Grace]
  BY <1>3
<1>4. CASE poll \in [pc : {"shown"}, condition : WATCHDOG_CONDITIONS,
                     count : 0 .. Grace,
                     seen : [sound : BOOLEAN, open : SUBSET Stream,
                             ended : BOOLEAN,
                             health : {"active", "stale", "inactive"}]]
  BY <1>4
<1> QED
  BY <1>1, <1>2, <1>3, <1>4 DEF Poll

\* The poll reads, derives, gives up or dies, and a stream is set.
LEMMA PollReadsInv ==
    ASSUME Inv,
           \/ \E s \in Session : SetStream(s)
           \/ PollLoads \/ PollShows \/ PollDerives \/ PollRefused
           \/ WatchdogDies
    PROVE  Inv'
<1> USE DEF Inv, TypeOK
<1>1. ASSUME NEW s \in Session, SetStream(s) PROVE Inv'
  <2>1. /\ board' \in [Stream -> StreamStatus \cup {"active"}]
        /\ edited' = TRUE
        /\ UNCHANGED <<manifest, ledger, packet, commit, poll, view, lapsed,
                       crashes>>
    BY <1>1 DEF SetStream
  <2> QED
    BY <2>1, AsideInv
<1>2. CASE PollLoads
  <2>1. /\ UNCHANGED <<manifest, ledger, packet, board, edited, commit, view,
                       lapsed, crashes>>
        /\ poll' = [pc |-> "loaded", condition |-> manifest.condition,
                    count |-> manifest.count]
    BY <1>2 DEF PollLoads
  <2>2. poll' \in Poll
    BY <2>1 DEF Poll, Manifest
  <2> QED
    BY <2>1, <2>2, AsideInv
<1>3. CASE PollShows
  <2>1. /\ UNCHANGED <<manifest, ledger, packet, board, edited, commit, view,
                       lapsed, crashes>>
        /\ poll' = [pc |-> "shown", condition |-> poll.condition,
                    count |-> poll.count, seen |-> Seen]
        /\ poll.pc = "loaded"
    BY <1>3 DEF PollShows
  <2>2. Seen \in [sound : BOOLEAN, open : SUBSET Stream, ended : BOOLEAN,
                  health : {"active", "stale", "inactive"}]
    <3>1. (Sound(manifest) /\ ~ledger.torn) \in BOOLEAN
      BY Zenon
    <3>2. (manifest.status \in TERMINAL_STATES) \in BOOLEAN
      BY SMT
    <3>3. /\ manifest.open \in SUBSET Stream
          /\ LeaseHealth(manifest) \in {"active", "stale", "inactive"}
      BY DEF Manifest, LeaseHealth
    <3> QED
      BY <3>1, <3>2, <3>3 DEF Seen
  <2>3. poll' \in Poll
    BY <2>1, <2>2, PollTyped DEF Poll
  <2> QED
    BY <2>1, <2>3, AsideInv
<1>4. CASE PollDerives
  <2>1. /\ UNCHANGED <<manifest, ledger, packet, board, edited, commit, view,
                       lapsed, crashes>>
        /\ poll.pc = "shown"
    BY <1>4 DEF PollDerives
  <2>2. PICK verdict \in Verdicts(poll) :
            poll' = [pc |-> "derived", condition |-> verdict[1],
                     count |-> verdict[2]]
    BY <1>4 DEF PollDerives
  <2>3. poll' \in Poll
    BY <2>1, <2>2, PollTyped, VerdictTyped DEF Poll
  <2> QED
    BY <2>1, <2>3, AsideInv
<1>5. CASE PollRefused \/ WatchdogDies
  <2>1. /\ UNCHANGED <<manifest, ledger, packet, board, edited, commit, view,
                       lapsed>>
        /\ poll' = Asleep
    BY <1>5 DEF PollRefused, WatchdogDies
  <2>2. /\ crashes' \in 0 .. MaxCrashes
        /\ crashes' = 0 => crashes = 0
    BY <1>5, BoundAssumption DEF PollRefused, WatchdogDies
  <2>3. poll' \in Poll
    BY <2>1 DEF Asleep, Poll
  <2> QED
    BY <2>1, <2>2, <2>3, AsideInv
<1> QED
  BY <1>1, <1>2, <1>3, <1>4, <1>5

\* The checkpoint commits a verdict over the manifest it loads again.
LEMMA PollCheckpointsInv ==
    ASSUME Inv, PollCheckpoints
    PROVE  Inv'
<1> DEFINE row == manifest.condition # poll.condition
<1>1. /\ poll.pc = "derived" /\ poll' = [pc |-> "waiting"] /\ view' = view
      /\ Accept(Checkpointed, row, FALSE)
  BY DEF PollCheckpoints
<1>2. manifest \in Manifest /\ poll' \in Poll
  BY <1>1 DEF Inv, TypeOK, Poll
<1>3. /\ Checkpointed \in Manifest
      /\ Checkpointed.status = manifest.status
      /\ Checkpointed.kind = manifest.kind
      /\ Checkpointed.artifact = manifest.artifact
      /\ Checkpointed.round = manifest.round
  BY <1>1, <1>2, PollTyped DEF Checkpointed, Manifest
<1>4. /\ Program(Checkpointed) = Program(manifest)
      /\ Checkpointed.status \in Ahead[manifest.status]
  BY <1>2, <1>3, AheadOfItself DEF Program, Manifest
<1>5. row \in BOOLEAN
  BY Zenon
<1>6. /\ view' \in [Planner -> View \cup {NoView}]
      /\ \A p \in Planner : view'[p] \in {view[p], NoView}
  BY <1>1 DEF Inv, TypeOK
<1> HIDE DEF row
<1> QED
  BY <1>1, <1>2, <1>3, <1>4, <1>5, <1>6, AcceptInv

-----------------------------------------------------------------------------
(* The control plane. *)

\* Every step keeps the invariant.
LEMMA StepInv == Inv /\ [Next]_vars => Inv'
<1> SUFFICES ASSUME Inv, [Next]_vars PROVE Inv'
  OBVIOUS
<1>1. ASSUME NEW s \in Session, Command(s) PROVE Inv'
  BY <1>1, LeaseInv, TransitionInv, PlanInv DEF Command
<1>2. ASSUME NEW s \in Session, Aside(s) PROVE Inv'
  BY <1>2, PollReadsInv, HandsInv DEF Aside
<1>3. CASE CommitStep \/ CommandDies
  BY <1>3, SaveManifestInv, AppendLedgerInv, CommitEndsInv DEF CommitStep
<1>4. CASE PollStep \/ WatchdogDies
  BY <1>4, PollReadsInv, PollCheckpointsInv DEF PollStep
<1>5. CASE ProgressAges
  BY <1>5, HandsInv
<1>6. CASE UNCHANGED vars
  BY <1>6, AsideInv DEF vars, Inv, TypeOK
<1> QED
  BY <1>1, <1>2, <1>3, <1>4, <1>5, <1>6 DEF Next

\* The invariant holds throughout.
THEOREM Invariance == Spec => []Inv
  BY InitInv, StepInv, PTL DEF Spec

\* Every variable of the control plane keeps its type.
THEOREM TypeCorrect == Spec => []TypeOK
<1>1. Inv => TypeOK
  BY DEF Inv
<1> QED
  BY <1>1, Invariance, PTL

\* A program that has ended is leased by nobody.
THEOREM LeaseEndsWithProgram == Spec => []TerminalReleased
<1>1. Inv => TerminalReleased
  BY DEF Inv, KeptInv, LeaseGuard, TerminalReleased
<1> QED
  BY <1>1, Invariance, PTL

\* Between commands the three surfaces agree of what only commands write, and
\* of the gate and the workboard until those are edited; or a killed command
\* is still to be made up for.
THEOREM SurfacesComeTogether == Spec => []SurfacesAgree
<1>1. Inv => SurfacesAgree
  BY DEF Inv, SurfaceInv, Repeats, SurfacesAgree, Idle
<1> QED
  BY <1>1, Invariance, PTL

\* A transition guarded by the ledger's length changes the program it was
\* planned on.
THEOREM PlansAreCurrent == Spec => []PlanIsCurrent
<1>1. Inv => PlanIsCurrent
  BY DEF Inv, ViewInv, PlanIsCurrent
<1> QED
  BY <1>1, Invariance, PTL

\* The ledger's states follow the table, whatever rows a kill has left out.
THEOREM LedgerFollowsTable == Spec => LedgerMovesAhead
<1>1. Inv /\ [Next]_vars => [ledger'.state \in Ahead[ledger.state]]_ledger
  <2> SUFFICES ASSUME Inv, [Next]_vars, ledger' # ledger
               PROVE  ledger'.state \in Ahead[ledger.state]
    OBVIOUS
  <2>1. ledger.state \in KNOWN_STATES
    BY DEF Inv, TypeOK
  <2>2. AppendLedger \/ CommandDies
    <3>1. ~(\E s \in Session : Command(s))
      <4>1. ASSUME NEW s \in Session, Command(s) PROVE FALSE
        <5>1. CASE Plan(s)
          BY <5>1 DEF Plan
        <5>2. CASE \E c, row, misled : Accept(c, row, misled)
          BY <5>2 DEF Accept
        <5>3. CASE Heartbeat(s) \/ ReleaseLease(s)
          BY <5>2, <5>3 DEF Heartbeat, ReleaseLease
        <5>4. CASE Transition(s)
          BY <5>2, <5>4, Zenon DEF Transition
        <5> QED
          BY <4>1, <5>1, <5>3, <5>4 DEF Command
      <4> QED
        BY <4>1
    <3>2. ~(\E s \in Session : Aside(s))
      BY DEF Aside, SetStream, EditGate
    <3>3. ~PollStep /\ ~ProgressAges /\ ~WatchdogDies
      BY DEF PollStep, PollLoads, PollShows, PollDerives, PollCheckpoints,
             Accept, PollRefused, ProgressAges, WatchdogDies
    <3>4. ~SaveManifest /\ ~SaveContinuation /\ ~(UNCHANGED vars)
      BY DEF SaveManifest, SaveContinuation, vars
    <3> QED
      BY <3>1, <3>2, <3>3, <3>4 DEF Next, CommitStep
  <2>3. CASE AppendLedger
    <3>1. /\ commit.stage = "append"
          /\ ledger'.state = commit.candidate.status
      BY <2>3 DEF AppendLedger, RowState, Inv, TypeOK
    <3>2. commit.candidate.status = manifest.status
      BY <3>1 DEF Inv, SurfaceInv, Alike, Program
    <3> QED
      BY <3>1, <3>2 DEF Inv, AheadInv
  <2>4. CASE CommandDies
    <3>1. ledger'.state = ledger.state
      BY <2>4 DEF CommandDies, Inv, TypeOK
    <3> QED
      BY <2>1, <3>1, AheadOfItself
  <2> QED
    BY <2>2, <2>3, <2>4
<1> QED
  BY <1>1, Invariance, PTL DEF Spec, LedgerMovesAhead

=============================================================================
