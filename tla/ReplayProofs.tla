----------------------------- MODULE ReplayProofs -----------------------------
(***************************************************************************)
(* More proofs about RunLedger: what a restart recovers, that epochs never  *)
(* regress and live incarnations are never registered over, and that the    *)
(* files implement one register per node (AtomicLedger).                    *)
(*                                                                         *)
(* They hold for every set of nodes and callers whose calls are orderly,    *)
(* and a single caller's always are.  What a replay computes is proved by   *)
(* induction over the log, with a least counterexample.                     *)
(***************************************************************************)
EXTENDS RunLedgerProofs

\* A crash may cut a frame short, and no more.
PlainCrashes == CrashKinds \subseteq {"torn"}

\* A row that is a transition.
Moves(row) == row.exp # NoGen /\ row.gen # row.exp

\* While a node is registered nobody else registers it or moves it; its own
\* slice may be written, and events of it journalled.
NoOverlap ==
    \A c \in Caller : seed[c] # NoSeed =>
        /\ op # Idle /\ Moves(op.row) => op.row.node # seed[c].node
        /\ \A d \in Caller \ {c} :
               seed[d] # NoSeed => seed[d].node # seed[c].node

\* A view that passes the compare-and-swap is of the live binding's epoch.
FreshViews ==
    \A c \in Caller : view[c] # NoView /\ CasHolds(c) =>
        view[c].epoch = bindings[view[c].node].epoch

Orderly == NoOverlap /\ FreshViews

-----------------------------------------------------------------------------
(* Rows over a map. *)

\* It has been applied, or overtaken.
Spent(map, row) ==
    map[row.node] # NoBinding /\ row.seq <= map[row.node].wm

\* A replay passes over it.
Inert(map, row) ==
    /\ row.exp # NoGen => map[row.node] # NoBinding
    /\ Moves(row) => Spent(map, row)

\* It is yet to be applied, and may be.
Due(map, row) ==
    LET b == map[row.node] IN
    /\ Moves(row) /\ b # NoBinding
    /\ b.gen = row.exp /\ row.gen = b.gen + 1 /\ b.wm < row.seq
    /\ Admissible(b.state, row.to, Patch(b.slice, row.delta) = Escalated)

\* A watermark is that of a row, or below one, or none.
Witnessed(wm, wal) == wm = 0 \/ \E i \in 1 .. Len(wal) : wm <= wal[i].seq

AllInert(map, wal, k) == \A i \in 1 .. k : Inert(map, wal[i])

-----------------------------------------------------------------------------
(* The inductive invariant. *)

Quiet == AllInert(bindings, LoadWal, Len(LoadWal))

\* The last row awaits its checkpoint, or the restart that makes up for it.
Pending ==
    /\ LoadWal # <<>>
    /\ AllInert(bindings, LoadWal, Len(LoadWal) - 1)
    /\ Due(bindings, LoadWal[Len(LoadWal)])

RowsInv ==
    \/ Quiet
    \/ /\ Pending
       /\ phase = "serving" => op # Idle /\ op.stage = "checkpoint"
                                         /\ op.row = LoadWal[Len(LoadWal)]

TailInv == ~terminated => lines # <<>> /\ ~Last(lines).intact

WatermarkInv ==
    \A n \in Node : bindings[n] # NoBinding =>
        Witnessed(bindings[n].wm, LoadWal)

\* The mutation in flight, over the binding that it read.
FlightInv ==
    op # Idle =>
        /\ phase = "serving"
        /\ op.row.exp # NoGen => bindings[op.row.node] # NoBinding
        /\ op.row.exp = NoGen => op.row.gen = NoGen
        /\ Moves(op.row) => Due(bindings, op.row) /\ op.cand # NoBinding
        /\ op.cand # NoBinding =>
               /\ bindings[op.row.node] # NoBinding
               /\ op.row.exp # NoGen
               /\ bindings[op.row.node].wm < op.row.seq
               /\ op.cand = IF Moves(op.row)
                            THEN ApplyOne(bindings[op.row.node], op.row)
                            ELSE [bindings[op.row.node] EXCEPT
                                     !.slice = op.cand.slice,
                                     !.wm = op.row.seq]
        /\ op.stage = "checkpoint" =>
               /\ op.cand # NoBinding
               /\ LoadWal # <<>> /\ op.row = LoadWal[Len(LoadWal)]
        /\ op.stage # "checkpoint" => op.row.seq = NextSeq

\* A seed is still good when it is used.
RegistrationInv ==
    \A c \in Caller : seed[c] # NoSeed =>
        LET s == seed[c]
            b == bindings[s.node]
        IN  /\ phase = "serving" /\ Registrable(b)
            /\ b # NoBinding => s.epoch > b.epoch
            /\ Witnessed(s.wm, LoadWal)
            /\ \A i \in 1 .. Len(LoadWal) :
                   LoadWal[i].node = s.node => LoadWal[i].seq <= s.wm
                                            \/ ~Moves(LoadWal[i])

\* A replay in progress has passed over all rows up to the last.
MemInv ==
    phase = "replaying" =>
        /\ pos <= Len(LoadWal) + 1
        /\ mem = IF pos <= Len(LoadWal) THEN bindings ELSE Recovered

ReplayInv ==
    /\ TailInv /\ RowsInv /\ WatermarkInv /\ FlightInv
    /\ RegistrationInv /\ MemInv

\* Under fresh views: a row in flight, or due, rotates by one or not at all.
EpochInv ==
    /\ op # Idle /\ Moves(op.row) =>
           op.row.epoch \in {bindings[op.row.node].epoch,
                             bindings[op.row.node].epoch + 1}
    /\ Pending =>
           LET row == LoadWal[Len(LoadWal)]
           IN  row.epoch \in {bindings[row.node].epoch,
                              bindings[row.node].epoch + 1}

-----------------------------------------------------------------------------
(* What a replay computes, by induction over the log. *)

\* The function that a replay of the first k rows builds.
Replayed(g, map, wal, k) ==
    g = [i \in 0 .. k |-> IF i = 0 THEN map ELSE ReplayRow(g[i - 1], wal[i])]

\* There is one for every length: by a least length that has none.
LEMMA ReplayedExists ==
    ASSUME NEW map, NEW wal, NEW k \in Nat
    PROVE  \E g : Replayed(g, map, wal, k)
<1> DEFINE bad == {j \in Nat : ~ \E g : Replayed(g, map, wal, j)}
<1>1. SUFFICES ASSUME bad # {} PROVE FALSE
  OBVIOUS
<1>2. PICK m \in bad : \A j \in bad : ~(j < m)
  <2>1. \E m \in bad : \A j \in bad : <<j, m>> \notin OpToRel(<, Nat)
    BY <1>1, WFMin, NatLessThanWellFounded, Zenon
  <2> QED
    BY <2>1 DEF OpToRel
<1>3. m # 0
  <2>1. Replayed([i \in 0 .. 0 |-> map], map, wal, 0)
    BY DEF Replayed
  <2> QED
    BY <2>1
<1>4. PICK g : Replayed(g, map, wal, m - 1)
  BY <1>2, <1>3
<1> DEFINE h == [i \in 0 .. m |-> IF i = m THEN ReplayRow(g[m - 1], wal[m])
                                  ELSE g[i]]
<1>5. Replayed(h, map, wal, m)
  <2>1. \A i \in 0 .. m :
            h[i] = IF i = 0 THEN map ELSE ReplayRow(h[i - 1], wal[i])
    BY <1>3, <1>4 DEF Replayed
  <2> QED
    BY <2>1 DEF Replayed
<1> QED
  BY <1>2, <1>5

\* A replay is the last value of such a function.
LEMMA ReplayAllReplayed ==
    ASSUME NEW map, NEW wal \in Seq(Row)
    PROVE  \E g : /\ Replayed(g, map, wal, Len(wal))
                  /\ ReplayAll(map, wal) = g[Len(wal)]
<1> DEFINE f == CHOOSE g : Replayed(g, map, wal, Len(wal))
<1>1. ReplayAll(map, wal) = f[Len(wal)]
  BY DEF ReplayAll, Replayed
<1>2. Replayed(f, map, wal, Len(wal))
  BY ReplayedExists, LenProperties
<1> QED
  BY <1>1, <1>2

\* A replay passes over an inert row.
LEMMA InertRow ==
    ASSUME NEW map \in [Node -> MaybeBinding], NEW row \in Row,
           Inert(map, row)
    PROVE  ReplayRow(map, row) = map
<1> DEFINE b == map[row.node]
           new == IF b # NoBinding THEN ApplyOne(b, row)
                  ELSE IF row.exp = NoGen THEN NoBinding
                  ELSE ApplyOne(RowPreImage(row), row)
<1>1. ReplayRow(map, row) = [map EXCEPT ![row.node] = new]
  BY DEF ReplayRow
<1>2. new = b
  <2>1. CASE b = NoBinding
    BY <2>1 DEF Inert
  <2>2. CASE b # NoBinding
    <3>1. b.gen # NoGen
      BY <2>2 DEF MaybeBinding, Binding, Row, NoGen
    <3> QED
      BY <2>2, <3>1 DEF Inert, Moves, Spent, ApplyOne
  <2> QED
    BY <2>1, <2>2
<1> HIDE DEF new
<1> QED
  BY <1>1, <1>2

\* A replay passes over a log's inert rows to the first that is not.
LEMMA InertPrefix ==
    ASSUME NEW map \in [Node -> MaybeBinding], NEW wal \in Seq(Row),
           NEW g, Replayed(g, map, wal, Len(wal)),
           NEW k \in 0 .. Len(wal), AllInert(map, wal, k)
    PROVE  g[k] = map
<1> DEFINE bad == {j \in 0 .. k : g[j] # map}
<1>0. Len(wal) \in Nat
  BY LenProperties
<1>1. SUFFICES ASSUME bad # {} PROVE FALSE
  OBVIOUS
<1>2. PICK m \in bad : \A j \in bad : ~(j < m)
  <2>1. bad \subseteq Nat
    BY <1>0
  <2> HIDE DEF bad
  <2>2. \E m \in bad : \A j \in bad : <<j, m>> \notin OpToRel(<, Nat)
    BY <1>1, <2>1, WFMin, NatLessThanWellFounded, Zenon
  <2> QED
    BY <2>1, <2>2 DEF OpToRel
<1>3. \A j \in 0 .. Len(wal) :
        g[j] = IF j = 0 THEN map ELSE ReplayRow(g[j - 1], wal[j])
  BY DEF Replayed
<1>4. m # 0 /\ m \in 1 .. Len(wal) /\ m \in 1 .. k /\ m - 1 \in 0 .. k
  BY <1>0, <1>2, <1>3
<1>5. g[m - 1] = map
  BY <1>2, <1>4
<1>6. wal[m] \in Row /\ Inert(map, wal[m])
  BY <1>4, ElementOfSeq DEF AllInert
<1>7. g[m] = map
  BY <1>3, <1>4, <1>5, <1>6, InertRow
<1> QED
  BY <1>2, <1>7

\* When all rows are inert a replay is the identity.
LEMMA ReplayOfInert ==
    ASSUME NEW map \in [Node -> MaybeBinding], NEW wal \in Seq(Row),
           AllInert(map, wal, Len(wal))
    PROVE  ReplayAll(map, wal) = map
<1>1. PICK g : /\ Replayed(g, map, wal, Len(wal))
               /\ ReplayAll(map, wal) = g[Len(wal)]
  BY ReplayAllReplayed
<1>2. Len(wal) \in 0 .. Len(wal)
  BY LenProperties
<1> QED
  BY <1>1, <1>2, InertPrefix

\* When all rows but the last are inert, a replay is that of the last.
LEMMA ReplayOfLast ==
    ASSUME NEW map \in [Node -> MaybeBinding], NEW wal \in Seq(Row),
           wal # <<>>, AllInert(map, wal, Len(wal) - 1)
    PROVE  ReplayAll(map, wal) = ReplayRow(map, wal[Len(wal)])
<1>1. PICK g : /\ Replayed(g, map, wal, Len(wal))
               /\ ReplayAll(map, wal) = g[Len(wal)]
  BY ReplayAllReplayed
<1>2. Len(wal) \in Nat /\ Len(wal) # 0
  BY LenProperties, EmptySeq
<1>3. Len(wal) - 1 \in 0 .. Len(wal)
  BY <1>2
<1>4. g[Len(wal) - 1] = map
  BY <1>1, <1>3, InertPrefix
<1>5. g[Len(wal)] = ReplayRow(g[Len(wal) - 1], wal[Len(wal)])
  <2>1. \A j \in 0 .. Len(wal) :
          g[j] = IF j = 0 THEN map ELSE ReplayRow(g[j - 1], wal[j])
    BY <1>1 DEF Replayed
  <2>2. Len(wal) \in 0 .. Len(wal)
    BY <1>2
  <2> QED
    BY <1>2, <2>1, <2>2
<1> QED
  BY <1>1, <1>4, <1>5

-----------------------------------------------------------------------------
(* The rows of a log. *)

\* The rows of the lines that a load keeps.
RowsOf(ls) ==
    LET good == IF ls # <<>> /\ ~Last(ls).intact THEN Front(ls) ELSE ls
    IN  [i \in DOMAIN good |-> good[i].row]

Line == [row : Row, intact : BOOLEAN]

Rising(wal) == \A i, j \in 1 .. Len(wal) : i < j => wal[i].seq < wal[j].seq

\* A whole line more is a row more.
LEMMA RowsOfWhole ==
    ASSUME NEW ls \in Seq(Line), NEW row \in Row,
           ls # <<>> => Last(ls).intact
    PROVE  RowsOf(Append(ls, [row |-> row, intact |-> TRUE]))
                = Append(RowsOf(ls), row)
<1> DEFINE line == [row |-> row, intact |-> TRUE]
           more == Append(ls, line)
<1>1. line \in Line /\ line.row = row /\ line.intact
  BY DEF Line
<1>2. /\ more \in Seq(Line) /\ Len(more) = Len(ls) + 1 /\ Len(ls) \in Nat
      /\ \A i \in 1 .. Len(ls) : more[i] = ls[i]
      /\ more[Len(ls) + 1] = line /\ more # <<>>
  <2> HIDE DEF line
  <2> QED
    BY <1>1, AppendProperties, LenProperties
<1> HIDE DEF line, more
<1>3. RowsOf(more) = [i \in 1 .. Len(ls) + 1 |-> more[i].row]
  BY <1>1, <1>2, LenProperties DEF RowsOf, Last
<1>4. RowsOf(ls) = [i \in 1 .. Len(ls) |-> ls[i].row]
  BY LenProperties DEF RowsOf
<1>5. RowsOf(ls) \in Seq(Row) /\ Len(RowsOf(ls)) = Len(ls)
  <2>1. \A i \in 1 .. Len(ls) : ls[i].row \in Row
    <3>1. \A i \in 1 .. Len(ls) : ls[i] \in Line
      BY ElementOfSeq
    <3> QED
      BY <3>1 DEF Line
  <2> QED
    BY <1>2, <1>4, <2>1
<1>6. /\ Append(RowsOf(ls), row) \in Seq(Row)
      /\ Len(Append(RowsOf(ls), row)) = Len(ls) + 1
      /\ \A i \in 1 .. Len(ls) : Append(RowsOf(ls), row)[i] = ls[i].row
      /\ Append(RowsOf(ls), row)[Len(ls) + 1] = row
  <2> HIDE DEF RowsOf
  <2>1. \A i \in 1 .. Len(ls) : RowsOf(ls)[i] = ls[i].row
    BY <1>4
  <2> QED
    BY <1>2, <1>5, <2>1, AppendProperties
<1>7. /\ RowsOf(more) \in Seq(Row) /\ Len(RowsOf(more)) = Len(ls) + 1
      /\ \A i \in 1 .. Len(ls) + 1 : RowsOf(more)[i] = more[i].row
  <2>1. \A i \in 1 .. Len(ls) + 1 : more[i].row \in Row
    <3>1. \A i \in 1 .. Len(ls) + 1 : more[i] \in Line
      BY <1>2, ElementOfSeq
    <3> QED
      BY <3>1 DEF Line
  <2> QED
    BY <1>2, <1>3, <2>1
<1>8. \A i \in 1 .. Len(ls) + 1 :
        RowsOf(more)[i] = Append(RowsOf(ls), row)[i]
  BY <1>1, <1>2, <1>6, <1>7
<1>9. RowsOf(more) = Append(RowsOf(ls), row)
  BY <1>6, <1>7, <1>8, SeqEqual
<1> QED
  BY <1>9 DEF more, line

\* A torn line more is none.
LEMMA RowsOfTorn ==
    ASSUME NEW ls \in Seq(Line), NEW row \in Row,
           ls # <<>> => Last(ls).intact
    PROVE  RowsOf(Append(ls, [row |-> row, intact |-> FALSE])) = RowsOf(ls)
<1> DEFINE line == [row |-> row, intact |-> FALSE]
           more == Append(ls, line)
<1>1. line \in Line /\ ~line.intact
  BY DEF Line
<1>2. /\ more \in Seq(Line) /\ Len(more) = Len(ls) + 1 /\ Len(ls) \in Nat
      /\ \A i \in 1 .. Len(ls) : more[i] = ls[i]
      /\ more[Len(ls) + 1] = line /\ more # <<>>
  <2> HIDE DEF line
  <2> QED
    BY <1>1, AppendProperties, LenProperties
<1> HIDE DEF line, more
<1>3. /\ Front(more) \in Seq(Line) /\ Len(Front(more)) = Len(ls)
      /\ \A i \in 1 .. Len(ls) : Front(more)[i] = ls[i]
  BY <1>2, FrontProperties
<1>4. RowsOf(more) = [i \in 1 .. Len(ls) |-> Front(more)[i].row]
  <2>1. ~Last(more).intact
    BY <1>1, <1>2 DEF Last
  <2> QED
    BY <1>2, <1>3, <2>1, LenProperties DEF RowsOf
<1>5. RowsOf(ls) = [i \in 1 .. Len(ls) |-> ls[i].row]
  BY LenProperties DEF RowsOf
<1> QED
  BY <1>3, <1>4, <1>5 DEF more, line

\* Dropping a torn line changes no row, when the others are whole.
LEMMA RowsOfHealed ==
    ASSUME NEW ls \in Seq(Line), ls # <<>>, ~Last(ls).intact,
           \A i \in 1 .. Len(ls) - 1 : ls[i].intact
    PROVE  /\ RowsOf(Front(ls)) = RowsOf(ls)
           /\ Front(ls) # <<>> => Last(Front(ls)).intact
<1>1. /\ Front(ls) \in Seq(Line) /\ Len(Front(ls)) = Len(ls) - 1
      /\ \A i \in 1 .. Len(ls) - 1 : Front(ls)[i] = ls[i]
  BY FrontProperties
<1>2. Front(ls) # <<>> => Last(Front(ls)).intact
  <2> SUFFICES ASSUME Front(ls) # <<>> PROVE Last(Front(ls)).intact
    OBVIOUS
  <2>1. Len(ls) - 1 \in 1 .. Len(ls) - 1
    BY <1>1, LenProperties, EmptySeq
  <2> QED
    BY <1>1, <2>1 DEF Last
<1> QED
  BY <1>2 DEF RowsOf

\* The rows of the log, their numbers, and what next_seq makes of them.
LEMMA WalFacts ==
    ASSUME Inv
    PROVE  /\ LoadWal = RowsOf(lines)
           /\ LoadWal \in Seq(Row) /\ Len(LoadWal) \in Nat
           /\ Rising(LoadWal)
           /\ \A i \in 1 .. Len(LoadWal) :
                  LoadWal[i] \in Row /\ RowOK(LoadWal[i])
           /\ MaxWalSeq \in Nat /\ NextSeq = MaxWalSeq + 1
           /\ \A i \in 1 .. Len(LoadWal) : LoadWal[i].seq <= MaxWalSeq
           /\ Witnessed(MaxWalSeq, LoadWal)
<1>1. lines \in Seq([row : Row, intact : BOOLEAN]) /\ SeqStrictlyRises
  BY DEF Inv, TypeOK, LogInv
<1>2. /\ LoadWal \in Seq(Row)
      /\ Len(LoadWal) <= Len(lines)
      /\ \A i \in 1 .. Len(LoadWal) : LoadWal[i] = lines[i].row
  BY <1>1, LoadWalRows
<1>3. \A i \in 1 .. Len(LoadWal) : LoadWal[i] \in Row
  BY <1>2, ElementOfSeq
<1>4. /\ DOMAIN LoadWal = 1 .. Len(LoadWal)
      /\ Len(LoadWal) \in Nat /\ Len(lines) \in Nat
  BY <1>1, <1>2, LenProperties
<1>5. Rising(LoadWal) /\ \A i \in 1 .. Len(LoadWal) : RowOK(LoadWal[i])
  BY <1>1, <1>2, <1>4 DEF Rising, SeqStrictlyRises, Inv, LogInv
<1>6. /\ MaxWalSeq \in Nat /\ NextSeq = MaxWalSeq + 1
      /\ \A i \in 1 .. Len(LoadWal) : LoadWal[i].seq < NextSeq
  BY <1>1, NextSeqFresh DEF NextSeq
<1>7. \A i \in 1 .. Len(LoadWal) : LoadWal[i].seq \in Nat
  BY <1>3 DEF Row
<1>8. Witnessed(MaxWalSeq, LoadWal)
  <2>1. CASE LoadWal = <<>>
    BY <2>1 DEF MaxWalSeq, Witnessed
  <2>2. CASE LoadWal # <<>>
    <3>1. Len(LoadWal) \in 1 .. Len(LoadWal)
      BY <1>2, <1>4, <2>2, EmptySeq
    <3>2. WalSeqs = {LoadWal[i].seq : i \in 1 .. Len(LoadWal)}
      BY <1>4 DEF WalSeqs
    <3>3. /\ WalSeqs \in SUBSET Nat /\ WalSeqs # {}
          /\ \A x \in WalSeqs : x <= NextSeq
      BY <1>6, <1>7, <3>1, <3>2
    <3>4. NextSeq \in Nat
      BY <1>6
    <3>5. Max(WalSeqs) \in WalSeqs
      BY <3>3, <3>4, MaxOfNats
    <3>6. PICK i \in 1 .. Len(LoadWal) : MaxWalSeq = LoadWal[i].seq
      BY <2>2, <3>2, <3>5 DEF MaxWalSeq
    <3>7. MaxWalSeq <= LoadWal[i].seq
      BY <1>6, <3>6
    <3> QED
      BY <3>7 DEF Witnessed
  <2> QED
    BY <2>1, <2>2
<1>9. LoadWal = RowsOf(lines)
  BY DEF LoadWal, RowsOf
<1> QED
  BY <1>2, <1>3, <1>4, <1>5, <1>6, <1>7, <1>8, <1>9

\* Healing the tail leaves the rows as they are.
LEMMA HealRows ==
    ASSUME Inv, TailInv, Heal
    PROVE  LoadWal' = LoadWal /\ TailInv'
<1>1. /\ lines \in Seq(Line) /\ Loadable /\ terminated'
      /\ lines' = IF terminated THEN lines ELSE Front(lines)
  BY DEF Inv, TypeOK, LogInv, OnlyFinalLineTorn, Line, Heal
<1>2. LoadWal = RowsOf(lines) /\ LoadWal' = RowsOf(lines')
  BY DEF LoadWal, RowsOf
<1>3. CASE terminated
  BY <1>1, <1>2, <1>3 DEF TailInv
<1>4. CASE ~terminated
  <2>1. lines # <<>> /\ ~Last(lines).intact
    BY <1>4 DEF TailInv
  <2>2. RowsOf(Front(lines)) = RowsOf(lines)
    BY <1>1, <2>1, RowsOfHealed DEF Loadable
  <2> QED
    BY <1>1, <1>2, <1>4, <2>2 DEF TailInv
<1> QED
  BY <1>3, <1>4

\* The frame of the row in flight becomes the last row.
LEMMA AppendRows ==
    ASSUME Inv, AppendFrame
    PROVE  LoadWal' = Append(LoadWal, op.row) /\ TailInv'
<1>1. /\ lines \in Seq(Line) /\ op # Idle /\ terminated /\ op.row \in Row
      /\ lines # <<>> => Last(lines).intact
  BY DEF Inv, TypeOK, LogInv, OnlyFinalLineTorn, Line, AppendFrame, OpInv,
         Row
<1>2. lines' = Append(lines, [row |-> op.row, intact |-> TRUE]) /\ terminated'
  BY <1>1 DEF AppendFrame, Framed
<1>3. LoadWal = RowsOf(lines) /\ LoadWal' = RowsOf(lines')
  BY DEF LoadWal, RowsOf
<1> QED
  BY <1>1, <1>2, <1>3, RowsOfWhole DEF TailInv

\* A frame cut short is no row.
LEMMA CrashRows ==
    ASSUME Inv, TailInv, PlainCrashes, Crash
    PROVE  LoadWal' = LoadWal /\ TailInv' /\ bindings' = bindings
<1>1. bindings' = bindings
  BY DEF PlainCrashes, Crash
<1>2. LoadWal = RowsOf(lines) /\ LoadWal' = RowsOf(lines')
  BY DEF LoadWal, RowsOf
<1>3. PICK f \in {[lines |-> lines, terminated |-> terminated]} \cup CutFrame :
        lines' = f.lines /\ terminated' = f.terminated
  BY DEF Crash
<1>4. CASE f = [lines |-> lines, terminated |-> terminated]
  BY <1>1, <1>2, <1>3, <1>4 DEF TailInv
<1>5. CASE f \in CutFrame
  <2>1. op # Idle /\ op.stage = "append"
    BY <1>5 DEF CutFrame
  <2>2. f = [lines |-> Append(lines, [row |-> op.row, intact |-> FALSE]),
             terminated |-> FALSE]
    BY <1>5, <2>1 DEF CutFrame, PlainCrashes
  <2>3. lines' = Append(lines, [row |-> op.row, intact |-> FALSE])
    BY <1>3, <2>2
  <2>4. /\ lines \in Seq(Line) /\ op.row \in Row
        /\ lines # <<>> => Last(lines).intact
    BY <2>1 DEF Inv, TypeOK, LogInv, OnlyFinalLineTorn, Line, OpInv
  <2>5. LoadWal' = LoadWal
    BY <1>2, <2>3, <2>4, RowsOfTorn
  <2>6. lines' # <<>> /\ ~Last(lines').intact
    <3> DEFINE line == [row |-> op.row, intact |-> FALSE]
    <3>1. line \in Line /\ ~line.intact
      BY <2>4 DEF Line
    <3> HIDE DEF line
    <3>2. Append(lines, line) # <<>> /\ Last(Append(lines, line)) = line
      BY <2>4, <3>1, AppendProperties, LenProperties DEF Last
    <3> QED
      BY <2>3, <3>1, <3>2 DEF line
  <2> QED
    BY <1>1, <2>5, <2>6 DEF TailInv
<1> QED
  BY <1>3, <1>4, <1>5

-----------------------------------------------------------------------------
(* Rows and watermarks. *)

\* A row that is due is not inert.
LEMMA DueIsNotInert ==
    ASSUME NEW map \in [Node -> MaybeBinding], NEW row \in Row,
           Due(map, row)
    PROVE  ~Inert(map, row)
<1>1. map[row.node] \in MaybeBinding /\ row.seq \in Nat
  BY DEF Row
<1> QED
  BY <1>1 DEF Due, Inert, Spent, MaybeBinding, Binding

\* What a row that is due makes of its binding, and of the map.
LEMMA ApplyDue ==
    ASSUME NEW map \in [Node -> MaybeBinding], NEW row \in Row,
           Due(map, row)
    PROVE  LET b == map[row.node]
               new == [state |-> row.to, gen |-> row.gen,
                       epoch |-> row.epoch, token |-> row.token,
                       wm |-> row.seq, slice |-> Patch(b.slice, row.delta)]
           IN  /\ b \in Binding /\ ApplyOne(b, row) = new
               /\ ReplayRow(map, row) = [map EXCEPT ![row.node] = new]
<1> DEFINE b == map[row.node]
           new == [state |-> row.to, gen |-> row.gen,
                   epoch |-> row.epoch, token |-> row.token,
                   wm |-> row.seq, slice |-> Patch(b.slice, row.delta)]
<1>1. b \in Binding /\ b # NoBinding /\ row.seq \in Nat
  BY DEF Due, Row, MaybeBinding
<1>2. ~(row.seq <= b.wm \/ b.gen = row.gen \/ b.gen # row.exp)
  BY <1>1 DEF Due, Binding
<1>3. ApplyOne(b, row) = new
  BY <1>2 DEF ApplyOne, Patch
<1>4. ReplayRow(map, row) = [map EXCEPT ![row.node] = new]
  BY <1>1, <1>3 DEF ReplayRow
<1> QED
  BY <1>1, <1>3, <1>4

\* A row stays inert while its binding is bound and its watermark grows.
LEMMA InertKeeps ==
    ASSUME NEW map \in [Node -> MaybeBinding],
           NEW later \in [Node -> MaybeBinding], NEW row \in Row,
           Inert(map, row),
           map[row.node] # NoBinding =>
               /\ later[row.node] # NoBinding
               /\ map[row.node].wm <= later[row.node].wm
    PROVE  Inert(later, row)
<1>1. /\ map[row.node] \in MaybeBinding /\ later[row.node] \in MaybeBinding
      /\ row.seq \in Nat
  BY DEF Row
<1> QED
  BY <1>1 DEF Inert, Spent, MaybeBinding, Binding

\* The last row, settled: with a binding of its number, whatever else that
\* binding is, all rows are inert and every watermark is witnessed.
LEMMA Settled ==
    ASSUME NEW map \in [Node -> MaybeBinding], NEW wal \in Seq(Row),
           wal # <<>>, Rising(wal), AllInert(map, wal, Len(wal) - 1),
           NEW n \in Node, n = wal[Len(wal)].node,
           NEW new \in Binding, new.wm = wal[Len(wal)].seq,
           \A m \in Node : map[m] # NoBinding => Witnessed(map[m].wm, wal),
           NEW later, later = [map EXCEPT ![n] = new]
    PROVE  /\ later \in [Node -> MaybeBinding]
           /\ AllInert(later, wal, Len(wal))
           /\ \A m \in Node :
                  later[m] # NoBinding => Witnessed(later[m].wm, wal)
<1>1. Len(wal) \in Nat /\ Len(wal) \in 1 .. Len(wal)
  BY LenProperties, EmptySeq
<1>2. later \in [Node -> MaybeBinding] /\ later[n] = new
      /\ \A m \in Node \ {n} : later[m] = map[m]
  BY DEF MaybeBinding
<1>3. new # NoBinding
  BY DEF Binding, NoBinding, NoState, KnownStates
<1>4. \A i \in 1 .. Len(wal) : wal[i] \in Row /\ wal[i].seq <= new.wm
  <2> SUFFICES ASSUME NEW i \in 1 .. Len(wal)
               PROVE  wal[i] \in Row /\ wal[i].seq <= new.wm
    OBVIOUS
  <2>1. wal[i] \in Row /\ wal[Len(wal)] \in Row
    BY <1>1, ElementOfSeq
  <2>2. i < Len(wal) => wal[i].seq < wal[Len(wal)].seq
    BY <1>1 DEF Rising
  <2> QED
    BY <1>1, <2>1, <2>2 DEF Row
<1>5. AllInert(later, wal, Len(wal))
  <2> SUFFICES ASSUME NEW i \in 1 .. Len(wal) PROVE Inert(later, wal[i])
    BY DEF AllInert
  <2>1. wal[i] \in Row /\ wal[i].node \in Node
    BY <1>4 DEF Row
  <2>2. CASE wal[i].node = n
    BY <1>2, <1>3, <1>4, <2>2 DEF Inert, Spent
  <2>3. CASE wal[i].node # n
    <3>1. i \in 1 .. Len(wal) - 1
      BY <1>1, <2>3
    <3>2. Inert(map, wal[i])
      BY <3>1 DEF AllInert
    <3> QED
      BY <1>2, <2>1, <2>3, <3>2 DEF Inert, Spent
  <2> QED
    BY <2>2, <2>3
<1>6. Witnessed(new.wm, wal)
  <2>1. wal[Len(wal)].seq \in Nat
    BY <1>1, <1>4 DEF Row
  <2> QED
    BY <1>1, <2>1 DEF Witnessed
<1> QED
  BY <1>2, <1>5, <1>6

\* A row more keeps what the others witness.
LEMMA WitnessedAppend ==
    ASSUME NEW wal \in Seq(Row), NEW row \in Row, NEW wm,
           Witnessed(wm, wal)
    PROVE  Witnessed(wm, Append(wal, row))
<1>1. /\ Len(wal) \in Nat /\ Len(Append(wal, row)) = Len(wal) + 1
      /\ \A i \in 1 .. Len(wal) : Append(wal, row)[i] = wal[i]
  BY AppendProperties, LenProperties
<1> QED
  BY <1>1 DEF Witnessed

\* A watermark is at most the largest number of the log.
LEMMA WatermarkBounded ==
    ASSUME Inv, WatermarkInv, NEW n \in Node, bindings[n] # NoBinding
    PROVE  bindings[n].wm <= MaxWalSeq /\ bindings[n].wm < NextSeq
<1>1. bindings[n].wm \in Nat
  BY DEF Inv, TypeOK, MaybeBinding, Binding
<1>2. \A i \in 1 .. Len(LoadWal) : LoadWal[i].seq \in Nat
  BY WalFacts DEF Row
<1> QED
  BY <1>1, <1>2, WalFacts DEF WatermarkInv, Witnessed

-----------------------------------------------------------------------------
(* Every step preserves the invariant while registrations do not overlap.  *)

\* The log is empty, nothing is bound.
LEMMA InitReplay == Init => ReplayInv
<1> SUFFICES ASSUME Init PROVE ReplayInv
  OBVIOUS
<1>1. /\ lines = <<>> /\ terminated /\ phase = "serving" /\ op = Idle
      /\ \A n \in Node : bindings[n] = NoBinding
      /\ \A c \in Caller : seed[c] = NoSeed
  BY DEF Init
<1>2. LoadWal = <<>>
  BY <1>1 DEF LoadWal
<1>3. Quiet
  BY <1>2 DEF Quiet, AllInert
<1> QED
  BY <1>1, <1>3 DEF ReplayInv, TailInv, RowsInv, WatermarkInv, FlightInv,
                    RegistrationInv, MemInv

\* What depends on the rows and the bindings only.
LEMMA SameRows ==
    ASSUME LoadWal' = LoadWal, bindings' = bindings
    PROVE  /\ Quiet' = Quiet /\ Pending' = Pending /\ NextSeq' = NextSeq
           /\ WatermarkInv' = WatermarkInv /\ Recovered' = Recovered
BY DEF Quiet, Pending, NextSeq, MaxWalSeq, WalSeqs, WatermarkInv, Recovered

\* What a step that writes neither file may also leave alone.
LEMMA SameSeeds ==
    ASSUME RegistrationInv, LoadWal' = LoadWal, bindings' = bindings,
           phase' = phase, \A c \in Caller : seed'[c] \in {seed[c], NoSeed}
    PROVE  RegistrationInv'
BY DEF RegistrationInv

\* No transition is pending while the lock is free.
LEMMA QuietWhenIdle ==
    ASSUME ReplayInv, phase = "serving",
           op # Idle => op.stage # "checkpoint"
    PROVE  Quiet
BY DEF ReplayInv, RowsInv

\* Steps that touch neither the log nor the map nor the mutation in flight.
LEMMA AsideReplay ==
    ASSUME ReplayInv,
           UNCHANGED <<lines, terminated, bindings, phase, mem, pos, op>>,
           \A c \in Caller : seed'[c] \in {seed[c], NoSeed}
    PROVE  ReplayInv'
<1>1. LoadWal' = LoadWal
  BY DEF LoadWal
<1>2. /\ Quiet' = Quiet /\ Pending' = Pending /\ NextSeq' = NextSeq
      /\ WatermarkInv' = WatermarkInv /\ Recovered' = Recovered
  BY <1>1, SameRows
<1>3. RegistrationInv'
  BY <1>1, SameSeeds DEF ReplayInv
<1>4. TailInv' /\ RowsInv' /\ MemInv'
  BY <1>1, <1>2 DEF ReplayInv, TailInv, RowsInv, MemInv
<1>5. FlightInv'
  BY <1>1, <1>2 DEF ReplayInv, FlightInv
<1> QED
  BY <1>2, <1>3, <1>4, <1>5 DEF ReplayInv

\* A mutation takes the lock: its row, if it moves, is due.
LEMMA BeginReplay ==
    ASSUME ReplayInv, NEW c \in Caller, NEW row \in Row,
           NEW cand \in MaybeBinding, Begin(c, row, cand),
           row.seq = NextSeq,
           row.exp # NoGen => bindings[row.node] # NoBinding,
           row.exp = NoGen => row.gen = NoGen,
           Moves(row) => Due(bindings, row) /\ cand # NoBinding,
           cand # NoBinding =>
               /\ bindings[row.node] # NoBinding
               /\ row.exp # NoGen
               /\ bindings[row.node].wm < row.seq
               /\ cand = IF Moves(row)
                         THEN ApplyOne(bindings[row.node], row)
                         ELSE [bindings[row.node] EXCEPT
                                  !.slice = cand.slice, !.wm = row.seq]
    PROVE  ReplayInv'
<1>1. /\ phase = "serving" /\ op = Idle
      /\ op' = [stage |-> "heal", caller |-> c, row |-> row, cand |-> cand]
      /\ UNCHANGED <<lines, terminated, bindings, phase, mem, pos, seed>>
  BY DEF Begin, disk, boot
<1>2. LoadWal' = LoadWal
  BY <1>1 DEF LoadWal
<1>3. /\ Quiet' = Quiet /\ NextSeq' = NextSeq
      /\ WatermarkInv' = WatermarkInv
  BY <1>1, <1>2, SameRows
<1>4. Quiet
  BY <1>1, QuietWhenIdle
<1>5. RegistrationInv'
  BY <1>1, <1>2, SameSeeds DEF ReplayInv
<1>6. TailInv' /\ RowsInv' /\ MemInv'
  BY <1>1, <1>3, <1>4 DEF ReplayInv, TailInv, RowsInv, MemInv
<1>7. FlightInv'
  <2>1. /\ op'.stage = "heal" /\ op'.row = row /\ op'.cand = cand
        /\ op' # Idle
    BY <1>1 DEF Idle
  <2> QED
    BY <1>1, <1>3, <2>1 DEF FlightInv
<1> QED
  BY <1>3, <1>5, <1>6, <1>7 DEF ReplayInv

\* A transition's row is due, and its candidate is what a replay makes of it.
LEMMA TransitionReplay ==
    ASSUME Inv, ReplayInv, NEW c \in Caller, NEW to \in Targets,
           NEW rotate \in BOOLEAN, NEW fenced \in BOOLEAN,
           NEW d \in {KeepSlice, Escalated},
           Transition(c, to, rotate, fenced, d)
    PROVE  ReplayInv'
<1> DEFINE n == view[c].node
           live == bindings[n]
           epoch == IF rotate THEN view[c].epoch + 1 ELSE live.epoch
           token == IF rotate THEN epoch ELSE live.token
           slice == Patch(live.slice, d)
           row == MkRow(n, live.gen, live.gen + 1, live.state, to, epoch,
                        token, d)
           cand == [state |-> to, gen |-> live.gen + 1, epoch |-> epoch,
                    token |-> token, slice |-> slice, wm |-> NextSeq]
<1>1. /\ Begin(c, row, cand) /\ Admissible(live.state, to, slice = Escalated)
      /\ live # NoBinding /\ n \in Node
  BY DEF Transition, CasHolds, Inv, TypeOK, View
<1>2. live \in Binding /\ bindings \in [Node -> MaybeBinding]
  BY <1>1 DEF Inv, TypeOK, MaybeBinding
<1>3. to \in KnownStates /\ NextSeq \in Nat /\ view[c].epoch \in Nat
  BY TargetAssumption, NextSeqFresh DEF Inv, TypeOK, LogInv, Transition, View
<1>4. slice \in Slice /\ d \in Slice \cup {KeepSlice}
  BY <1>2, SliceAssumption DEF Patch, Binding
<1>5. live.gen \in Nat /\ live.state \in KnownStates /\ epoch \in Nat
      /\ token \in Nat
  BY <1>2, <1>3 DEF Binding
<1>6. live.wm < NextSeq
  BY <1>1, WatermarkBounded DEF ReplayInv
<1> HIDE DEF n, live, epoch, token, slice
<1>7. /\ row \in Row /\ row.seq = NextSeq /\ row.node = n
      /\ row.exp = live.gen /\ row.gen = live.gen + 1
      /\ row.to = to /\ row.epoch = epoch /\ row.token = token
      /\ row.delta = d
  BY <1>1, <1>3, <1>4, <1>5 DEF MkRow, Row
<1>8. cand \in MaybeBinding /\ cand # NoBinding
  BY <1>3, <1>4, <1>5
     DEF Binding, MaybeBinding, NoBinding, NoState, KnownStates
<1>9. Moves(row) /\ row.exp # NoGen
  BY <1>5, <1>7 DEF Moves, NoGen
<1>10. Due(bindings, row)
  BY <1>1, <1>6, <1>7, <1>9 DEF Due, live, slice, n
<1>11. cand = ApplyOne(bindings[row.node], row)
  <2>1. ApplyOne(bindings[row.node], row) =
          [state |-> row.to, gen |-> row.gen, epoch |-> row.epoch,
           token |-> row.token, wm |-> row.seq,
           slice |-> Patch(bindings[row.node].slice, row.delta)]
    BY <1>2, <1>7, <1>10, ApplyDue
  <2> QED
    BY <1>7, <2>1 DEF live, slice, n
<1> HIDE DEF row, cand
<1>12. bindings[row.node] # NoBinding /\ bindings[row.node].wm < row.seq
  BY <1>1, <1>6, <1>7 DEF live
<1> QED
  BY <1>1, <1>7, <1>8, <1>9, <1>10, <1>11, <1>12, BeginReplay

\* The row of a mutation that leaves the lifecycle of m where it is.
UnmovedRow(m, e) ==
    MkRow(m, bindings[m].gen, bindings[m].gen, bindings[m].state,
          bindings[m].state, bindings[m].epoch, bindings[m].token, e)

\* It is a row, the next of the log, and moves nothing.
LEMMA UnmovedRowIsInert ==
    ASSUME Inv, ReplayInv, NEW m \in Node, NEW e \in Slice \cup {KeepSlice},
           bindings[m] # NoBinding
    PROVE  /\ bindings[m] \in Binding /\ bindings[m].wm < NextSeq
           /\ UnmovedRow(m, e) \in Row /\ UnmovedRow(m, e).seq = NextSeq
           /\ UnmovedRow(m, e).node = m /\ UnmovedRow(m, e).exp # NoGen
           /\ ~Moves(UnmovedRow(m, e))
<1>1. NextSeq \in Nat
  BY NextSeqFresh DEF Inv, TypeOK, LogInv
<1>2. bindings[m] \in Binding /\ bindings[m].wm < NextSeq
  BY WatermarkBounded DEF Inv, TypeOK, MaybeBinding, ReplayInv
<1> QED
  BY <1>1, <1>2 DEF UnmovedRow, Binding, MkRow, Row, NoGen, Moves

\* The other mutations write rows that a replay passes over.
LEMMA UnmovedReplay ==
    ASSUME Inv, ReplayInv, NEW c \in Caller,
           \/ StaleReturn(c)
           \/ \E n \in Node, d \in Slice : OwnSliceWrite(c, n, d)
           \/ \E n \in Node : Journal(c, n)
    PROVE  ReplayInv'
<1>1. NextSeq \in Nat
  BY NextSeqFresh DEF Inv, TypeOK, LogInv
<1>2. NoBinding \in MaybeBinding
  BY DEF MaybeBinding
<1>3. CASE StaleReturn(c)
  <2> DEFINE m == view[c].node
  <2>1. /\ bindings[m] # NoBinding /\ m \in Node
        /\ Begin(c, UnmovedRow(m, KeepSlice), NoBinding)
    BY <1>3 DEF StaleReturn, UnmovedRow, Inv, TypeOK, View
  <2> HIDE DEF m
  <2> QED
    BY <1>2, <2>1, UnmovedRowIsInert, BeginReplay
<1>4. ASSUME NEW n \in Node, NEW d \in Slice, OwnSliceWrite(c, n, d)
      PROVE  ReplayInv'
  <2> DEFINE live == bindings[n]
             row == UnmovedRow(n, d)
             cand == [live EXCEPT !.slice = d, !.wm = NextSeq]
  <2>1. live # NoBinding /\ Begin(c, row, cand)
    BY <1>4 DEF OwnSliceWrite, UnmovedRow
  <2>2. /\ row \in Row /\ row.seq = NextSeq /\ row.node = n
        /\ row.exp # NoGen /\ ~Moves(row)
        /\ live \in Binding /\ live.wm < NextSeq
    BY <2>1, UnmovedRowIsInert
  <2>3. /\ cand \in MaybeBinding
        /\ cand = [live EXCEPT !.slice = cand.slice, !.wm = NextSeq]
    BY <1>1, <2>2 DEF MaybeBinding, Binding
  <2> HIDE DEF row, cand
  <2> QED
    BY <2>1, <2>2, <2>3, BeginReplay
<1>5. ASSUME NEW n \in Node, Journal(c, n)
      PROVE  ReplayInv'
  <2> DEFINE row == MkRow(n, NoGen, NoGen, NoState, NoState, 0, 0, KeepSlice)
  <2>1. Begin(c, row, NoBinding) /\ NoBinding \in MaybeBinding
    BY <1>5 DEF Journal, MaybeBinding
  <2>2. /\ row \in Row /\ row.seq = NextSeq
        /\ row.exp = NoGen /\ row.gen = NoGen /\ ~Moves(row)
    BY <1>1 DEF MkRow, Row, Moves
  <2> HIDE DEF row
  <2> QED
    BY <2>1, <2>2, BeginReplay
<1> QED
  BY <1>3, <1>4, <1>5

\* The tail is healed, the rows are the same.
LEMMA HealReplay ==
    ASSUME Inv, ReplayInv, Heal
    PROVE  ReplayInv'
<1>1. /\ op # Idle /\ op.stage = "heal" /\ phase = "serving"
      /\ op' = [op EXCEPT !.stage = "append"]
      /\ UNCHANGED <<bindings, phase, mem, pos, seed>>
  BY DEF Heal, boot
<1>2. LoadWal' = LoadWal /\ TailInv'
  BY HealRows DEF ReplayInv
<1>3. /\ Quiet' = Quiet /\ NextSeq' = NextSeq
      /\ WatermarkInv' = WatermarkInv
  BY <1>1, <1>2, SameRows
<1>4. /\ op'.stage = "append" /\ op'.row = op.row /\ op'.cand = op.cand
      /\ op' # Idle
  BY <1>1 DEF Inv, TypeOK, Idle
<1>5. Quiet
  BY <1>1, QuietWhenIdle
<1>6. RegistrationInv'
  BY <1>1, <1>2, SameSeeds DEF ReplayInv
<1>7. RowsInv' /\ MemInv'
  BY <1>1, <1>3, <1>5 DEF RowsInv, MemInv
<1>8. FlightInv'
  BY <1>1, <1>3, <1>4 DEF ReplayInv, FlightInv
<1> QED
  BY <1>2, <1>3, <1>6, <1>7, <1>8 DEF ReplayInv

\* The row in flight is the last row now: it is due, or inert.
LEMMA AppendFrameReplay ==
    ASSUME Inv, ReplayInv, NoOverlap, AppendFrame
    PROVE  ReplayInv'
<1>1. /\ op # Idle /\ op.stage = "append" /\ phase = "serving"
      /\ op' = IF op.cand = NoBinding THEN Idle
               ELSE [op EXCEPT !.stage = "checkpoint"]
      /\ UNCHANGED <<bindings, phase, mem, pos, seed>>
  BY DEF AppendFrame, boot
<1>2. LoadWal' = Append(LoadWal, op.row) /\ TailInv'
  BY AppendRows
<1>3. /\ bindings \in [Node -> MaybeBinding] /\ op.row \in Row
      /\ LoadWal \in Seq(Row) /\ Len(LoadWal) \in Nat
  BY <1>1, WalFacts DEF Inv, TypeOK
<1>4. /\ Len(LoadWal') = Len(LoadWal) + 1 /\ LoadWal' # <<>>
      /\ \A i \in 1 .. Len(LoadWal) : LoadWal'[i] = LoadWal[i]
      /\ LoadWal'[Len(LoadWal')] = op.row
      /\ LoadWal'[Len(LoadWal) + 1] = op.row
  BY <1>2, <1>3, AppendProperties
<1>5. AllInert(bindings, LoadWal', Len(LoadWal') - 1)
  <2>1. Quiet
    BY <1>1, QuietWhenIdle
  <2>2. Len(LoadWal') - 1 = Len(LoadWal)
    BY <1>3, <1>4
  <2> QED
    BY <1>4, <2>1, <2>2 DEF Quiet, AllInert
<1>6. /\ op.row.exp # NoGen => bindings[op.row.node] # NoBinding
      /\ Moves(op.row) => Due(bindings, op.row) /\ op.cand # NoBinding
  BY <1>1 DEF ReplayInv, FlightInv
<1>7. op.cand # NoBinding =>
        /\ op' # Idle /\ op'.stage = "checkpoint"
        /\ op'.row = op.row /\ op'.cand = op.cand
  BY <1>1 DEF Inv, TypeOK, Idle
<1>8. RowsInv'
  <2>1. CASE Moves(op.row)
    <3>1. Pending'
      BY <1>1, <1>4, <1>5, <1>6, <2>1 DEF Pending
    <3> QED
      BY <1>4, <1>6, <1>7, <2>1, <3>1 DEF RowsInv
  <2>2. CASE ~Moves(op.row)
    <3>1. Inert(bindings, op.row)
      BY <1>6, <2>2 DEF Inert
    <3>2. \A i \in 1 .. Len(LoadWal') : Inert(bindings, LoadWal'[i])
      <4> SUFFICES ASSUME NEW i \in 1 .. Len(LoadWal')
                   PROVE  Inert(bindings, LoadWal'[i])
        OBVIOUS
      <4>1. i = Len(LoadWal') \/ i \in 1 .. Len(LoadWal') - 1
        BY <1>3, <1>4
      <4> QED
        BY <1>4, <1>5, <3>1, <4>1 DEF AllInert
    <3>3. Quiet'
      BY <1>1, <3>2 DEF Quiet, AllInert
    <3> QED
      BY <3>3 DEF RowsInv
  <2> QED
    BY <2>1, <2>2
<1>9. WatermarkInv'
  BY <1>1, <1>2, <1>3, WitnessedAppend DEF ReplayInv, WatermarkInv
<1>10. FlightInv'
  BY <1>1, <1>4, <1>7 DEF ReplayInv, FlightInv
<1>11. RegistrationInv'
  <2> SUFFICES ASSUME NEW c \in Caller, seed[c] # NoSeed
               PROVE  /\ Witnessed(seed[c].wm, LoadWal')
                      /\ \A i \in 1 .. Len(LoadWal') :
                            LoadWal'[i].node = seed[c].node =>
                                \/ LoadWal'[i].seq <= seed[c].wm
                                \/ ~Moves(LoadWal'[i])
    BY <1>1 DEF ReplayInv, RegistrationInv
  <2>1. Witnessed(seed[c].wm, LoadWal')
    BY <1>2, <1>3, WitnessedAppend DEF ReplayInv, RegistrationInv
  <2> SUFFICES ASSUME NEW i \in 1 .. Len(LoadWal'),
                      LoadWal'[i].node = seed[c].node
               PROVE  \/ LoadWal'[i].seq <= seed[c].wm
                      \/ ~Moves(LoadWal'[i])
    BY <2>1
  <2>2. CASE i \in 1 .. Len(LoadWal)
    BY <1>4, <2>2 DEF ReplayInv, RegistrationInv
  <2>3. CASE i = Len(LoadWal')
    <3>1. Moves(op.row) => op.row.node # seed[c].node
      BY <1>1 DEF NoOverlap
    <3> QED
      BY <1>4, <2>3, <3>1
  <2> QED
    BY <1>3, <1>4, <2>2, <2>3
<1>12. MemInv'
  BY <1>1 DEF MemInv
<1> QED
  BY <1>2, <1>8, <1>9, <1>10, <1>11, <1>12 DEF ReplayInv

\* The candidate of a checkpoint has its row's number.
LEMMA CandidateNumber ==
    ASSUME Inv, ReplayInv, op # Idle, op.cand # NoBinding
    PROVE  op.cand \in Binding /\ op.cand.wm = op.row.seq
<1>1. /\ op.cand \in Binding /\ op.row \in Row
      /\ bindings \in [Node -> MaybeBinding]
  BY DEF Inv, TypeOK, MaybeBinding
<1>2. CASE Moves(op.row)
  <2>1. Due(bindings, op.row)
    BY <1>2 DEF ReplayInv, FlightInv
  <2>2. op.cand = ApplyOne(bindings[op.row.node], op.row)
    BY <1>2 DEF ReplayInv, FlightInv
  <2>3. ApplyOne(bindings[op.row.node], op.row) =
          [state |-> op.row.to, gen |-> op.row.gen, epoch |-> op.row.epoch,
           token |-> op.row.token, wm |-> op.row.seq,
           slice |-> Patch(bindings[op.row.node].slice, op.row.delta)]
    BY <1>1, <2>1, ApplyDue
  <2> QED
    BY <1>1, <2>2, <2>3
<1>3. CASE ~Moves(op.row)
  <2>1. /\ bindings[op.row.node] \in Binding
        /\ op.cand = [bindings[op.row.node] EXCEPT !.slice = op.cand.slice,
                                                   !.wm = op.row.seq]
    BY <1>1, <1>3 DEF ReplayInv, FlightInv, MaybeBinding, Row
  <2> QED
    BY <1>1, <2>1 DEF Binding
<1> QED
  BY <1>2, <1>3

\* In either case all rows up to the last are inert.
LEMMA InertToLast ==
    ASSUME Inv, ReplayInv
    PROVE  AllInert(bindings, LoadWal, Len(LoadWal) - 1)
<1>1. CASE Quiet
  BY <1>1, WalFacts DEF Quiet, AllInert
<1>2. CASE Pending
  BY <1>2 DEF Pending
<1> QED
  BY <1>1, <1>2 DEF ReplayInv, RowsInv

\* The map catches up with the log.
LEMMA CheckpointReplay ==
    ASSUME Inv, ReplayInv, NoOverlap, Checkpoint
    PROVE  ReplayInv' /\ Quiet'
<1>1. /\ op # Idle /\ op.stage = "checkpoint" /\ phase = "serving"
      /\ bindings' = [bindings EXCEPT ![op.row.node] = op.cand]
      /\ op' = Idle
      /\ UNCHANGED <<lines, terminated, phase, mem, pos, seed>>
  BY DEF Checkpoint, ReplaceMap, boot
<1>2. LoadWal' = LoadWal
  BY <1>1 DEF LoadWal
<1>3. /\ op.cand # NoBinding /\ LoadWal # <<>>
      /\ op.row = LoadWal[Len(LoadWal)]
  BY <1>1 DEF ReplayInv, FlightInv
<1>4. op.cand \in Binding /\ op.cand.wm = op.row.seq
  BY <1>1, <1>3, CandidateNumber
<1>5. /\ bindings \in [Node -> MaybeBinding] /\ op.row.node \in Node
      /\ op.row \in Row
  BY <1>1 DEF Inv, TypeOK, Row
<1>6. /\ AllInert(bindings', LoadWal, Len(LoadWal))
      /\ \A m \in Node :
            bindings'[m] # NoBinding => Witnessed(bindings'[m].wm, LoadWal)
  <2>1. /\ LoadWal \in Seq(Row) /\ Rising(LoadWal)
        /\ AllInert(bindings, LoadWal, Len(LoadWal) - 1)
        /\ \A m \in Node :
              bindings[m] # NoBinding => Witnessed(bindings[m].wm, LoadWal)
    BY WalFacts, InertToLast DEF ReplayInv, WatermarkInv
  <2> QED
    BY <1>1, <1>3, <1>4, <1>5, <2>1, Settled
<1>7. Quiet' /\ WatermarkInv'
  BY <1>2, <1>6 DEF Quiet, WatermarkInv
<1>8. RegistrationInv'
  <2> SUFFICES ASSUME NEW c \in Caller, seed[c] # NoSeed
               PROVE  /\ Registrable(bindings'[seed[c].node])
                      /\ bindings'[seed[c].node] # NoBinding =>
                            seed[c].epoch > bindings'[seed[c].node].epoch
    BY <1>1, <1>2 DEF ReplayInv, RegistrationInv
  <2> DEFINE n == seed[c].node
  <2>1. /\ n \in Node /\ Registrable(bindings[n])
        /\ bindings[n] # NoBinding => seed[c].epoch > bindings[n].epoch
    BY DEF ReplayInv, RegistrationInv, Inv, TypeOK
  <2>2. CASE n # op.row.node
    BY <1>1, <1>5, <2>1, <2>2
  <2>3. CASE n = op.row.node
    <3>1. ~Moves(op.row)
      BY <1>1, <2>3 DEF NoOverlap
    <3>2. /\ bindings[n] # NoBinding
          /\ op.cand = [bindings[n] EXCEPT !.slice = op.cand.slice,
                                           !.wm = op.row.seq]
      BY <1>1, <1>3, <2>3, <3>1 DEF ReplayInv, FlightInv
    <3>3. /\ bindings'[n] = op.cand /\ op.cand.state = bindings[n].state
          /\ op.cand.epoch = bindings[n].epoch
      BY <1>1, <1>5, <2>1, <2>3, <3>2 DEF MaybeBinding, Binding
    <3> QED
      BY <1>3, <2>1, <3>2, <3>3 DEF Registrable
  <2> QED
    BY <2>2, <2>3
<1>9. TailInv' /\ RowsInv' /\ FlightInv' /\ MemInv'
  BY <1>1, <1>7 DEF ReplayInv, TailInv, RowsInv, FlightInv, MemInv
<1> QED
  BY <1>7, <1>8, <1>9 DEF ReplayInv

\* A seed starts above the epoch that it replaces, and its watermark covers
\* every transition of its node that the log holds.
LEMMA SeedFacts ==
    ASSUME Inv, NEW n \in Node
    PROVE  LET s == IdentitySeed(n) IN
           /\ s.node = n /\ Witnessed(s.wm, LoadWal)
           /\ bindings[n] # NoBinding => s.epoch > bindings[n].epoch
           /\ \A i \in 1 .. Len(LoadWal) :
                 LoadWal[i].node = n => LoadWal[i].seq <= s.wm
<1> DEFINE bound == IF bindings[n] = NoBinding THEN {} ELSE {bindings[n].epoch}
           known == RowEpochs(n) \cup bound
           s == IdentitySeed(n)
<1>1. /\ MaxWalSeq \in Nat /\ Witnessed(MaxWalSeq, LoadWal)
      /\ \A i \in 1 .. Len(LoadWal) : LoadWal[i].seq <= MaxWalSeq
      /\ \A i \in 1 .. Len(LoadWal) :
            LoadWal[i] \in Row /\ RowOK(LoadWal[i])
      /\ DOMAIN LoadWal = 1 .. Len(LoadWal)
  BY WalFacts, LenProperties
<1>2. s = IF known = {} THEN [node |-> n, epoch |-> 1, wm |-> 0]
          ELSE [node |-> n, epoch |-> Max(known) + 1, wm |-> MaxWalSeq]
  BY DEF IdentitySeed
<1>3. \A i \in 1 .. Len(LoadWal) : LoadWal[i].node = n => known # {}
  BY <1>1 DEF RowEpochs
<1>4. RowEpochs(n) \in SUBSET Nat /\ \A x \in RowEpochs(n) : x <= MaxEpoch
  BY <1>1 DEF RowEpochs, Row, RowOK
<1>5. bound \in SUBSET Nat /\ \A x \in bound : x <= MaxEpoch
  BY DEF Inv, TypeOK, MapInv, BindingOK, MaybeBinding, Binding
<1>6. known \in SUBSET Nat /\ (\A x \in known : x <= MaxEpoch)
      /\ MaxEpoch \in Nat
  BY <1>4, <1>5, BoundAssumption
<1>7. bindings[n] # NoBinding => bindings[n].epoch \in known
  OBVIOUS
<1> HIDE DEF known, s
<1>8. known # {} =>
        Max(known) \in Nat /\ \A x \in known : x <= Max(known)
  BY <1>6, MaxOfNats
<1>9. bindings[n] # NoBinding => s.epoch > bindings[n].epoch
  <2> SUFFICES ASSUME bindings[n] # NoBinding
               PROVE  s.epoch > bindings[n].epoch
    OBVIOUS
  <2> HIDE DEF bound
  <2>1. /\ known # {} /\ bindings[n].epoch \in Nat
        /\ Max(known) \in Nat /\ bindings[n].epoch <= Max(known)
    BY <1>6, <1>7, <1>8
  <2>2. s.epoch = Max(known) + 1
    BY <1>2, <2>1
  <2> QED
    BY <2>1, <2>2
<1>10. Witnessed(0, LoadWal)
  BY DEF Witnessed
<1> QED
  BY <1>1, <1>2, <1>3, <1>9, <1>10 DEF s

\* A registration is begun: its seed is good.
LEMMA BeginRegisterReplay ==
    ASSUME Inv, ReplayInv, NEW c \in Caller, NEW n \in Node,
           BeginRegister(c, n)
    PROVE  ReplayInv'
<1>1. /\ phase = "serving" /\ Registrable(bindings[n])
      /\ seed' = [seed EXCEPT ![c] = IdentitySeed(n)]
      /\ UNCHANGED <<lines, terminated, bindings, phase, mem, pos, op>>
  BY DEF BeginRegister, disk, boot
<1>2. LoadWal' = LoadWal
  BY <1>1 DEF LoadWal
<1>3. /\ Quiet' = Quiet /\ Pending' = Pending /\ NextSeq' = NextSeq
      /\ WatermarkInv' = WatermarkInv
  BY <1>1, <1>2, SameRows
<1>4. RegistrationInv'
  <2>1. \A d \in Caller \ {c} : seed'[d] = seed[d]
    BY <1>1 DEF Inv, TypeOK
  <2>2. seed'[c] = IdentitySeed(n)
    BY <1>1 DEF Inv, TypeOK
  <2> DEFINE s == IdentitySeed(n)
  <2>3. /\ s.node = n /\ Witnessed(s.wm, LoadWal)
        /\ bindings[n] # NoBinding => s.epoch > bindings[n].epoch
        /\ \A i \in 1 .. Len(LoadWal) :
              LoadWal[i].node = n => LoadWal[i].seq <= s.wm
    BY SeedFacts
  <2> HIDE DEF s
  <2> SUFFICES ASSUME NEW d \in Caller, seed'[d] # NoSeed
               PROVE  LET t == seed'[d]
                          b == bindings[t.node]
                      IN  /\ Registrable(b)
                          /\ b # NoBinding => t.epoch > b.epoch
                          /\ Witnessed(t.wm, LoadWal)
                          /\ \A i \in 1 .. Len(LoadWal) :
                                LoadWal[i].node = t.node =>
                                    \/ LoadWal[i].seq <= t.wm
                                    \/ ~Moves(LoadWal[i])
    BY <1>1, <1>2 DEF RegistrationInv
  <2>4. CASE d = c
    BY <1>1, <2>2, <2>3, <2>4 DEF s
  <2>5. CASE d # c
    BY <2>1, <2>5 DEF ReplayInv, RegistrationInv
  <2> QED
    BY <2>4, <2>5
<1>5. TailInv' /\ RowsInv' /\ MemInv'
  BY <1>1, <1>2, <1>3 DEF ReplayInv, TailInv, RowsInv, MemInv
<1>6. FlightInv'
  BY <1>1, <1>2, <1>3 DEF ReplayInv, FlightInv
<1> QED
  BY <1>3, <1>4, <1>5, <1>6 DEF ReplayInv

\* A registration: its number covers the rows of its node, the lock is free.
LEMMA RegisterReplay ==
    ASSUME Inv, ReplayInv, NoOverlap, NEW c \in Caller, Register(c)
    PROVE  ReplayInv' /\ Quiet'
<1> DEFINE s == seed[c]
           new == Registered(s)
<1>1. /\ phase = "serving" /\ op = Idle /\ s # NoSeed
      /\ bindings' = [bindings EXCEPT ![s.node] = new]
      /\ seed' = [seed EXCEPT ![c] = NoSeed]
      /\ UNCHANGED <<lines, terminated, phase, mem, pos, op>>
  BY DEF Register, ReplaceMap, boot
<1>2. LoadWal' = LoadWal
  BY <1>1 DEF LoadWal
<1>3. /\ s \in [node : Node, epoch : Nat, wm : Nat]
      /\ bindings \in [Node -> MaybeBinding]
      /\ seed \in [Caller -> {NoSeed} \cup
                                [node : Node, epoch : Nat, wm : Nat]]
  BY <1>1 DEF Inv, TypeOK
<1>4. new # NoBinding /\ new.wm = s.wm
  BY DEF Registered, NoBinding
<1>5. Quiet
  BY <1>1, QuietWhenIdle
<1>6. /\ Witnessed(s.wm, LoadWal)
      /\ \A i \in 1 .. Len(LoadWal) :
            LoadWal[i].node = s.node =>
                LoadWal[i].seq <= s.wm \/ ~Moves(LoadWal[i])
  BY <1>1 DEF ReplayInv, RegistrationInv
<1> HIDE DEF new
<1>7. /\ bindings'[s.node] = new
      /\ \A m \in Node \ {s.node} : bindings'[m] = bindings[m]
  BY <1>1, <1>3
<1>8. Quiet'
  <2> SUFFICES ASSUME NEW i \in 1 .. Len(LoadWal)
               PROVE  Inert(bindings', LoadWal[i])
    BY <1>2 DEF Quiet, AllInert
  <2>1. LoadWal[i].node \in Node /\ Inert(bindings, LoadWal[i])
    BY <1>5, WalFacts DEF Quiet, AllInert, Row
  <2>2. CASE LoadWal[i].node = s.node
    BY <1>4, <1>6, <1>7, <2>2 DEF Inert, Spent
  <2>3. CASE LoadWal[i].node # s.node
    BY <1>7, <2>1, <2>3 DEF Inert, Spent
  <2> QED
    BY <2>2, <2>3
<1>9. WatermarkInv'
  <2>1. \A m \in Node : bindings[m] # NoBinding =>
            Witnessed(bindings[m].wm, LoadWal)
    BY DEF ReplayInv, WatermarkInv
  <2>2. \A m \in Node : bindings'[m] # NoBinding =>
            Witnessed(bindings'[m].wm, LoadWal)
    BY <1>4, <1>6, <1>7, <2>1
  <2> QED
    BY <1>2, <2>2 DEF WatermarkInv
<1>10. RegistrationInv'
  <2>1. seed'[c] = NoSeed /\ \A d \in Caller \ {c} : seed'[d] = seed[d]
    BY <1>1, <1>3
  <2>2. \A d \in Caller : seed'[d] # NoSeed =>
            /\ seed'[d] = seed[d]
            /\ bindings'[seed'[d].node] = bindings[seed'[d].node]
    <3> SUFFICES ASSUME NEW d \in Caller, seed'[d] # NoSeed
                 PROVE  /\ seed'[d] = seed[d]
                        /\ bindings'[seed[d].node] = bindings[seed[d].node]
      OBVIOUS
    <3>1. d # c /\ seed'[d] = seed[d] /\ seed[d] # NoSeed
      BY <2>1
    <3>2. seed[d].node \in Node /\ seed[d].node # s.node
      BY <1>1, <1>3, <3>1 DEF NoOverlap
    <3> QED
      BY <1>7, <3>1, <3>2
  <2> QED
    BY <1>1, <1>2, <2>2 DEF ReplayInv, RegistrationInv
<1>11. TailInv' /\ RowsInv' /\ FlightInv' /\ MemInv'
  BY <1>1, <1>8 DEF ReplayInv, TailInv, RowsInv, FlightInv, MemInv
<1> QED
  BY <1>8, <1>9, <1>10, <1>11 DEF ReplayInv

\* A crash loses what was in flight and no row.
LEMMA CrashReplay ==
    ASSUME Inv, ReplayInv, PlainCrashes, Crash
    PROVE  ReplayInv'
<1>1. /\ phase' = "down" /\ op' = Idle
      /\ seed' = [c \in Caller |-> NoSeed]
  BY DEF Crash
<1>2. LoadWal' = LoadWal /\ TailInv' /\ bindings' = bindings
  BY CrashRows DEF ReplayInv
<1>3. /\ Quiet' = Quiet /\ Pending' = Pending
      /\ WatermarkInv' = WatermarkInv
  BY <1>2, SameRows
<1>4. RowsInv'
  BY <1>1, <1>3 DEF ReplayInv, RowsInv
<1>5. FlightInv' /\ MemInv' /\ RegistrationInv'
  BY <1>1 DEF FlightInv, MemInv, RegistrationInv
<1> QED
  BY <1>2, <1>3, <1>4, <1>5 DEF ReplayInv

\* What a restart recovers: the map, or the map with the last row applied.
LEMMA RecoveredIs ==
    ASSUME Inv, ReplayInv
    PROVE  /\ Quiet => Recovered = bindings
           /\ LoadWal # <<>> =>
                Recovered = ReplayRow(bindings, LoadWal[Len(LoadWal)])
<1>1. bindings \in [Node -> MaybeBinding] /\ LoadWal \in Seq(Row)
  BY WalFacts DEF Inv, TypeOK
<1>2. Quiet => Recovered = bindings
  BY <1>1, ReplayOfInert DEF Quiet, Recovered
<1>3. LoadWal # <<>> =>
        Recovered = ReplayRow(bindings, LoadWal[Len(LoadWal)])
  BY <1>1, InertToLast, ReplayOfLast DEF Recovered
<1> QED
  BY <1>2, <1>3

\* A boot starts from the map.
LEMMA BootLoadReplay ==
    ASSUME Inv, ReplayInv, BootLoad
    PROVE  ReplayInv'
<1>1. /\ phase = "down" /\ phase' = "replaying" /\ mem' = bindings /\ pos' = 1
      /\ UNCHANGED <<lines, terminated, bindings, op, seed>>
  BY DEF BootLoad, disk
<1>2. LoadWal' = LoadWal
  BY <1>1 DEF LoadWal
<1>3. /\ Quiet' = Quiet /\ Pending' = Pending
      /\ WatermarkInv' = WatermarkInv /\ Recovered' = Recovered
  BY <1>1, <1>2, SameRows
<1>4. op = Idle /\ \A c \in Caller : seed[c] = NoSeed
  BY <1>1 DEF ReplayInv, FlightInv, RegistrationInv
<1>5. MemInv'
  <2>1. /\ LoadWal \in Seq(Row) /\ Len(LoadWal) \in Nat
    BY WalFacts
  <2>2. CASE 1 <= Len(LoadWal)
    BY <1>1, <1>2, <2>1, <2>2 DEF MemInv
  <2>3. CASE ~(1 <= Len(LoadWal))
    <3>1. LoadWal = <<>>
      BY <2>1, <2>3, EmptySeq
    <3>2. Quiet
      BY <3>1 DEF ReplayInv, RowsInv, Pending
    <3>3. Recovered = bindings
      BY <3>2, RecoveredIs
    <3> QED
      BY <1>1, <1>2, <1>3, <2>1, <2>3, <3>3 DEF MemInv
  <2> QED
    BY <2>2, <2>3
<1>6. TailInv' /\ RowsInv' /\ FlightInv' /\ RegistrationInv'
  BY <1>1, <1>3, <1>4
     DEF ReplayInv, TailInv, RowsInv, FlightInv, RegistrationInv
<1> QED
  BY <1>3, <1>5, <1>6 DEF ReplayInv

\* It passes over every row before the last, and the last completes it.
LEMMA BootReplayReplay ==
    ASSUME Inv, ReplayInv, BootReplay
    PROVE  ReplayInv'
<1>1. /\ phase = "replaying" /\ pos \in DOMAIN LoadWal /\ pos' = pos + 1
      /\ mem' = ReplayRow(mem, LoadWal[pos])
      /\ UNCHANGED <<lines, terminated, bindings, phase, op, seed>>
  BY DEF BootReplay, disk
<1>2. LoadWal' = LoadWal
  BY <1>1 DEF LoadWal
<1>3. /\ Quiet' = Quiet /\ Pending' = Pending
      /\ WatermarkInv' = WatermarkInv /\ Recovered' = Recovered
  BY <1>1, <1>2, SameRows
<1>4. op = Idle /\ \A c \in Caller : seed[c] = NoSeed
  BY <1>1 DEF ReplayInv, FlightInv, RegistrationInv
<1>5. /\ pos \in 1 .. Len(LoadWal) /\ Len(LoadWal) \in Nat
      /\ LoadWal[pos] \in Row /\ LoadWal # <<>>
      /\ bindings \in [Node -> MaybeBinding]
  BY <1>1, WalFacts, LenProperties DEF Inv, TypeOK
<1>6. mem = bindings
  BY <1>1, <1>5 DEF ReplayInv, MemInv
<1>7. CASE pos = Len(LoadWal)
  <2>1. mem' = Recovered
    BY <1>1, <1>5, <1>6, <1>7, RecoveredIs
  <2> QED
    BY <1>1, <1>2, <1>3, <1>4, <1>5, <1>7, <2>1
       DEF ReplayInv, TailInv, RowsInv, FlightInv, RegistrationInv, MemInv
<1>8. CASE pos # Len(LoadWal)
  <2>1. pos \in 1 .. Len(LoadWal) - 1 /\ pos + 1 <= Len(LoadWal)
    BY <1>5, <1>8
  <2>2. Inert(bindings, LoadWal[pos])
    BY <2>1, InertToLast DEF AllInert
  <2>3. mem' = bindings
    BY <1>1, <1>5, <1>6, <2>2, InertRow
  <2> QED
    BY <1>1, <1>2, <1>3, <1>4, <1>5, <2>1, <2>3
       DEF ReplayInv, TailInv, RowsInv, FlightInv, RegistrationInv, MemInv
<1> QED
  BY <1>7, <1>8

\* The replay's map becomes the file: what was recovered is there, settled.
LEMMA BootCheckpointReplay ==
    ASSUME Inv, ReplayInv, BootCheckpoint
    PROVE  ReplayInv' /\ Quiet' /\ bindings' = Recovered
<1>1. /\ phase = "replaying" /\ phase' = "serving" /\ pos \notin DOMAIN LoadWal
      /\ bindings' = mem
      /\ UNCHANGED <<lines, terminated, op, seed>>
  BY DEF BootCheckpoint, ReplaceMap
<1>2. LoadWal' = LoadWal
  BY <1>1 DEF LoadWal
<1>3. op = Idle /\ \A c \in Caller : seed[c] = NoSeed
  BY <1>1 DEF ReplayInv, FlightInv, RegistrationInv
<1>4. bindings' = Recovered
  <2>1. pos \in Nat \ {0} /\ Len(LoadWal) \in Nat
        /\ DOMAIN LoadWal = 1 .. Len(LoadWal)
    BY WalFacts, LenProperties DEF Inv, TypeOK
  <2> QED
    BY <1>1, <2>1 DEF ReplayInv, MemInv
<1>5. Quiet' /\ WatermarkInv'
  <2>1. CASE Quiet
    <3>1. bindings' = bindings
      BY <1>4, <2>1, RecoveredIs
    <3> QED
      BY <1>2, <2>1, <3>1, SameRows DEF ReplayInv
  <2>2. CASE Pending
    <3> DEFINE row == LoadWal[Len(LoadWal)]
               b == bindings[row.node]
               new == [state |-> row.to, gen |-> row.gen,
                       epoch |-> row.epoch, token |-> row.token,
                       wm |-> row.seq, slice |-> Patch(b.slice, row.delta)]
    <3>1. /\ LoadWal \in Seq(Row) /\ LoadWal # <<>> /\ Rising(LoadWal)
          /\ AllInert(bindings, LoadWal, Len(LoadWal) - 1)
          /\ bindings \in [Node -> MaybeBinding]
          /\ \A m \in Node :
                bindings[m] # NoBinding => Witnessed(bindings[m].wm, LoadWal)
      BY <2>2, WalFacts DEF Pending, ReplayInv, WatermarkInv, Inv, TypeOK
    <3>2. Len(LoadWal) \in 1 .. Len(LoadWal)
      BY <3>1, LenProperties, EmptySeq
    <3>3. row \in Row /\ RowOK(row) /\ Due(bindings, row)
      BY <2>2, <3>2, WalFacts DEF Pending
    <3>4. /\ b \in Binding
          /\ ReplayRow(bindings, row) = [bindings EXCEPT ![row.node] = new]
      BY <3>1, <3>3, ApplyDue
    <3>5. new \in Binding
      <4>1. Patch(b.slice, row.delta) \in Slice
        BY <3>3, <3>4 DEF Binding, Row, Patch
      <4>2. row.to \in KnownStates /\ row.gen \in Nat
        BY <3>3 DEF RowOK, Due, Moves
      <4> QED
        BY <3>3, <4>1, <4>2 DEF Binding, Row
    <3>6. new.wm = row.seq /\ row.node \in Node
      BY <3>3 DEF Row
    <3>7. bindings' = [bindings EXCEPT ![row.node] = new]
      BY <1>4, <3>1, <3>4, RecoveredIs
    <3> HIDE DEF new
    <3>8. /\ AllInert(bindings', LoadWal, Len(LoadWal))
          /\ \A m \in Node :
                bindings'[m] # NoBinding => Witnessed(bindings'[m].wm, LoadWal)
      BY <3>1, <3>5, <3>6, <3>7, Settled
    <3> QED
      BY <1>2, <3>8 DEF Quiet, WatermarkInv
  <2> QED
    BY <2>1, <2>2 DEF ReplayInv, RowsInv
<1>6. TailInv' /\ RowsInv' /\ FlightInv' /\ RegistrationInv' /\ MemInv'
  BY <1>1, <1>3, <1>5
     DEF ReplayInv, TailInv, RowsInv, FlightInv, RegistrationInv, MemInv
<1> QED
  BY <1>4, <1>5, <1>6 DEF ReplayInv

\* Every step preserves the invariant.
LEMMA NextReplay ==
    ASSUME Inv, ReplayInv, PlainCrashes, NoOverlap, [Next]_vars
    PROVE  ReplayInv'
<1>1. ASSUME NEW c \in Caller, NEW n \in Node, Read(c, n)
      PROVE  ReplayInv'
  BY <1>1, AsideReplay DEF Read, disk, boot
<1>2. CASE Mutate
  BY <1>2, TransitionReplay, UnmovedReplay DEF Mutate
<1>3. CASE Disk
  BY <1>3, HealReplay, AppendFrameReplay, CheckpointReplay DEF Disk
<1>4. CASE Enrol
  BY <1>4, RegisterReplay, BeginRegisterReplay DEF Enrol
<1>5. CASE Crash
  BY <1>5, CrashReplay
<1>6. CASE Boot
  BY <1>6, BootLoadReplay, BootReplayReplay, BootCheckpointReplay DEF Boot
<1>7. CASE UNCHANGED vars
  BY <1>7, AsideReplay DEF vars, disk, boot
<1> QED
  BY <1>1, <1>2, <1>3, <1>4, <1>5, <1>6, <1>7 DEF Next

\* While registrations do not overlap, the invariant holds.
THEOREM ReplayInvariance ==
    ASSUME PlainCrashes
    PROVE  Spec /\ []NoOverlap => []ReplayInv
<1>1. Init => ReplayInv
  BY InitReplay
<1>2. Inv /\ ReplayInv /\ NoOverlap /\ [Next]_vars => ReplayInv'
  BY NextReplay
<1> QED
  BY <1>1, <1>2, Invariance, PTL DEF Spec

-----------------------------------------------------------------------------
(* What a restart recovers. *)

\* With no mutation in flight a restart changes nothing, for any number of
\* nodes, callers, crashes and incarnations, as long as nobody registers or
\* moves a node that another registers.
THEOREM RestartIsIdentityHolds ==
    ASSUME PlainCrashes
    PROVE  Spec /\ []NoOverlap => []RestartIsIdentity
<1>1. Inv /\ ReplayInv => RestartIsIdentity
  BY QuietWhenIdle, RecoveredIs DEF RestartIsIdentity
<1> QED
  BY <1>1, Invariance, ReplayInvariance, PTL

\* Write-ahead: a transition whose row is on disk is recovered as exactly the
\* candidate that its checkpoint would have written.
THEOREM IntentReplayableHolds ==
    ASSUME PlainCrashes
    PROVE  Spec /\ []NoOverlap => []IntentReplayable
<1>1. Inv /\ ReplayInv => IntentReplayable
  <2> SUFFICES ASSUME Inv, ReplayInv, op # Idle, op.stage = "checkpoint",
                      op.row.gen # op.row.exp
               PROVE  Recovered[op.row.node] = op.cand
    BY DEF IntentReplayable
  <2>1. /\ Moves(op.row) /\ Due(bindings, op.row)
        /\ op.cand = ApplyOne(bindings[op.row.node], op.row)
        /\ LoadWal # <<>> /\ op.row = LoadWal[Len(LoadWal)]
    BY DEF ReplayInv, FlightInv, Moves
  <2>2. bindings \in [Node -> MaybeBinding] /\ op.row \in Row
    BY DEF Inv, TypeOK
  <2>3. Recovered = ReplayRow(bindings, op.row)
    BY <2>1, RecoveredIs
  <2>4. op.row.node \in Node /\ bindings[op.row.node] # NoBinding
    BY <2>1, <2>2 DEF Row, Due
  <2> QED
    BY <2>1, <2>2, <2>3, <2>4 DEF ReplayRow
<1> QED
  BY <1>1, Invariance, ReplayInvariance, PTL

-----------------------------------------------------------------------------
(* How a binding changes. *)

\* The row that a transition put in flight, or left pending at a crash.
Landing(row) ==
    \/ op # Idle /\ row = op.row
    \/ Pending /\ row = LoadWal[Len(LoadWal)]

\* A step advances a bound node by one generation, by a row that was due, or
\* leaves its generation and epoch alone, or registers it anew.
LEMMA BindingStep ==
    ASSUME Inv, ReplayInv, PlainCrashes, NoOverlap, [Next]_vars,
           NEW n \in Node, bindings[n] # NoBinding, bindings'[n] # NoBinding,
           bindings'[n] # bindings[n]
    PROVE  LET b == bindings[n]
               new == bindings'[n]
           IN  \/ /\ new.gen = b.gen + 1
                  /\ \E row \in Row :
                        /\ Landing(row) /\ Due(bindings, row)
                        /\ row.node = n /\ new.epoch = row.epoch
               \/ new.gen = b.gen /\ new.epoch = b.epoch
               \/ Registrable(b) /\ new.gen = 0 /\ new.epoch > b.epoch
<1> DEFINE b == bindings[n]
           new == bindings'[n]
           Advances == /\ new.gen = b.gen + 1
                       /\ \E row \in Row :
                             /\ Landing(row) /\ Due(bindings, row)
                             /\ row.node = n /\ new.epoch = row.epoch
           Observes == new.gen = b.gen /\ new.epoch = b.epoch
           Enrols == Registrable(b) /\ new.gen = 0 /\ new.epoch > b.epoch
<1> SUFFICES Advances \/ Observes \/ Enrols
  OBVIOUS
<1>0. bindings \in [Node -> MaybeBinding] /\ b \in Binding
  BY DEF Inv, TypeOK, MaybeBinding
<1>1. ASSUME NEW row \in Row, Landing(row), Due(bindings, row), row.node = n,
             new = ApplyOne(b, row)
      PROVE  Advances
  <2>1. new = [state |-> row.to, gen |-> row.gen, epoch |-> row.epoch,
               token |-> row.token, wm |-> row.seq,
               slice |-> Patch(b.slice, row.delta)]
    BY <1>0, <1>1, ApplyDue
  <2> QED
    BY <1>1, <2>1 DEF Due
<1>2. CASE Checkpoint
  <2>1. /\ op # Idle /\ op.stage = "checkpoint" /\ op.row \in Row
        /\ bindings' = [bindings EXCEPT ![op.row.node] = op.cand]
        /\ op.cand # NoBinding
    BY <1>2 DEF Checkpoint, ReplaceMap, ReplayInv, FlightInv, Inv, TypeOK
  <2>2. op.row.node = n /\ new = op.cand
    BY <1>0, <2>1
  <2>3. CASE Moves(op.row)
    <3>1. Due(bindings, op.row) /\ new = ApplyOne(b, op.row)
      BY <2>1, <2>2, <2>3 DEF ReplayInv, FlightInv
    <3> QED
      BY <1>1, <2>1, <2>2, <3>1 DEF Landing
  <2>4. CASE ~Moves(op.row)
    <3>1. new = [b EXCEPT !.slice = op.cand.slice, !.wm = op.row.seq]
      BY <2>1, <2>2, <2>4 DEF ReplayInv, FlightInv
    <3> QED
      BY <1>0, <3>1 DEF Binding
  <2> QED
    BY <2>3, <2>4
<1>3. ASSUME NEW c \in Caller, Register(c)
      PROVE  Enrols
  <2>1. /\ bindings' = [bindings EXCEPT ![seed[c].node] = Registered(seed[c])]
        /\ seed[c] # NoSeed
    BY <1>3 DEF Register, ReplaceMap
  <2>2. seed[c].node = n /\ new = Registered(seed[c])
    BY <1>0, <2>1
  <2>3. Registrable(b) /\ seed[c].epoch > b.epoch
    BY <2>1, <2>2 DEF ReplayInv, RegistrationInv
  <2> QED
    BY <2>2, <2>3 DEF Registered
<1>4. CASE BootCheckpoint
  <2>1. bindings' = Recovered
    BY <1>4, BootCheckpointReplay
  <2>2. Pending
    BY <2>1, RecoveredIs DEF ReplayInv, RowsInv
  <2> DEFINE row == LoadWal[Len(LoadWal)]
  <2>3. Len(LoadWal) \in 1 .. Len(LoadWal)
    BY <2>2, WalFacts, EmptySeq DEF Pending
  <2>4. row \in Row /\ Due(bindings, row) /\ Landing(row)
    BY <2>2, <2>3, WalFacts DEF Pending, Landing
  <2>5. bindings' = ReplayRow(bindings, row)
    BY <2>1, <2>2, RecoveredIs DEF Pending
  <2> HIDE DEF row
  <2>6. row.node = n /\ new = ApplyOne(b, row)
    <3>1. bindings' = [bindings EXCEPT ![row.node] =
                            ApplyOne(bindings[row.node], row)]
      BY <2>4, <2>5 DEF ReplayRow, Due
    <3> QED
      BY <1>0, <3>1
  <2> QED
    BY <1>1, <2>4, <2>6
<1>5. CASE Crash
  BY <1>5, CrashRows DEF ReplayInv
<1>6. CASE \/ \E c \in Caller, m \in Node : Read(c, m) \/ BeginRegister(c, m)
           \/ Mutate \/ Heal \/ AppendFrame \/ BootLoad \/ BootReplay
           \/ UNCHANGED vars
  <2>1. ASSUME NEW c \in Caller
        PROVE  /\ \A to \in Targets, rotate, fenced \in BOOLEAN,
                     d \in {KeepSlice, Escalated} :
                    Transition(c, to, rotate, fenced, d)
                        => bindings' = bindings
               /\ StaleReturn(c) => bindings' = bindings
               /\ \A m \in Node, d \in Slice :
                    OwnSliceWrite(c, m, d) => bindings' = bindings
               /\ \A m \in Node : Journal(c, m) => bindings' = bindings
    BY DEF Transition, StaleReturn, OwnSliceWrite, Journal, Begin, disk
  <2>2. Mutate => bindings' = bindings
    BY <2>1 DEF Mutate
  <2>3. \A c \in Caller, m \in Node :
            Read(c, m) \/ BeginRegister(c, m) => bindings' = bindings
    BY DEF Read, BeginRegister, disk
  <2>4. Heal \/ AppendFrame \/ BootLoad \/ BootReplay \/ UNCHANGED vars
            => bindings' = bindings
    BY DEF Heal, AppendFrame, BootLoad, BootReplay, vars, disk
  <2> QED
    BY <1>6, <2>2, <2>3, <2>4
<1> HIDE DEF Advances, Observes, Enrols
<1> QED
  BY <1>2, <1>3, <1>4, <1>5, <1>6 DEF Next, Disk, Enrol, Boot

\* Only a planned or finished incarnation is registered over.
THEOREM NoClobberHolds ==
    ASSUME PlainCrashes
    PROVE  Spec /\ []NoOverlap => NoClobber
<1> DEFINE A == \A n \in Node :
                    /\ bindings[n] # NoBinding /\ bindings'[n] # NoBinding
                    /\ bindings'[n].gen < bindings[n].gen
                    => bindings[n].state \in {"planned"} \cup TerminalStates
<1>1. Inv /\ ReplayInv /\ NoOverlap /\ [Next]_vars => [A]_bindings
  <2> SUFFICES ASSUME Inv, ReplayInv, NoOverlap, [Next]_vars,
                      NEW n \in Node, bindings[n] # NoBinding,
                      bindings'[n] # NoBinding,
                      bindings'[n].gen < bindings[n].gen
               PROVE  bindings[n].state \in {"planned"} \cup TerminalStates
    OBVIOUS
  <2>1. bindings[n].gen \in Nat
    BY DEF Inv, TypeOK, MaybeBinding, Binding
  <2>2. bindings'[n] # bindings[n]
    BY <2>1
  <2>3. Registrable(bindings[n])
    BY <2>1, <2>2, BindingStep
  <2> QED
    BY <2>3 DEF Registrable, IsTerminal
<1> QED
  BY <1>1, Invariance, ReplayInvariance, PTL DEF NoClobber, Spec

-----------------------------------------------------------------------------
(* Epochs. *)

\* What keeps the rows and the map, and puts no row in flight.
LEMMA EpochAside ==
    ASSUME EpochInv, LoadWal' = LoadWal, bindings' = bindings,
           op' # Idle => op # Idle /\ op'.row = op.row
    PROVE  EpochInv'
<1>1. Pending' = Pending
  BY SameRows
<1> QED
  BY <1>1 DEF EpochInv

\* A quiet log has no row pending.
LEMMA QuietNotPending ==
    ASSUME NEW map \in [Node -> MaybeBinding], NEW wal \in Seq(Row),
           wal # <<>>, AllInert(map, wal, Len(wal))
    PROVE  ~Due(map, wal[Len(wal)])
<1>1. Len(wal) \in 1 .. Len(wal) /\ wal[Len(wal)] \in Row
  BY LenProperties, EmptySeq, ElementOfSeq
<1> QED
  BY <1>1, DueIsNotInert DEF AllInert

\* Once the map has caught up nothing is in flight.
LEMMA EpochSettled ==
    ASSUME Inv', Quiet', op' = Idle, LoadWal' = LoadWal, LoadWal \in Seq(Row)
    PROVE  EpochInv'
<1>1. bindings' \in [Node -> MaybeBinding]
  BY DEF Inv, TypeOK
<1>2. ~Pending'
  BY <1>1, QuietNotPending DEF Pending, Quiet
<1> QED
  BY <1>2 DEF EpochInv

\* A mutation's row rotates by one or not at all, as it takes the lock.
LEMMA MutateEpoch ==
    ASSUME Inv, ReplayInv, EpochInv, FreshViews, Mutate
    PROVE  EpochInv'
<1>1. ASSUME NEW c \in Caller, NEW row, NEW cand, Begin(c, row, cand),
             Moves(row) =>
                row.epoch \in {bindings[row.node].epoch,
                               bindings[row.node].epoch + 1}
      PROVE  EpochInv'
  <2>1. /\ phase = "serving" /\ op = Idle
        /\ op' = [stage |-> "heal", caller |-> c, row |-> row, cand |-> cand]
        /\ UNCHANGED <<lines, terminated, bindings>>
    BY <1>1 DEF Begin, disk
  <2>2. LoadWal' = LoadWal
    BY <2>1 DEF LoadWal
  <2>3. Quiet /\ LoadWal \in Seq(Row) /\ bindings \in [Node -> MaybeBinding]
    BY <2>1, QuietWhenIdle, WalFacts DEF Inv, TypeOK
  <2>4. ~Pending
    BY <2>3, QuietNotPending DEF Pending, Quiet
  <2>5. ~Pending'
    BY <2>1, <2>2, <2>4, SameRows
  <2> QED
    BY <1>1, <2>1, <2>5 DEF EpochInv
<1>2. ASSUME NEW c \in Caller, NEW to \in Targets,
             NEW rotate \in BOOLEAN, NEW fenced \in BOOLEAN,
             NEW d \in {KeepSlice, Escalated},
             Transition(c, to, rotate, fenced, d)
      PROVE  EpochInv'
  <2> DEFINE n == view[c].node
             live == bindings[n]
             epoch == IF rotate THEN view[c].epoch + 1 ELSE live.epoch
             token == IF rotate THEN epoch ELSE live.token
             row == MkRow(n, live.gen, live.gen + 1, live.state, to, epoch,
                          token, d)
             cand == [state |-> to, gen |-> live.gen + 1, epoch |-> epoch,
                      token |-> token, slice |-> Patch(live.slice, d),
                      wm |-> NextSeq]
  <2>1. Begin(c, row, cand) /\ view[c] # NoView /\ CasHolds(c)
    BY <1>2 DEF Transition
  <2>2. view[c].epoch = live.epoch
    BY <2>1 DEF FreshViews
  <2>3. epoch \in {live.epoch, live.epoch + 1}
    BY <2>2
  <2>4. row.node = n /\ row.epoch = epoch
    BY DEF MkRow
  <2> HIDE DEF row, cand, epoch
  <2> QED
    BY <1>1, <2>1, <2>3, <2>4
<1>3. ASSUME NEW c \in Caller, StaleReturn(c)
      PROVE  EpochInv'
  <2> DEFINE m == view[c].node
             live == bindings[m]
             row == MkRow(m, live.gen, live.gen, live.state, live.state,
                          live.epoch, live.token, KeepSlice)
  <2>1. Begin(c, row, NoBinding)
    BY <1>3 DEF StaleReturn
  <2>2. ~Moves(row)
    BY DEF Moves, MkRow
  <2> HIDE DEF row
  <2> QED
    BY <1>1, <2>1, <2>2
<1>4. ASSUME NEW c \in Caller, NEW n \in Node, NEW d \in Slice,
             OwnSliceWrite(c, n, d)
      PROVE  EpochInv'
  <2> DEFINE live == bindings[n]
             row == MkRow(n, live.gen, live.gen, live.state, live.state,
                          live.epoch, live.token, d)
             cand == [live EXCEPT !.slice = d, !.wm = NextSeq]
  <2>1. Begin(c, row, cand)
    BY <1>4 DEF OwnSliceWrite
  <2>2. ~Moves(row)
    BY DEF Moves, MkRow
  <2> HIDE DEF row, cand
  <2> QED
    BY <1>1, <2>1, <2>2
<1>5. ASSUME NEW c \in Caller, NEW n \in Node, Journal(c, n)
      PROVE  EpochInv'
  <2> DEFINE row == MkRow(n, NoGen, NoGen, NoState, NoState, 0, 0, KeepSlice)
  <2>1. Begin(c, row, NoBinding)
    BY <1>5 DEF Journal
  <2>2. ~Moves(row)
    BY DEF Moves, MkRow
  <2> HIDE DEF row
  <2> QED
    BY <1>1, <2>1, <2>2
<1> QED
  BY <1>2, <1>3, <1>4, <1>5 DEF Mutate

\* Every step preserves the bound on what rows in flight or pending rotate.
LEMMA NextEpoch ==
    ASSUME Inv, Inv', ReplayInv, EpochInv, PlainCrashes, Orderly, [Next]_vars
    PROVE  EpochInv'
<1>0. LoadWal \in Seq(Row) /\ Len(LoadWal) \in Nat
  BY WalFacts
<1>1. CASE Mutate
  BY <1>1, MutateEpoch DEF Orderly
<1>2. CASE Heal
  <2>1. op # Idle /\ op' = [op EXCEPT !.stage = "append"]
        /\ bindings' = bindings /\ LoadWal' = LoadWal
    BY <1>2, HealRows DEF Heal, ReplayInv
  <2>2. op'.row = op.row
    BY <2>1 DEF Inv, TypeOK, Idle
  <2> QED
    BY <2>1, <2>2, EpochAside
<1>3. CASE AppendFrame
  <2>1. /\ op # Idle /\ bindings' = bindings /\ op.row \in Row
        /\ LoadWal' = Append(LoadWal, op.row)
        /\ op' \in {Idle, [op EXCEPT !.stage = "checkpoint"]}
    BY <1>3, AppendRows DEF AppendFrame, Inv, TypeOK
  <2>2. op' # Idle => op'.row = op.row
    BY <2>1 DEF Inv, TypeOK, Idle
  <2>3. LoadWal'[Len(LoadWal')] = op.row
    BY <1>0, <2>1, AppendProperties
  <2>4. Pending' => Moves(op.row)
    BY <2>3 DEF Pending, Due
  <2> QED
    BY <2>1, <2>2, <2>3, <2>4 DEF EpochInv
<1>4. CASE Checkpoint
  <2>1. op' = Idle /\ LoadWal' = LoadWal
    BY <1>4 DEF Checkpoint, LoadWal
  <2> QED
    BY <1>0, <1>4, <2>1, CheckpointReplay, EpochSettled DEF Orderly
<1>5. ASSUME NEW c \in Caller, Register(c)
      PROVE  EpochInv'
  <2>1. op' = Idle /\ LoadWal' = LoadWal
    BY <1>5 DEF Register, LoadWal
  <2> QED
    BY <1>0, <1>5, <2>1, RegisterReplay, EpochSettled DEF Orderly
<1>6. CASE BootCheckpoint
  <2>1. op' = Idle /\ LoadWal' = LoadWal
    BY <1>6 DEF BootCheckpoint, LoadWal, ReplayInv, FlightInv
  <2> QED
    BY <1>0, <1>6, <2>1, BootCheckpointReplay, EpochSettled
<1>7. CASE Crash
  <2>1. op' = Idle /\ LoadWal' = LoadWal /\ bindings' = bindings
    BY <1>7, CrashRows DEF Crash, ReplayInv
  <2> QED
    BY <2>1, EpochAside
<1>8. CASE \/ \E c \in Caller, m \in Node : Read(c, m) \/ BeginRegister(c, m)
           \/ BootLoad \/ BootReplay \/ UNCHANGED vars
  <2>1. UNCHANGED <<lines, terminated, bindings, op>>
    BY <1>8 DEF Read, BeginRegister, BootLoad, BootReplay, vars, disk
  <2>2. LoadWal' = LoadWal
    BY <2>1 DEF LoadWal
  <2> QED
    BY <2>1, <2>2, EpochAside
<1> QED
  BY <1>1, <1>2, <1>3, <1>4, <1>5, <1>6, <1>7, <1>8
     DEF Next, Disk, Enrol, Boot

\* With orderly callers the three invariants hold together.
THEOREM EpochInvariance ==
    ASSUME PlainCrashes
    PROVE  Spec /\ []Orderly => [](Inv /\ ReplayInv /\ EpochInv)
<1>1. Init => EpochInv
  <2> SUFFICES ASSUME Init PROVE EpochInv
    OBVIOUS
  <2>1. lines = <<>> /\ op = Idle
    BY DEF Init
  <2>2. LoadWal = <<>>
    BY <2>1 DEF LoadWal
  <2> QED
    BY <2>1, <2>2 DEF EpochInv, Pending
<1>2. /\ Inv /\ Inv' /\ ReplayInv /\ EpochInv /\ Orderly /\ [Next]_vars
      => EpochInv'
  BY NextEpoch
<1>3. Orderly => NoOverlap
  BY DEF Orderly
<1> QED
  BY <1>1, <1>2, <1>3, Invariance, ReplayInvariance, PTL DEF Spec

\* Fencing never regresses, along every incarnation of an address.
THEOREM EpochNeverRegressesHolds ==
    ASSUME PlainCrashes
    PROVE  Spec /\ []Orderly => EpochNeverRegresses
<1> DEFINE A == \A n \in Node :
                    bindings[n] # NoBinding /\ bindings'[n] # NoBinding =>
                        /\ bindings'[n].epoch >= bindings[n].epoch
                        /\ bindings'[n].gen < bindings[n].gen =>
                               bindings'[n].epoch > bindings[n].epoch
<1>1. /\ Inv /\ Inv' /\ ReplayInv /\ EpochInv /\ Orderly /\ [Next]_vars
      => [A]_bindings
  <2> SUFFICES ASSUME Inv, Inv', ReplayInv, EpochInv, Orderly, [Next]_vars,
                      NEW n \in Node, bindings[n] # NoBinding,
                      bindings'[n] # NoBinding
               PROVE  /\ bindings'[n].epoch >= bindings[n].epoch
                      /\ bindings'[n].gen < bindings[n].gen =>
                             bindings'[n].epoch > bindings[n].epoch
    OBVIOUS
  <2> DEFINE b == bindings[n]
             new == bindings'[n]
  <2>1. b.gen \in Nat /\ b.epoch \in Nat /\ new.epoch \in Nat
    BY DEF Inv, TypeOK, MaybeBinding, Binding
  <2>2. CASE new = b
    BY <2>1, <2>2
  <2>3. CASE new # b
    <3>1. \/ /\ new.gen = b.gen + 1
             /\ \E row \in Row :
                   /\ Landing(row) /\ Due(bindings, row)
                   /\ row.node = n /\ new.epoch = row.epoch
          \/ new.gen = b.gen /\ new.epoch = b.epoch
          \/ Registrable(b) /\ new.gen = 0 /\ new.epoch > b.epoch
      BY <2>3, BindingStep DEF Orderly
    <3>2. ASSUME NEW row \in Row, Landing(row), Due(bindings, row),
                 row.node = n
          PROVE  row.epoch \in {b.epoch, b.epoch + 1}
      BY <3>2 DEF Landing, EpochInv, Due
    <3> HIDE DEF b, new
    <3>3. \/ new.gen = b.gen + 1 /\ new.epoch \in {b.epoch, b.epoch + 1}
          \/ new.gen = b.gen /\ new.epoch = b.epoch
          \/ new.gen = 0 /\ new.epoch > b.epoch
      BY <3>1, <3>2
    <3>4. /\ new.epoch >= b.epoch
          /\ new.gen < b.gen => new.epoch > b.epoch
      BY <2>1, <3>3
    <3> QED
      BY <3>4 DEF b, new
  <2> QED
    BY <2>2, <2>3
<1> QED
  BY <1>1, EpochInvariance, PTL DEF EpochNeverRegresses, Spec

-----------------------------------------------------------------------------
(* The two files implement one register per node. *)

\* The registers go by the same legality table.
LEMMA SameTable ==
    ASSUME NEW from, NEW to, NEW escalated
    PROVE  Atomic!Admissible(from, to, escalated)
                = Admissible(from, to, escalated)
<1>1. /\ Atomic!KnownStates = KnownStates
      /\ Atomic!TerminalStates = TerminalStates
      /\ Atomic!NonTerminalStates = NonTerminalStates
  BY DEF Atomic!KnownStates, KnownStates, Atomic!TerminalStates,
         TerminalStates, Atomic!NonTerminalStates, NonTerminalStates
<1>2. Atomic!ExplicitTransitions = ExplicitTransitions
  BY <1>1 DEF Atomic!ExplicitTransitions, ExplicitTransitions
<1>3. Atomic!AllowedTransitions = AllowedTransitions
  BY <1>1, <1>2 DEF Atomic!AllowedTransitions, AllowedTransitions
<1> QED
  BY <1>3 DEF Atomic!Admissible, Admissible, Atomic!IsLegal, IsLegal

\* Registers change as one node's does.
LEMMA RegisterStep ==
    ASSUME NEW n \in Node,
           Atomic!Step(RegMap[n], RegMap'[n]),
           \A m \in Node \ {n} : RegMap'[m] = RegMap[m]
    PROVE  Atomic!Next
BY DEF Atomic!Next

\* What leaves what a restart recovers alone leaves the registers alone.
LEMMA SameRegisters ==
    ASSUME Recovered' = Recovered
    PROVE  UNCHANGED RegMap
BY DEF RegMap

\* A register is that of the recovered map.
LEMMA RegisterOf ==
    /\ RegMap = [n \in Node |-> RegOf(Recovered[n])]
    /\ RegMap' = [n \in Node |-> RegOf(Recovered'[n])]
BY DEF RegMap

\* A transition's row reaches the disk: its register advances.
LEMMA AppendFrameImplements ==
    ASSUME Inv, Inv', ReplayInv, ReplayInv', EpochInv, AppendFrame
    PROVE  Atomic!Next \/ UNCHANGED RegMap
<1>1. /\ op # Idle /\ op.stage = "append" /\ phase = "serving"
      /\ bindings' = bindings /\ op.row \in Row
      /\ LoadWal' = Append(LoadWal, op.row)
  BY AppendRows DEF AppendFrame, Inv, TypeOK
<1>2. Quiet /\ Recovered = bindings
  BY <1>1, QuietWhenIdle, RecoveredIs
<1>3. /\ LoadWal \in Seq(Row) /\ LoadWal' \in Seq(Row)
      /\ bindings \in [Node -> MaybeBinding]
      /\ Len(LoadWal') = Len(LoadWal) + 1 /\ Len(LoadWal) \in Nat
      /\ LoadWal'[Len(LoadWal')] = op.row /\ LoadWal' # <<>>
      /\ \A i \in 1 .. Len(LoadWal) : LoadWal'[i] = LoadWal[i]
  BY <1>1, WalFacts, AppendProperties DEF Inv, TypeOK
<1>4. AllInert(bindings, LoadWal', Len(LoadWal') - 1)
  BY <1>2, <1>3 DEF Quiet, AllInert
<1>5. Recovered' = ReplayRow(bindings, op.row)
  BY <1>1, <1>3, <1>4, ReplayOfLast DEF Recovered
<1>6. CASE Moves(op.row)
  <2> DEFINE row == op.row
             n == row.node
             b == bindings[n]
             new == [state |-> row.to, gen |-> row.gen,
                     epoch |-> row.epoch, token |-> row.token,
                     wm |-> row.seq, slice |-> Patch(b.slice, row.delta)]
  <2>1. Due(bindings, row)
    BY <1>1, <1>6 DEF ReplayInv, FlightInv
  <2>2. b \in Binding /\ Recovered' = [bindings EXCEPT ![n] = new]
    BY <1>1, <1>3, <1>5, <2>1, ApplyDue
  <2>3. row.epoch \in {b.epoch, b.epoch + 1}
    BY <1>1, <1>6 DEF EpochInv
  <2>4. Patch(b.slice, row.delta) \in Slice
    BY <1>1, <2>2 DEF Patch, Binding, Row
  <2>5. /\ b # NoBinding /\ row.gen = b.gen + 1
        /\ Admissible(b.state, row.to,
                      Patch(b.slice, row.delta) = Escalated)
    BY <2>1 DEF Due
  <2>6. n \in Node /\ new # NoBinding
    BY <1>1 DEF Row, NoBinding
  <2>7. Recovered'[n] = new /\ \A m \in Node \ {n} : Recovered'[m] = bindings[m]
    BY <1>3, <2>2, <2>6
  <2>8. RegOf(new) = [state |-> row.to, gen |-> row.gen, epoch |-> row.epoch,
                      slice |-> Patch(b.slice, row.delta)]
    BY <2>6 DEF RegOf
  <2>9. RegOf(b) = [state |-> b.state, gen |-> b.gen, epoch |-> b.epoch,
                    slice |-> b.slice]
    BY <2>5 DEF RegOf
  <2>10. RegOf(b) # NoBinding /\ RegOf(new) # NoBinding
    BY <2>8, <2>9 DEF NoBinding
  <2> HIDE DEF new, b, n, row
  <2>11. Atomic!Advance(RegOf(b), RegOf(new))
    <3>1. /\ RegOf(new).gen = RegOf(b).gen + 1
          /\ RegOf(new).epoch \in {RegOf(b).epoch, RegOf(b).epoch + 1}
          /\ RegOf(new).slice \in Slice
      BY <2>3, <2>4, <2>5, <2>8, <2>9
    <3>2. Admissible(RegOf(b).state, RegOf(new).state,
                     RegOf(new).slice = Escalated)
      BY <2>5, <2>8, <2>9
    <3> QED
      BY <2>10, <3>1, <3>2, SameTable DEF Atomic!Advance
  <2>12. RegMap[n] = RegOf(b) /\ RegMap'[n] = RegOf(new)
    BY <1>2, <2>6, <2>7, RegisterOf DEF b
  <2>13. \A m \in Node \ {n} : RegMap'[m] = RegMap[m]
    BY <1>2, <2>7, RegisterOf
  <2> QED
    BY <2>6, <2>11, <2>12, <2>13, RegisterStep DEF Atomic!Step
<1>7. CASE ~Moves(op.row)
  <2>1. Inert(bindings, op.row)
    BY <1>1, <1>7 DEF ReplayInv, FlightInv, Inert
  <2>2. Recovered' = bindings
    BY <1>1, <1>3, <1>5, <2>1, InertRow
  <2> QED
    BY <1>2, <2>2, SameRegisters
<1> QED
  BY <1>6, <1>7

\* A quiet log recovers the map, and so it does after the step.
LEMMA RecoveredWhenQuiet ==
    ASSUME Inv', Quiet', LoadWal' = LoadWal, LoadWal \in Seq(Row)
    PROVE  Recovered' = bindings'
<1>1. bindings' \in [Node -> MaybeBinding]
  BY DEF Inv, TypeOK
<1> QED
  BY <1>1, ReplayOfInert DEF Quiet, Recovered

\* A checkpoint shows nothing new of a transition; an own-slice write shows.
LEMMA CheckpointImplements ==
    ASSUME Inv, Inv', ReplayInv, NoOverlap, Checkpoint
    PROVE  Atomic!Next \/ UNCHANGED RegMap
<1>1. /\ op # Idle /\ op.stage = "checkpoint" /\ op.row \in Row
      /\ bindings' = [bindings EXCEPT ![op.row.node] = op.cand]
      /\ bindings \in [Node -> MaybeBinding]
      /\ UNCHANGED <<lines, terminated>>
  BY DEF Checkpoint, ReplaceMap, Inv, TypeOK
<1>2. /\ LoadWal' = LoadWal /\ LoadWal \in Seq(Row)
  BY <1>1, WalFacts DEF LoadWal
<1>3. Recovered' = bindings'
  BY <1>2, CheckpointReplay, RecoveredWhenQuiet
<1>4. /\ op.cand # NoBinding /\ LoadWal # <<>>
      /\ op.row = LoadWal[Len(LoadWal)] /\ bindings[op.row.node] # NoBinding
  BY <1>1 DEF ReplayInv, FlightInv
<1>5. Recovered = ReplayRow(bindings, op.row)
  BY <1>4, RecoveredIs
<1>6. CASE Moves(op.row)
  <2>1. op.cand = ApplyOne(bindings[op.row.node], op.row)
    BY <1>1, <1>4, <1>6 DEF ReplayInv, FlightInv
  <2>2. Recovered = bindings'
    BY <1>1, <1>4, <1>5, <2>1 DEF ReplayRow
  <2> QED
    BY <1>3, <2>2, SameRegisters
<1>7. CASE ~Moves(op.row)
  <2> DEFINE n == op.row.node
             b == bindings[n]
             new == op.cand
  <2>1. Inert(bindings, op.row)
    BY <1>1, <1>4, <1>7 DEF Inert
  <2>2. Recovered = bindings
    BY <1>1, <1>5, <2>1, InertRow
  <2>3. /\ n \in Node /\ b \in Binding
        /\ new = [b EXCEPT !.slice = new.slice, !.wm = op.row.seq]
    BY <1>1, <1>4, <1>7 DEF ReplayInv, FlightInv, Row, MaybeBinding
  <2>4. /\ new.state = b.state /\ new.gen = b.gen /\ new.epoch = b.epoch
    BY <2>3 DEF Binding
  <2>5. RegOf(new) = [state |-> b.state, gen |-> b.gen, epoch |-> b.epoch,
                      slice |-> new.slice]
    BY <1>4, <2>4 DEF RegOf
  <2>6. RegOf(b) = [state |-> b.state, gen |-> b.gen, epoch |-> b.epoch,
                    slice |-> b.slice]
    BY <1>4 DEF RegOf
  <2>7. RegOf(b) # NoBinding /\ RegOf(new) # NoBinding
    BY <2>5, <2>6 DEF NoBinding
  <2>8. Atomic!Observe(RegOf(b), RegOf(new))
    BY <2>5, <2>6, <2>7 DEF Atomic!Observe
  <2>9. /\ bindings'[n] = new
        /\ \A m \in Node \ {n} : bindings'[m] = bindings[m]
    BY <1>1, <2>3
  <2> HIDE DEF new, b, n
  <2>10. RegMap[n] = RegOf(b) /\ RegMap'[n] = RegOf(new)
    BY <1>3, <2>2, <2>3, <2>9, RegisterOf DEF b
  <2>11. \A m \in Node \ {n} : RegMap'[m] = RegMap[m]
    BY <1>3, <2>2, <2>9, RegisterOf
  <2> QED
    BY <2>3, <2>8, <2>10, <2>11, RegisterStep DEF Atomic!Step
<1> QED
  BY <1>6, <1>7

\* A registration shows: an absent, planned or finished register is anew.
LEMMA RegisterImplements ==
    ASSUME Inv, Inv', ReplayInv, NoOverlap, NEW c \in Caller, Register(c)
    PROVE  Atomic!Next
<1> DEFINE s == seed[c]
           n == s.node
           b == bindings[n]
           new == Registered(s)
<1>1. /\ phase = "serving" /\ op = Idle /\ s # NoSeed
      /\ bindings' = [bindings EXCEPT ![n] = new]
      /\ bindings \in [Node -> MaybeBinding] /\ n \in Node
      /\ UNCHANGED <<lines, terminated>>
  BY DEF Register, ReplaceMap, Inv, TypeOK
<1>2. /\ LoadWal' = LoadWal /\ LoadWal \in Seq(Row)
  BY <1>1, WalFacts DEF LoadWal
<1>3. Recovered' = bindings' /\ Recovered = bindings
  BY <1>1, <1>2, RegisterReplay, RecoveredWhenQuiet, QuietWhenIdle,
     RecoveredIs
<1>4. Registrable(b) /\ (b # NoBinding => s.epoch > b.epoch)
  BY <1>1 DEF ReplayInv, RegistrationInv
<1>5. RegOf(new) = [state |-> "planned", gen |-> 0, epoch |-> s.epoch,
                    slice |-> InitSlice]
  BY DEF RegOf, Registered, NoBinding
<1>6. /\ b # NoBinding =>
            RegOf(b) = [state |-> b.state, gen |-> b.gen, epoch |-> b.epoch,
                        slice |-> b.slice]
      /\ b = NoBinding => RegOf(b) = NoBinding
  BY DEF RegOf
<1>7. RegOf(new) # NoBinding
  BY <1>5 DEF NoBinding
<1>8. Atomic!Register(RegOf(b), RegOf(new))
  BY <1>4, <1>5, <1>6, <1>7
     DEF Atomic!Register, Atomic!Reregistrable, Registrable,
         Atomic!IsTerminal, IsTerminal, Atomic!TerminalStates, TerminalStates
<1>9. /\ bindings'[n] = new
      /\ \A m \in Node \ {n} : bindings'[m] = bindings[m]
  BY <1>1
<1> HIDE DEF new, b, n
<1>10. RegMap[n] = RegOf(b) /\ RegMap'[n] = RegOf(new)
  BY <1>1, <1>3, <1>9, RegisterOf DEF b
<1>11. \A m \in Node \ {n} : RegMap'[m] = RegMap[m]
  BY <1>3, <1>9, RegisterOf
<1> QED
  BY <1>1, <1>8, <1>10, <1>11, RegisterStep DEF Atomic!Step

\* Every step is a step of the registers, or invisible in them.
LEMMA NextImplements ==
    ASSUME Inv, Inv', ReplayInv, ReplayInv', EpochInv, PlainCrashes, Orderly,
           [Next]_vars
    PROVE  Atomic!Next \/ UNCHANGED RegMap
<1>0. LoadWal \in Seq(Row)
  BY WalFacts
<1>1. ASSUME LoadWal' = LoadWal, bindings' = bindings
      PROVE  UNCHANGED RegMap
  BY <1>1, SameRows, SameRegisters
<1>2. CASE Heal
  <2>1. bindings' = bindings /\ LoadWal' = LoadWal
    BY <1>2, HealRows DEF Heal, ReplayInv
  <2> QED
    BY <1>1, <2>1
<1>3. CASE AppendFrame
  BY <1>3, AppendFrameImplements
<1>4. CASE Checkpoint
  BY <1>4, CheckpointImplements DEF Orderly
<1>5. ASSUME NEW c \in Caller, Register(c)
      PROVE  Atomic!Next
  BY <1>5, RegisterImplements DEF Orderly
<1>6. CASE BootCheckpoint
  <2>1. LoadWal' = LoadWal
    BY <1>6 DEF BootCheckpoint, LoadWal
  <2>2. Recovered' = Recovered
    BY <1>0, <1>6, <2>1, BootCheckpointReplay, RecoveredWhenQuiet
  <2> QED
    BY <2>2, SameRegisters
<1>7. CASE Crash
  <2>1. LoadWal' = LoadWal /\ bindings' = bindings
    BY <1>7, CrashRows DEF ReplayInv
  <2> QED
    BY <1>1, <2>1
<1>8. CASE \/ \E c \in Caller, m \in Node : Read(c, m) \/ BeginRegister(c, m)
           \/ Mutate \/ BootLoad \/ BootReplay \/ UNCHANGED vars
  <2>1. ASSUME NEW c \in Caller
        PROVE  /\ \A to \in Targets, rotate, fenced \in BOOLEAN,
                     d \in {KeepSlice, Escalated} :
                    Transition(c, to, rotate, fenced, d)
                        => UNCHANGED <<lines, bindings>>
               /\ StaleReturn(c) => UNCHANGED <<lines, bindings>>
               /\ \A m \in Node, d \in Slice :
                    OwnSliceWrite(c, m, d) => UNCHANGED <<lines, bindings>>
               /\ \A m \in Node :
                    Journal(c, m) => UNCHANGED <<lines, bindings>>
    BY DEF Transition, StaleReturn, OwnSliceWrite, Journal, Begin, disk
  <2>2. Mutate => UNCHANGED <<lines, bindings>>
    BY <2>1 DEF Mutate
  <2>3. \A c \in Caller, m \in Node :
            Read(c, m) \/ BeginRegister(c, m) => UNCHANGED <<lines, bindings>>
    BY DEF Read, BeginRegister, disk
  <2>4. BootLoad \/ BootReplay \/ UNCHANGED vars
            => UNCHANGED <<lines, bindings>>
    BY DEF BootLoad, BootReplay, vars, disk
  <2>5. UNCHANGED <<lines, bindings>>
    BY <1>8, <2>2, <2>3, <2>4
  <2> QED
    BY <1>1, <2>5 DEF LoadWal
<1> QED
  BY <1>2, <1>3, <1>4, <1>5, <1>6, <1>7, <1>8 DEF Next, Disk, Enrol, Boot

\* The registers start absent.
LEMMA InitImplements == Init => Atomic!Init
<1> SUFFICES ASSUME Init PROVE Atomic!Init
  OBVIOUS
<1>1. Inv /\ ReplayInv /\ Quiet
  BY InitInv, InitReplay, QuietWhenIdle DEF Init
<1>2. Recovered = [n \in Node |-> NoBinding]
  BY <1>1, RecoveredIs DEF Init
<1> QED
  BY <1>2, RegisterOf DEF Atomic!Init, RegOf

\* The run-ledger, the binding ledger and the executor implement the atomic
\* registers: crashes, replays and half-done mutations cannot be seen.
THEOREM ImplementsAtomicLedgerHolds ==
    ASSUME PlainCrashes
    PROVE  Spec /\ []Orderly => ImplementsAtomicLedger
<1>1. Init => Atomic!Init
  BY InitImplements
<1>2. /\ Inv /\ Inv' /\ ReplayInv /\ ReplayInv' /\ EpochInv
      /\ Orderly /\ [Next]_vars
      => [Atomic!Next]_RegMap
  BY NextImplements
<1> QED
  BY <1>1, <1>2, EpochInvariance, PTL
     DEF ImplementsAtomicLedger, Atomic!Spec, Spec

-----------------------------------------------------------------------------
(* The calls of a sole caller are orderly. *)

SoleCaller == \A c, d \in Caller : c = d

\* It does one thing at a time: it registers, mutates or holds a view.
SoleInv ==
    \A c \in Caller :
        /\ seed[c] # NoSeed => op = Idle /\ view[c] = NoView
        /\ op # Idle => view[c] = NoView

\* Its view is of the live binding, which no row in the log can change.
SoleView ==
    \A c \in Caller : view[c] # NoView =>
        LET b == bindings[view[c].node] IN
        /\ Quiet /\ b # NoBinding
        /\ b.epoch = view[c].epoch

\* Every step keeps a sole caller at one thing.
LEMMA NextSole ==
    ASSUME SoleCaller, Inv, SoleInv, [Next]_vars
    PROVE  SoleInv'
<1>0. /\ seed \in [Caller -> {NoSeed} \cup
                                [node : Node, epoch : Nat, wm : Nat]]
      /\ view \in [Caller -> {NoView} \cup View]
      /\ op # Idle => op.caller \in Caller
  BY DEF Inv, TypeOK
<1>1. ASSUME NEW c \in Caller, NEW n \in Node, Read(c, n)
      PROVE  SoleInv'
  <2>1. op = Idle /\ seed[c] = NoSeed /\ op' = op /\ seed' = seed
    BY <1>0, <1>1 DEF SoleCaller, Read, Free
  <2> QED
    BY <2>1 DEF SoleCaller, SoleInv
<1>2. CASE Mutate
  <2>1. ASSUME NEW c \in Caller, NEW row, NEW cand,
               Free(c), Begin(c, row, cand)
        PROVE  SoleInv'
    <3>1. /\ view' = [view EXCEPT ![c] = NoView] /\ seed' = seed
          /\ seed[c] = NoSeed
      BY <2>1 DEF Begin, Free
    <3>2. \A d \in Caller : view'[d] = NoView /\ seed'[d] = NoSeed
      BY <1>0, <3>1 DEF SoleCaller
    <3> QED
      BY <3>2 DEF SoleInv
  <2>2. ASSUME NEW c \in Caller
        PROVE  /\ \A to \in Targets, rotate, fenced \in BOOLEAN,
                     d \in {KeepSlice, Escalated} :
                    Transition(c, to, rotate, fenced, d)
                        => Free(c) /\ \E row, cand : Begin(c, row, cand)
               /\ StaleReturn(c)
                        => Free(c) /\ \E row, cand : Begin(c, row, cand)
               /\ \A m \in Node, d \in Slice : OwnSliceWrite(c, m, d)
                        => Free(c) /\ \E row, cand : Begin(c, row, cand)
               /\ \A m \in Node : Journal(c, m)
                        => Free(c) /\ \E row, cand : Begin(c, row, cand)
    BY Zenon DEF Transition, StaleReturn, OwnSliceWrite, Journal
  <2> QED
    BY <1>2, <2>1, <2>2 DEF Mutate
<1>3. CASE Disk
  <2>1. op # Idle /\ view' = view /\ seed' = seed
    BY <1>3 DEF Disk, Heal, AppendFrame, Checkpoint
  <2> QED
    BY <2>1 DEF SoleInv
<1>4. ASSUME NEW c \in Caller, NEW n \in Node, BeginRegister(c, n)
      PROVE  SoleInv'
  <2>1. op = Idle /\ op' = op /\ view' = [view EXCEPT ![c] = NoView]
    BY <1>0, <1>4 DEF SoleCaller, BeginRegister, Free
  <2>2. \A d \in Caller : view'[d] = NoView
    BY <1>0, <2>1 DEF SoleCaller
  <2> QED
    BY <2>1, <2>2 DEF SoleInv
<1>5. ASSUME NEW c \in Caller, Register(c)
      PROVE  SoleInv'
  <2>1. op' = Idle /\ view' = view /\ seed' = [seed EXCEPT ![c] = NoSeed]
    BY <1>5 DEF Register
  <2>2. \A d \in Caller : seed'[d] = NoSeed
    BY <1>0, <2>1 DEF SoleCaller
  <2> QED
    BY <2>1, <2>2 DEF SoleInv
<1>6. CASE Crash
  BY <1>6 DEF Crash, SoleInv
<1>7. CASE Boot \/ UNCHANGED vars
  <2>1. UNCHANGED <<op, view, seed>>
    BY <1>7 DEF Boot, BootLoad, BootReplay, BootCheckpoint, vars
  <2> QED
    BY <2>1 DEF SoleInv
<1> QED
  BY <1>1, <1>2, <1>3, <1>4, <1>5, <1>6, <1>7 DEF Next, Enrol

\* It registers and mutates in turn.
LEMMA SoleNoOverlap == SoleCaller /\ SoleInv => NoOverlap
BY DEF SoleCaller, SoleInv, NoOverlap

\* Every step keeps a sole caller's view fresh.
LEMMA NextSoleView ==
    ASSUME SoleCaller, PlainCrashes, Inv, ReplayInv, SoleInv, SoleView,
           [Next]_vars
    PROVE  SoleView'
<1>0. view \in [Caller -> {NoView} \cup View] /\ NoOverlap
  BY SoleNoOverlap DEF Inv, TypeOK
<1>1. ASSUME LoadWal' = LoadWal, bindings' = bindings,
             \A c \in Caller : view'[c] \in {view[c], NoView}
      PROVE  SoleView'
  <2>1. Quiet' = Quiet
    BY <1>1, SameRows
  <2> QED
    BY <1>1, <2>1 DEF SoleView
<1>2. ASSUME \A c \in Caller : view[c] = NoView, view' = view
      PROVE  SoleView'
  BY <1>2 DEF SoleView
<1>3. ASSUME NEW c \in Caller, NEW n \in Node, Read(c, n)
      PROVE  SoleView'
  <2>1. /\ op = Idle /\ phase = "serving" /\ bindings[n] # NoBinding
        /\ bindings' = bindings /\ lines' = lines
        /\ view'[c] = [node |-> n, state |-> bindings[n].state,
                       gen |-> bindings[n].gen, epoch |-> bindings[n].epoch,
                       token |-> bindings[n].token]
    BY <1>0, <1>3 DEF SoleCaller, Read, Free, disk, Inv, TypeOK
  <2>2. LoadWal' = LoadWal /\ Quiet
    BY <2>1, QuietWhenIdle DEF LoadWal
  <2>3. Quiet'
    BY <2>1, <2>2, SameRows
  <2> QED
    BY <2>1, <2>3 DEF SoleCaller, SoleView
<1>4. ASSUME NEW c \in Caller, NEW row, NEW cand, Begin(c, row, cand)
      PROVE  SoleView'
  <2>1. /\ UNCHANGED <<lines, bindings>>
        /\ view' = [view EXCEPT ![c] = NoView]
    BY <1>4 DEF Begin, disk
  <2>2. LoadWal' = LoadWal /\ \A d \in Caller : view'[d] = NoView
    BY <1>0, <2>1 DEF LoadWal, SoleCaller
  <2> QED
    BY <1>1, <2>1, <2>2
<1>5. CASE Mutate
  <2>1. ASSUME NEW c \in Caller
        PROVE  /\ \A to \in Targets, rotate, fenced \in BOOLEAN,
                     d \in {KeepSlice, Escalated} :
                    Transition(c, to, rotate, fenced, d)
                        => \E row, cand : Begin(c, row, cand)
               /\ StaleReturn(c) => \E row, cand : Begin(c, row, cand)
               /\ \A m \in Node, d \in Slice : OwnSliceWrite(c, m, d)
                        => \E row, cand : Begin(c, row, cand)
               /\ \A m \in Node : Journal(c, m)
                        => \E row, cand : Begin(c, row, cand)
    BY Zenon DEF Transition, StaleReturn, OwnSliceWrite, Journal
  <2> QED
    BY <1>4, <1>5, <2>1 DEF Mutate
<1>6. CASE Disk
  <2>1. op # Idle /\ view' = view
    BY <1>6 DEF Disk, Heal, AppendFrame, Checkpoint
  <2> QED
    BY <1>2, <2>1 DEF SoleInv
<1>7. ASSUME NEW c \in Caller, NEW n \in Node, BeginRegister(c, n)
      PROVE  SoleView'
  <2>1. /\ UNCHANGED <<lines, bindings>>
        /\ view' = [view EXCEPT ![c] = NoView]
    BY <1>7 DEF BeginRegister, disk
  <2>2. LoadWal' = LoadWal /\ \A d \in Caller : view'[d] = NoView
    BY <1>0, <2>1 DEF LoadWal, SoleCaller
  <2> QED
    BY <1>1, <2>1, <2>2
<1>8. ASSUME NEW c \in Caller, Register(c)
      PROVE  SoleView'
  <2>1. view' = view /\ seed[c] # NoSeed
    BY <1>8 DEF Register
  <2> QED
    BY <1>2, <2>1 DEF SoleInv, SoleCaller
<1>9. CASE Crash
  <2>1. LoadWal' = LoadWal /\ bindings' = bindings /\ view' = view
    BY <1>9, CrashRows DEF Crash, ReplayInv
  <2> QED
    BY <1>1, <2>1
<1>10. CASE BootCheckpoint
  <2>1. view' = view /\ Quiet' /\ bindings' = Recovered
    BY <1>10, BootCheckpointReplay DEF BootCheckpoint
  <2>2. Quiet => bindings' = bindings
    BY <2>1, RecoveredIs
  <2> QED
    BY <2>1, <2>2 DEF SoleView
<1>11. CASE BootLoad \/ BootReplay \/ UNCHANGED vars
  <2>1. UNCHANGED <<lines, bindings, view>>
    BY <1>11 DEF BootLoad, BootReplay, vars, disk
  <2> QED
    BY <1>1, <2>1 DEF LoadWal
<1> QED
  BY <1>3, <1>5, <1>6, <1>7, <1>8, <1>9, <1>10, <1>11 DEF Next, Enrol, Boot

\* A sole caller's calls are orderly, through crashes and restarts.
THEOREM SoleCallerIsOrderly ==
    ASSUME SoleCaller, PlainCrashes
    PROVE  Spec => []Orderly
<1>1. Init => SoleInv /\ SoleView
  BY DEF Init, SoleInv, SoleView
<1>2. Inv /\ SoleInv /\ [Next]_vars => SoleInv'
  BY NextSole
<1>3. SoleInv => NoOverlap
  BY SoleNoOverlap
<1>4. Inv /\ ReplayInv /\ SoleInv /\ SoleView /\ [Next]_vars => SoleView'
  BY NextSoleView
<1>5. NoOverlap /\ SoleView => Orderly
  BY DEF Orderly, FreshViews, SoleView
<1> QED
  BY <1>1, <1>2, <1>3, <1>4, <1>5, Invariance, ReplayInvariance, PTL DEF Spec

\* So that with one caller all five hold without a condition on its calls.
THEOREM SoleCallerLedger ==
    ASSUME SoleCaller, PlainCrashes
    PROVE  Spec => /\ []RestartIsIdentity /\ []IntentReplayable
                   /\ EpochNeverRegresses /\ NoClobber
                   /\ ImplementsAtomicLedger
<1>1. Orderly => NoOverlap
  BY DEF Orderly
<1> QED
  BY <1>1, SoleCallerIsOrderly, RestartIsIdentityHolds,
     IntentReplayableHolds, EpochNeverRegressesHolds, NoClobberHolds,
     ImplementsAtomicLedgerHolds, PTL
=============================================================================
