--------------------------- MODULE RunLedgerProofs ---------------------------
(***************************************************************************)
(* Proofs about RunLedger for every set of nodes, callers and slices,      *)
(* every kind of crash and every bound: its types, that a torn frame is    *)
(* never buried, that sequence numbers rise strictly, and that an owner    *)
(* token is always the one minted at its lease epoch.  The four hold       *)
(* together, as the parts of one inductive invariant, Inv.                 *)
(***************************************************************************)
EXTENDS RunLedger, SequenceTheorems, WellFoundedInduction, TLAPS

-----------------------------------------------------------------------------
(* The inductive invariant. *)

\* A row carries the token of its epoch; with a pre-image it is a transition.
RowOK(r) ==
    /\ r.token = r.epoch /\ r.epoch <= MaxEpoch
    /\ r.exp # NoGen =>
        r.gen \in Nat /\ r.from \in KnownStates /\ r.to \in KnownStates

BindingOK(b) == b # NoBinding => b.token = b.epoch /\ b.epoch <= MaxEpoch

LogInv ==
    /\ lines = <<>> => terminated
    /\ OnlyFinalLineTorn
    /\ SeqStrictlyRises
    /\ \A i \in 1 .. Len(lines) : RowOK(lines[i].row)

MapInv ==
    \A n \in Node : BindingOK(bindings[n]) /\ BindingOK(previous[n])
                                           /\ BindingOK(mem[n])

\* The row in flight has a fresh number, until it is appended.
OpInv ==
    op # Idle =>
        /\ RowOK(op.row) /\ BindingOK(op.cand)
        /\ op.stage = "heal" =>
            \A i \in 1 .. Len(LoadWal) : LoadWal[i].seq < op.row.seq
        /\ op.stage = "append" =>
            /\ terminated
            /\ \A i \in 1 .. Len(lines) : lines[i].row.seq < op.row.seq

SeedInv == \A c \in Caller : seed[c] # NoSeed => seed[c].epoch <= MaxEpoch

Inv == TypeOK /\ LogInv /\ MapInv /\ OpInv /\ SeedInv

-----------------------------------------------------------------------------
(* Lemmas about the operators of the model. *)

\* A bounded, non-empty set of naturals has a maximum, and Max returns it.
LEMMA MaxOfNats ==
    ASSUME NEW S \in SUBSET Nat, S # {}, NEW b \in Nat, \A x \in S : x <= b
    PROVE  Max(S) \in S /\ \A x \in S : x <= Max(S)
<1> DEFINE U == {k \in Nat : \A x \in S : x <= k}
<1>1. U # {} /\ U \subseteq Nat
  OBVIOUS
<1>2. PICK m \in U : \A k \in U : ~ (k < m)
  <2>1. \E m \in U : \A k \in U : <<k, m>> \notin OpToRel(<, Nat)
    BY <1>1, WFMin, NatLessThanWellFounded, Zenon
  <2> QED
    BY <2>1, <1>1 DEF OpToRel
<1>3. m \in S
  <2> SUFFICES ASSUME m \notin S PROVE FALSE
    OBVIOUS
  <2>1. PICK x \in S : TRUE
    OBVIOUS
  <2>2. \A y \in S : y <= m - 1
    BY <1>2
  <2>3. m - 1 \in U
    BY <2>1, <2>2, <1>2
  <2> QED
    BY <2>3, <1>2
<1>4. \E x \in S : \A y \in S : x >= y
  BY <1>2, <1>3
<1> QED
  BY <1>4 DEF Max

\* Dropping the last element of a sequence.
LEMMA FrontProperties ==
    ASSUME NEW S, NEW s \in Seq(S), s # <<>>
    PROVE  /\ Front(s) \in Seq(S)
           /\ Len(Front(s)) = Len(s) - 1
           /\ \A i \in 1 .. Len(s) - 1 : Front(s)[i] = s[i]
<1>1. SubSeq(s, 1, Len(s) - 1) \in Seq(S)
  <2>1. \A i \in 1 .. Len(s) - 1 : s[i] \in S
    OBVIOUS
  <2> QED
    BY <2>1, SubSeqProperties
<1>2. Len(SubSeq(s, 1, Len(s) - 1)) = Len(s) - 1
  <2>1. \E n \in Nat : Len(s) - 1 = n
    OBVIOUS
  <2>2. \A n \in Nat : Len(SubSeq(s, 1, n)) = n
    OBVIOUS
  <2> QED
    BY <2>1, <2>2
<1>3. \A i \in 1 .. Len(s) - 1 : SubSeq(s, 1, Len(s) - 1)[i] = s[i]
  OBVIOUS
<1> QED
  BY <1>1, <1>2, <1>3 DEF Front

\* A loaded log is a sequence of rows, each of them the row of a line.
LEMMA LoadWalRows ==
    ASSUME lines \in Seq([row : Row, intact : BOOLEAN])
    PROVE  /\ LoadWal \in Seq(Row)
           /\ Len(LoadWal) =
                IF lines # <<>> /\ ~Last(lines).intact THEN Len(lines) - 1
                                                       ELSE Len(lines)
           /\ \A i \in 1 .. Len(LoadWal) : LoadWal[i] = lines[i].row
<1> DEFINE L == [row : Row, intact : BOOLEAN]
           torn == lines # <<>> /\ ~Last(lines).intact
           good == IF torn THEN Front(lines) ELSE lines
<1>1. /\ good \in Seq(L)
      /\ Len(good) = IF torn THEN Len(lines) - 1 ELSE Len(lines)
      /\ \A i \in 1 .. Len(good) : good[i] = lines[i]
  BY FrontProperties
<1>2. LoadWal = [i \in DOMAIN good |-> good[i].row]
  BY DEF LoadWal
<1> HIDE DEF good
<1>3. DOMAIN good = 1 .. Len(good) /\ Len(good) \in Nat
  BY <1>1, LenProperties
<1>4. \A i \in 1 .. Len(good) : good[i].row \in Row
  <2>1. \A i \in 1 .. Len(good) : good[i] \in L
    BY <1>1, ElementOfSeq
  <2> QED
    BY <2>1
<1>5. LoadWal \in Seq(Row) /\ Len(LoadWal) = Len(good)
  BY <1>2, <1>3, <1>4
<1> QED
  BY <1>1, <1>2, <1>3, <1>5

\* next_seq is above every number a load of the log returns.
LEMMA NextSeqFresh ==
    ASSUME lines \in Seq([row : Row, intact : BOOLEAN]), SeqStrictlyRises
    PROVE  /\ MaxWalSeq \in Nat /\ NextSeq \in Nat
           /\ \A i \in 1 .. Len(LoadWal) : LoadWal[i].seq < NextSeq
<1>1. /\ LoadWal \in Seq(Row)
      /\ Len(LoadWal) <= Len(lines)
      /\ \A i \in 1 .. Len(LoadWal) : LoadWal[i] = lines[i].row
  BY LoadWalRows
<1>2. \A i, j \in 1 .. Len(LoadWal) :
        i < j => LoadWal[i].seq < LoadWal[j].seq
  BY <1>1 DEF SeqStrictlyRises
<1>3. \A i \in 1 .. Len(LoadWal) : LoadWal[i].seq \in Nat
  <2>1. \A i \in 1 .. Len(LoadWal) : LoadWal[i] \in Row
    BY <1>1, ElementOfSeq
  <2> QED
    BY <2>1 DEF Row
<1>4. DOMAIN LoadWal = 1 .. Len(LoadWal) /\ Len(LoadWal) \in Nat
  BY <1>1, LenProperties
<1>5. CASE LoadWal = <<>>
  BY <1>5 DEF MaxWalSeq, NextSeq
<1>6. CASE LoadWal # <<>>
  <2>1. Len(LoadWal) \in 1 .. Len(LoadWal)
    BY <1>1, <1>6, EmptySeq
  <2>2. WalSeqs = {LoadWal[i].seq : i \in 1 .. Len(LoadWal)}
    BY <1>4 DEF WalSeqs
  <2> DEFINE top == LoadWal[Len(LoadWal)].seq
  <2>3. WalSeqs \in SUBSET Nat /\ top \in WalSeqs /\ top \in Nat
    BY <2>1, <2>2, <1>3
  <2>4. \A i \in 1 .. Len(LoadWal) : LoadWal[i].seq <= top
    BY <1>2, <1>3, <1>4, <2>1
  <2>5. \A x \in WalSeqs : x <= top
    BY <2>2, <2>4
  <2>6. Max(WalSeqs) \in WalSeqs /\ \A x \in WalSeqs : x <= Max(WalSeqs)
    <3> HIDE DEF top
    <3> QED
      BY <2>3, <2>5, MaxOfNats
  <2>7. MaxWalSeq = Max(WalSeqs)
    BY <1>6 DEF MaxWalSeq
  <2>8. \A i \in 1 .. Len(LoadWal) : LoadWal[i].seq <= MaxWalSeq
    BY <2>2, <2>6, <2>7
  <2>9. MaxWalSeq \in Nat
    BY <2>3, <2>6, <2>7
  <2> HIDE DEF top
  <2> QED
    BY <2>8, <2>9, <1>3 DEF NextSeq
<1> QED
  BY <1>5, <1>6

\* An identity seed is well-typed: the epochs it takes the maximum of are
\* bounded, so that they have one.
LEMMA IdentitySeedType ==
    ASSUME TypeOK, LogInv, MapInv, NEW n \in Node
    PROVE  IdentitySeed(n) \in [node : Node, epoch : Nat, wm : Nat]
<1>1. /\ lines \in Seq([row : Row, intact : BOOLEAN])
      /\ bindings \in [Node -> MaybeBinding]
      /\ MaxEpoch \in Nat
  BY BoundAssumption DEF TypeOK
<1> DEFINE bound == IF bindings[n] = NoBinding THEN {} ELSE {bindings[n].epoch}
           known == RowEpochs(n) \cup bound
<1>2. \A i \in DOMAIN LoadWal :
        LoadWal[i].epoch \in Nat /\ LoadWal[i].epoch <= MaxEpoch
  <2>1. /\ LoadWal \in Seq(Row) /\ DOMAIN LoadWal = 1 .. Len(LoadWal)
        /\ Len(LoadWal) <= Len(lines)
        /\ \A i \in 1 .. Len(LoadWal) : LoadWal[i] = lines[i].row
    BY <1>1, LoadWalRows, LenProperties
  <2>2. \A i \in 1 .. Len(LoadWal) : LoadWal[i] \in Row
    BY <2>1, ElementOfSeq
  <2>3. \A i \in 1 .. Len(LoadWal) : RowOK(LoadWal[i])
    BY <1>1, <2>1 DEF LogInv
  <2> QED
    BY <2>1, <2>2, <2>3 DEF Row, RowOK
<1>3. RowEpochs(n) \in SUBSET Nat /\ \A x \in RowEpochs(n) : x <= MaxEpoch
  BY <1>2 DEF RowEpochs
<1>4. bound \in SUBSET Nat /\ \A x \in bound : x <= MaxEpoch
  BY <1>1 DEF MapInv, BindingOK, MaybeBinding, Binding
<1>5. known \in SUBSET Nat /\ \A x \in known : x <= MaxEpoch
  BY <1>3, <1>4
<1>6. MaxWalSeq \in Nat
  BY <1>1, NextSeqFresh DEF LogInv
<1>7. IdentitySeed(n) = IF known = {} THEN [node |-> n, epoch |-> 1, wm |-> 0]
                        ELSE [node |-> n, epoch |-> Max(known) + 1,
                              wm |-> MaxWalSeq]
  BY DEF IdentitySeed
<1> HIDE DEF known
<1>8. known # {} => Max(known) \in Nat
  BY <1>1, <1>5, MaxOfNats
<1> QED
  BY <1>6, <1>7, <1>8

\* Replaying a row keeps a map's types, its tokens and its bound on epochs.
LEMMA ReplayRowInv ==
    ASSUME NEW map \in [Node -> MaybeBinding], NEW row \in Row,
           \A n \in Node : BindingOK(map[n]), RowOK(row)
    PROVE  /\ ReplayRow(map, row) \in [Node -> MaybeBinding]
           /\ \A n \in Node : BindingOK(ReplayRow(map, row)[n])
<1>1. ASSUME NEW b \in Binding, BindingOK(b)
      PROVE  ApplyOne(b, row) \in Binding /\ BindingOK(ApplyOne(b, row))
  <2>1. CASE row.seq <= b.wm \/ b.gen = row.gen \/ b.gen # row.exp
    BY <1>1, <2>1 DEF ApplyOne
  <2>2. CASE ~(row.seq <= b.wm \/ b.gen = row.gen \/ b.gen # row.exp)
    <3>1. ApplyOne(b, row) =
            [state |-> row.to, gen |-> row.gen, epoch |-> row.epoch,
             token |-> row.token, wm |-> row.seq,
             slice |-> IF row.delta = KeepSlice THEN b.slice ELSE row.delta]
      BY <2>2 DEF ApplyOne
    <3>2. row.gen \in Nat /\ row.to \in KnownStates
      BY <2>2 DEF RowOK, Binding, NoGen
    <3> QED
      BY <3>1, <3>2 DEF RowOK, BindingOK, Binding, Row
  <2> QED
    BY <2>1, <2>2
<1>2. row.exp # NoGen =>
        RowPreImage(row) \in Binding /\ BindingOK(RowPreImage(row))
  BY SliceAssumption, BoundAssumption
     DEF RowPreImage, RowOK, Row, Binding, BindingOK, NoGen
<1> DEFINE new == IF map[row.node] # NoBinding THEN ApplyOne(map[row.node], row)
                  ELSE IF row.exp = NoGen THEN NoBinding
                  ELSE ApplyOne(RowPreImage(row), row)
<1>3. new \in MaybeBinding /\ BindingOK(new)
  <2>1. row.node \in Node
    BY DEF Row
  <2> QED
    BY <1>1, <1>2, <2>1 DEF MaybeBinding, BindingOK
<1>4. ReplayRow(map, row) = [map EXCEPT ![row.node] = new]
  BY DEF ReplayRow
<1> HIDE DEF new
<1> QED
  BY <1>3, <1>4 DEF Row

-----------------------------------------------------------------------------
(* The inductive invariant holds initially and every step preserves it.    *)

\* An empty log over no bindings, with nothing in flight, is well-formed.
LEMMA InitInv == Init => Inv
<1> SUFFICES ASSUME Init PROVE Inv
  OBVIOUS
<1>1. lines = <<>> /\ Len(lines) = 0 /\ terminated
  BY DEF Init
<1>2. TypeOK
  BY DEF Init, TypeOK, MaybeBinding
<1>3. LogInv
  BY <1>1 DEF LogInv, OnlyFinalLineTorn, Loadable, SeqStrictlyRises
<1>4. MapInv /\ OpInv /\ SeedInv
  BY DEF Init, MapInv, BindingOK, OpInv, SeedInv
<1> QED
  BY <1>2, <1>3, <1>4 DEF Inv

\* Whatever well-formed row and candidate it takes the lock with, a mutation
\* begins with a fresh number.
LEMMA BeginInv ==
    ASSUME Inv, NEW c \in Caller, NEW row \in Row, NEW cand \in MaybeBinding,
           RowOK(row), BindingOK(cand), row.seq = NextSeq,
           Begin(c, row, cand)
    PROVE  Inv'
<1>1. /\ op' = [stage |-> "heal", caller |-> c, row |-> row, cand |-> cand]
      /\ view' = [view EXCEPT ![c] = NoView]
      /\ UNCHANGED <<lines, terminated, bindings, previous, phase, mem, pos,
                     crashes, seed>>
  BY DEF Begin, disk, boot
<1>2. TypeOK'
  <2>1. (view \in [Caller -> {NoView} \cup View])'
    BY <1>1 DEF Inv, TypeOK
  <2>2. (op \in {Idle} \cup
              [stage : {"heal", "append", "checkpoint"}, caller : Caller,
               row : Row, cand : MaybeBinding])'
    BY <1>1
  <2> QED
    BY <1>1, <2>1, <2>2 DEF Inv, TypeOK
<1>3. LogInv' /\ MapInv' /\ SeedInv'
  BY <1>1 DEF Inv, LogInv, MapInv, SeedInv, OnlyFinalLineTorn, Loadable,
              SeqStrictlyRises
<1>4. OpInv'
  <2>1. \A i \in 1 .. Len(LoadWal) : LoadWal[i].seq < NextSeq
    BY NextSeqFresh DEF Inv, TypeOK, LogInv
  <2>2. LoadWal' = LoadWal
    BY <1>1 DEF LoadWal
  <2> QED
    BY <1>1, <2>1, <2>2 DEF OpInv
<1> QED
  BY <1>2, <1>3, <1>4 DEF Inv

\* A caller's unlocked read of a binding leaves the disk alone; what it saw
\* is a binding.
LEMMA ReadInv ==
    ASSUME Inv, NEW c \in Caller, NEW n \in Node, Read(c, n)
    PROVE  Inv'
<1> USE DEF Inv
<1>1. UNCHANGED <<lines, terminated, bindings, previous, phase, mem, pos,
                  crashes, op, seed>>
  BY DEF Read, disk, boot
<1>2. bindings[n] \in Binding
  BY DEF Read, TypeOK, MaybeBinding
<1>3. (view \in [Caller -> {NoView} \cup View])'
  BY <1>2 DEF Read, TypeOK, View, Binding
<1>4. TypeOK'
  BY <1>1, <1>3 DEF TypeOK
<1>5. LogInv' /\ MapInv' /\ SeedInv'
  BY <1>1 DEF LogInv, MapInv, SeedInv, OnlyFinalLineTorn, Loadable,
              SeqStrictlyRises
<1>6. OpInv'
  BY <1>1 DEF OpInv, LoadWal
<1> QED
  BY <1>4, <1>5, <1>6

\* A committed transition writes a transition's row, its token and epoch as
\* they were in the binding or both rotated.
LEMMA TransitionInv ==
    ASSUME Inv, NEW c \in Caller, NEW to \in Targets,
           NEW rotate \in BOOLEAN, NEW fenced \in BOOLEAN,
           NEW d \in {KeepSlice, Escalated},
           Transition(c, to, rotate, fenced, d)
    PROVE  Inv'
<1> DEFINE n == view[c].node
           live == bindings[n]
           epoch == IF rotate THEN view[c].epoch + 1 ELSE live.epoch
           token == IF rotate THEN epoch ELSE live.token
           slice == Patch(live.slice, d)
           row == MkRow(n, live.gen, live.gen + 1, live.state, to, epoch,
                        token, d)
           cand == [state |-> to, gen |-> live.gen + 1, epoch |-> epoch,
                    token |-> token, slice |-> slice, wm |-> NextSeq]
<1>1. epoch <= MaxEpoch /\ Begin(c, row, cand)
  BY DEF Transition
<1>2. n \in Node /\ view[c].epoch \in Nat
  BY DEF Inv, TypeOK, Transition, View
<1>3. live \in Binding /\ BindingOK(live)
  <2>1. live # NoBinding
    BY DEF Transition, CasHolds
  <2> QED
    BY <1>2, <2>1 DEF Inv, TypeOK, MaybeBinding, MapInv
<1>4. to \in KnownStates /\ NextSeq \in Nat
  BY TargetAssumption, NextSeqFresh DEF Inv, TypeOK, LogInv
<1>5. live.token = live.epoch /\ live # NoBinding
  BY <1>3 DEF BindingOK, Binding, NoBinding, KnownStates, NoState, Transition,
              CasHolds
<1>6. slice \in Slice /\ d \in Slice \cup {KeepSlice}
  BY <1>3, SliceAssumption DEF Patch, Binding
<1>7. epoch \in Nat /\ token = epoch
  BY <1>2, <1>3, <1>5 DEF Binding
<1>8. live.gen \in Nat /\ live.state \in KnownStates
  BY <1>3 DEF Binding
<1> HIDE DEF n, live, epoch, token, slice
<1>9. row \in Row /\ RowOK(row) /\ row.seq = NextSeq
  BY <1>1, <1>2, <1>4, <1>6, <1>7, <1>8 DEF MkRow, Row, RowOK
<1>10. cand \in MaybeBinding /\ BindingOK(cand)
  BY <1>1, <1>4, <1>6, <1>7, <1>8 DEF Binding, MaybeBinding, BindingOK
<1> HIDE DEF row, cand
<1> QED
  BY <1>1, <1>9, <1>10, BeginInv

\* The three mutations that leave the lifecycle alone: their rows have no
\* pre-image, or repeat the live binding's state, epoch and token.
LEMMA UnmovedInv ==
    ASSUME Inv, NEW c \in Caller,
           \/ StaleReturn(c)
           \/ \E n \in Node, d \in Slice : OwnSliceWrite(c, n, d)
           \/ \E n \in Node : Journal(c, n)
    PROVE  Inv'
<1>1. NextSeq \in Nat
  BY NextSeqFresh DEF Inv, TypeOK, LogInv
<1>2. \A m \in Node, e \in Slice \cup {KeepSlice} : bindings[m] # NoBinding =>
        LET live == bindings[m]
            row == MkRow(m, live.gen, live.gen, live.state, live.state,
                         live.epoch, live.token, e)
        IN  live \in Binding /\ BindingOK(live)
            /\ row \in Row /\ RowOK(row) /\ row.seq = NextSeq
  BY <1>1 DEF Inv, TypeOK, MapInv, MaybeBinding, Binding, BindingOK, MkRow,
              Row, RowOK
<1>3. NoBinding \in MaybeBinding /\ BindingOK(NoBinding)
  BY DEF MaybeBinding, BindingOK
<1>4. CASE StaleReturn(c)
  <2> DEFINE m == view[c].node
             live == bindings[m]
             row == MkRow(m, live.gen, live.gen, live.state, live.state,
                          live.epoch, live.token, KeepSlice)
  <2>1. live # NoBinding /\ Begin(c, row, NoBinding) /\ m \in Node
    BY <1>4 DEF StaleReturn, Inv, TypeOK, View
  <2>2. row \in Row /\ RowOK(row) /\ row.seq = NextSeq
    BY <1>2, <2>1
  <2> HIDE DEF row
  <2> QED
    BY <1>3, <2>1, <2>2, BeginInv
<1>5. ASSUME NEW n \in Node, NEW d \in Slice, OwnSliceWrite(c, n, d)
      PROVE  Inv'
  <2> DEFINE live == bindings[n]
             row == MkRow(n, live.gen, live.gen, live.state, live.state,
                          live.epoch, live.token, d)
             cand == [live EXCEPT !.slice = d, !.wm = NextSeq]
  <2>1. live # NoBinding /\ Begin(c, row, cand)
    BY <1>5 DEF OwnSliceWrite
  <2>2. row \in Row /\ RowOK(row) /\ row.seq = NextSeq
    BY <1>2, <2>1
  <2>3. cand \in MaybeBinding /\ BindingOK(cand)
    BY <1>1, <1>2, <2>1 DEF Binding, MaybeBinding, BindingOK
  <2> HIDE DEF row, cand
  <2> QED
    BY <2>1, <2>2, <2>3, BeginInv
<1>6. ASSUME NEW n \in Node, Journal(c, n)
      PROVE  Inv'
  <2> DEFINE row == MkRow(n, NoGen, NoGen, NoState, NoState, 0, 0, KeepSlice)
  <2>1. Begin(c, row, NoBinding)
    BY <1>6 DEF Journal
  <2>2. row \in Row /\ RowOK(row) /\ row.seq = NextSeq
    BY <1>1, BoundAssumption DEF MkRow, Row, RowOK
  <2> HIDE DEF row
  <2> QED
    BY <1>3, <2>1, <2>2, BeginInv
<1> QED
  BY <1>4, <1>5, <1>6

\* Healing drops a torn or unterminated tail: the row in flight, numbered
\* above every row a load returns, is then above every line of the file.
LEMMA HealInv ==
    ASSUME Inv, Heal
    PROVE  Inv'
<1> USE DEF Inv
<1> DEFINE L == [row : Row, intact : BOOLEAN]
<1>1. /\ op # Idle /\ op.stage = "heal" /\ terminated'
      /\ op' = [op EXCEPT !.stage = "append"]
      /\ UNCHANGED <<bindings, previous, phase, mem, pos, crashes, view, seed>>
  BY DEF Heal, boot
<1>2. /\ op'.stage = "append" /\ op'.row = op.row /\ op'.cand = op.cand
      /\ op' \in [stage : {"heal", "append", "checkpoint"}, caller : Caller,
                  row : Row, cand : MaybeBinding]
  BY <1>1 DEF TypeOK, Idle
<1>3. /\ lines \in Seq(L) /\ lines' \in Seq(L) /\ Len(lines) \in Nat
      /\ Len(lines') \in Nat /\ Len(lines') <= Len(lines)
      /\ ~terminated => Len(lines') = Len(lines) - 1
      /\ terminated => lines' = lines
      /\ \A i \in 1 .. Len(lines') : lines'[i] = lines[i]
  <2>1. CASE terminated
    BY <2>1 DEF Heal, TypeOK
  <2>2. CASE ~terminated
    <3>1. lines # <<>> /\ lines \in Seq(L) /\ lines' = Front(lines)
      BY <2>2 DEF Heal, TypeOK, LogInv
    <3>2. /\ Front(lines) \in Seq(L) /\ Len(Front(lines)) = Len(lines) - 1
          /\ \A i \in 1 .. Len(lines) - 1 : Front(lines)[i] = lines[i]
      BY <3>1, FrontProperties
    <3>3. Len(lines) \in Nat /\ Len(Front(lines)) \in Nat
      BY <3>1, <3>2, LenProperties
    <3> QED
      BY <2>2, <3>1, <3>2, <3>3
  <2> QED
    BY <2>1, <2>2
<1>4. TypeOK'
  BY <1>1, <1>2, <1>3 DEF TypeOK
<1>5. \A i \in 1 .. Len(lines') : lines'[i].intact
  <2>1. CASE terminated
    BY <1>3, <2>1 DEF LogInv, OnlyFinalLineTorn, Loadable, Last
  <2>2. CASE ~terminated
    BY <1>3, <2>2 DEF LogInv, OnlyFinalLineTorn, Loadable
  <2> QED
    BY <2>1, <2>2
<1>6. LogInv'
  <2>1. OnlyFinalLineTorn'
    BY <1>3, <1>5, EmptySeq DEF OnlyFinalLineTorn, Loadable, Last
  <2>2. SeqStrictlyRises'
    BY <1>3 DEF LogInv, SeqStrictlyRises
  <2> QED
    BY <1>1, <1>3, <2>1, <2>2 DEF LogInv
<1>7. Len(lines') <= Len(LoadWal)
  <2>1. Len(LoadWal) = IF lines # <<>> /\ ~Last(lines).intact
                       THEN Len(lines) - 1 ELSE Len(lines)
    BY <1>3, LoadWalRows
  <2>2. terminated => Len(LoadWal) = Len(lines)
    BY <2>1 DEF LogInv, OnlyFinalLineTorn
  <2> QED
    BY <1>3, <2>1, <2>2
<1>8. \A i \in 1 .. Len(lines') : lines'[i].row.seq < op.row.seq
  <2>1. \A i \in 1 .. Len(LoadWal) : LoadWal[i] = lines[i].row
    BY <1>3, LoadWalRows
  <2>2. \A i \in 1 .. Len(LoadWal) : LoadWal[i].seq < op.row.seq
    BY <1>1 DEF OpInv
  <2>3. Len(LoadWal) \in Nat
    BY <1>3, LoadWalRows, LenProperties
  <2> QED
    BY <1>3, <1>7, <2>1, <2>2, <2>3
<1>9. OpInv'
  BY <1>1, <1>2, <1>8 DEF OpInv
<1>10. MapInv' /\ SeedInv'
  BY <1>1 DEF MapInv, SeedInv
<1> QED
  BY <1>4, <1>6, <1>9, <1>10

\* A line with the number of the row in flight may follow all the others.
LEMMA AppendLine ==
    ASSUME Inv, op # Idle, op.stage = "append", NEW k \in BOOLEAN,
           lines' = Append(lines, [row |-> op.row, intact |-> k]),
           terminated' \in BOOLEAN, terminated' => k
    PROVE  LogInv' /\ lines' \in Seq([row : Row, intact : BOOLEAN])
<1> USE DEF Inv
<1> DEFINE L == [row : Row, intact : BOOLEAN]
           line == [row |-> op.row, intact |-> k]
<1>0. Len(lines) \in Nat
  BY LenProperties DEF TypeOK
<1>1. /\ lines \in Seq(L) /\ Len(lines) \in Nat
      /\ line \in L /\ lines' = Append(lines, line)
  BY LenProperties DEF TypeOK
<1>2. /\ lines' \in Seq(L) /\ Len(lines') = Len(lines) + 1
      /\ Len(lines) \in Nat /\ lines' # <<>>
      /\ \A i \in 1 .. Len(lines) : lines'[i] = lines[i]
      /\ lines'[Len(lines) + 1] = line
  <2> HIDE DEF line
  <2> QED
    BY <1>1, AppendProperties
<1>3. \A i \in 1 .. Len(lines) : lines[i].intact
  BY <1>1, <1>2 DEF OpInv, LogInv, OnlyFinalLineTorn, Loadable, Last
<1>4. OnlyFinalLineTorn'
  BY <1>2, <1>3 DEF OnlyFinalLineTorn, Loadable, Last
<1>5. SeqStrictlyRises'
  <2> SUFFICES ASSUME NEW i \in 1 .. Len(lines) + 1,
                      NEW j \in 1 .. Len(lines) + 1, i < j
               PROVE  lines'[i].row.seq < lines'[j].row.seq
    BY <1>2 DEF SeqStrictlyRises
  <2>1. CASE j = Len(lines) + 1
    BY <1>2, <2>1 DEF OpInv
  <2>2. CASE j \in 1 .. Len(lines)
    BY <1>2, <2>2 DEF LogInv, SeqStrictlyRises
  <2>3. j = Len(lines) + 1 \/ j \in 1 .. Len(lines)
    BY <1>0
  <2> QED
    BY <2>1, <2>2, <2>3
<1>6. \A i \in 1 .. Len(lines') : RowOK(lines'[i].row)
  BY <1>2 DEF LogInv, OpInv
<1>7. (lines = <<>> => terminated)'
  BY <1>2
<1> QED
  BY <1>2, <1>4, <1>5, <1>6, <1>7 DEF LogInv

\* The row in flight becomes the last line, whole and terminated; the mutation
\* is over or goes on to its checkpoint.
LEMMA AppendFrameInv ==
    ASSUME Inv, AppendFrame
    PROVE  Inv'
<1> USE DEF Inv
<1>1. /\ op # Idle /\ op.stage = "append" /\ terminated /\ terminated'
      /\ op' \in {Idle, [op EXCEPT !.stage = "checkpoint"]}
      /\ UNCHANGED <<bindings, previous, phase, mem, pos, crashes, view, seed>>
  BY DEF AppendFrame, OpInv, boot
<1>2. lines' = Append(lines, [row |-> op.row, intact |-> TRUE])
  BY <1>1 DEF AppendFrame, Framed
<1>3. LogInv' /\ lines' \in Seq([row : Row, intact : BOOLEAN])
  BY <1>1, <1>2, AppendLine
<1>4. op \in [stage : {"heal", "append", "checkpoint"}, caller : Caller,
              row : Row, cand : MaybeBinding]
  BY <1>1 DEF TypeOK
<1>5. TypeOK'
  <2>1. op' \in {Idle} \cup
                [stage : {"heal", "append", "checkpoint"}, caller : Caller,
                 row : Row, cand : MaybeBinding]
    BY <1>1, <1>4
  <2>2. terminated' = TRUE
    BY DEF AppendFrame
  <2> QED
    BY <1>1, <1>3, <2>1, <2>2 DEF TypeOK
<1>6. OpInv'
  BY <1>1, <1>4 DEF OpInv
<1>7. MapInv' /\ SeedInv'
  BY <1>1 DEF MapInv, SeedInv
<1> QED
  BY <1>3, <1>5, <1>6, <1>7

\* The file of bindings takes a well-formed map, the log stays as it is.
LEMMA ReplaceMapInv ==
    ASSUME Inv, NEW new \in [Node -> MaybeBinding],
           \A n \in Node : BindingOK(new[n]), ReplaceMap(new)
    PROVE  /\ bindings' \in [Node -> MaybeBinding]
           /\ previous' \in [Node -> MaybeBinding]
           /\ \A n \in Node : BindingOK(bindings'[n]) /\ BindingOK(previous'[n])
BY DEF ReplaceMap, Inv, TypeOK, MapInv

\* What leaves the file alone keeps the log well-formed.
LEMMA LogUnchanged ==
    ASSUME LogInv, UNCHANGED <<lines, terminated>>
    PROVE  LogInv'
BY DEF LogInv, OnlyFinalLineTorn, Loadable, SeqStrictlyRises

\* What leaves the file and the mutation in flight alone keeps the number of
\* the row in flight fresh.
LEMMA OpUnchanged ==
    ASSUME OpInv, UNCHANGED <<lines, terminated, op>>
    PROVE  OpInv'
<1>1. LoadWal' = LoadWal
  BY DEF LoadWal
<1> QED
  BY <1>1 DEF OpInv

\* The checkpoint puts the candidate, which is well-formed, into the map and
\* ends the mutation.
LEMMA CheckpointInv ==
    ASSUME Inv, Checkpoint
    PROVE  Inv'
<1> USE DEF Inv
<1> DEFINE new == [bindings EXCEPT ![op.row.node] = op.cand]
<1>1. /\ op # Idle /\ op' = Idle /\ ReplaceMap(new)
      /\ UNCHANGED <<lines, terminated, phase, mem, pos, crashes, view, seed>>
  BY DEF Checkpoint, boot
<1>2. /\ op.cand \in MaybeBinding /\ op.row.node \in Node
      /\ BindingOK(op.cand)
  BY <1>1 DEF TypeOK, OpInv, Row
<1>3. new \in [Node -> MaybeBinding] /\ \A n \in Node : BindingOK(new[n])
  BY <1>2 DEF TypeOK, MapInv
<1> HIDE DEF new
<1>4. /\ bindings' \in [Node -> MaybeBinding]
      /\ previous' \in [Node -> MaybeBinding]
      /\ \A n \in Node : BindingOK(bindings'[n]) /\ BindingOK(previous'[n])
  BY <1>1, <1>3, ReplaceMapInv
<1>5. TypeOK' /\ MapInv' /\ OpInv' /\ SeedInv'
  BY <1>1, <1>4 DEF TypeOK, MapInv, OpInv, SeedInv
<1> QED
  BY <1>1, <1>5, LogUnchanged

\* Seeding a registration: the seed's epoch is within the bound.
LEMMA BeginRegisterInv ==
    ASSUME Inv, NEW c \in Caller, NEW n \in Node, BeginRegister(c, n)
    PROVE  Inv'
<1> USE DEF Inv
<1>1. /\ IdentitySeed(n).epoch <= MaxEpoch
      /\ seed' = [seed EXCEPT ![c] = IdentitySeed(n)]
      /\ view' = [view EXCEPT ![c] = NoView]
      /\ UNCHANGED <<lines, terminated, bindings, previous, phase, mem, pos,
                     crashes, op>>
  BY DEF BeginRegister, disk, boot
<1>2. IdentitySeed(n) \in [node : Node, epoch : Nat, wm : Nat]
  BY IdentitySeedType
<1>3. TypeOK' /\ MapInv' /\ SeedInv'
  BY <1>1, <1>2 DEF TypeOK, MapInv, SeedInv
<1>4. LogInv' /\ OpInv'
  BY <1>1, LogUnchanged DEF OpInv, LoadWal
<1> QED
  BY <1>3, <1>4

\* A registration puts a new binding, its token minted at the seed's epoch,
\* into the map.
LEMMA RegisterInv ==
    ASSUME Inv, NEW c \in Caller, Register(c)
    PROVE  Inv'
<1> USE DEF Inv
<1> DEFINE new == [bindings EXCEPT ![seed[c].node] = Registered(seed[c])]
<1>1. /\ seed[c] # NoSeed /\ ReplaceMap(new) /\ op = Idle
      /\ seed' = [seed EXCEPT ![c] = NoSeed]
      /\ UNCHANGED <<lines, terminated, phase, mem, pos, crashes, op, view>>
  BY DEF Register, boot
<1>2. /\ seed[c] \in [node : Node, epoch : Nat, wm : Nat]
      /\ seed[c].epoch <= MaxEpoch
  BY <1>1 DEF TypeOK, SeedInv
<1>3. /\ Registered(seed[c]) \in MaybeBinding
      /\ BindingOK(Registered(seed[c]))
  BY <1>2, SliceAssumption
     DEF Registered, MaybeBinding, Binding, BindingOK, KnownStates
<1>4. new \in [Node -> MaybeBinding] /\ \A n \in Node : BindingOK(new[n])
  BY <1>2, <1>3 DEF TypeOK, MapInv
<1> HIDE DEF new
<1>5. /\ bindings' \in [Node -> MaybeBinding]
      /\ previous' \in [Node -> MaybeBinding]
      /\ \A n \in Node : BindingOK(bindings'[n]) /\ BindingOK(previous'[n])
  BY <1>1, <1>4, ReplaceMapInv
<1>6. TypeOK' /\ MapInv' /\ OpInv' /\ SeedInv'
  BY <1>1, <1>5 DEF TypeOK, MapInv, OpInv, SeedInv
<1> QED
  BY <1>1, <1>6, LogUnchanged

\* A crash leaves the log as it was, or a frame longer and unterminated.
LEMMA CrashInv ==
    ASSUME Inv, Crash
    PROVE  Inv'
<1> USE DEF Inv
<1>1. /\ op' = Idle /\ phase' = "down" /\ pos' = 1 /\ crashes' = crashes + 1
      /\ mem' = [n \in Node |-> NoBinding]
      /\ seed' = [c \in Caller |-> NoSeed] /\ view' = view
      /\ bindings' \in {bindings, previous} /\ previous' = bindings'
  BY DEF Crash
<1>2. /\ LogInv' /\ terminated' \in BOOLEAN
      /\ lines' \in Seq([row : Row, intact : BOOLEAN])
  <2>1. PICK f \in {[lines |-> lines, terminated |-> terminated]} \cup CutFrame :
            lines' = f.lines /\ terminated' = f.terminated
    BY DEF Crash
  <2>2. CASE f = [lines |-> lines, terminated |-> terminated]
    <3>1. UNCHANGED <<lines, terminated>>
      BY <2>1, <2>2
    <3> QED
      BY <3>1, LogUnchanged DEF TypeOK
  <2>3. CASE f \in CutFrame
    <3>1. op # Idle /\ op.stage = "append"
      BY <2>3 DEF CutFrame
    <3>2. PICK k \in {"torn", "unterminated"} :
            f = [lines |-> Append(lines, [row |-> op.row,
                                          intact |-> k = "unterminated"]),
                 terminated |-> FALSE]
      BY <2>3, <3>1 DEF CutFrame
    <3>3. /\ terminated' = FALSE
          /\ lines' = Append(lines, [row |-> op.row,
                                     intact |-> k = "unterminated"])
      BY <2>1, <3>2
    <3>4. (k = "unterminated") \in BOOLEAN
      OBVIOUS
    <3> QED
      BY <3>1, <3>3, <3>4, AppendLine
  <2> QED
    BY <2>1, <2>2, <2>3
<1>3. TypeOK' /\ MapInv' /\ OpInv' /\ SeedInv'
  BY <1>1, <1>2 DEF TypeOK, MapInv, OpInv, SeedInv, MaybeBinding, BindingOK
<1> QED
  BY <1>2, <1>3

\* The three phases of a boot: the map in memory is well-formed while rows
\* are replayed into it, and is what the checkpoint writes.
LEMMA BootInv ==
    ASSUME Inv, Boot
    PROVE  Inv'
<1> USE DEF Inv
<1>1. CASE BootLoad
  <2>1. /\ phase' = "replaying" /\ mem' = bindings /\ pos' = 1
        /\ UNCHANGED <<lines, terminated, bindings, previous, op, view, seed,
                       crashes>>
    BY <1>1 DEF BootLoad, disk
  <2>2. TypeOK' /\ MapInv' /\ SeedInv'
    BY <2>1 DEF TypeOK, MapInv, SeedInv
  <2> QED
    BY <2>1, <2>2, LogUnchanged, OpUnchanged
<1>2. CASE BootReplay
  <2>0. /\ pos \in DOMAIN LoadWal
        /\ mem' = ReplayRow(mem, LoadWal[pos])
    BY <1>2 DEF BootReplay
  <2>1. /\ pos' = pos + 1
        /\ UNCHANGED <<lines, terminated, bindings, previous, phase, crashes,
                       op, view, seed>>
    BY <1>2 DEF BootReplay, disk
  <2>2. LoadWal[pos] \in Row /\ RowOK(LoadWal[pos])
    <3>1. /\ LoadWal \in Seq(Row) /\ DOMAIN LoadWal = 1 .. Len(LoadWal)
          /\ Len(LoadWal) <= Len(lines)
          /\ LoadWal[pos] = lines[pos].row
      BY <2>0, LoadWalRows, LenProperties DEF TypeOK
    <3>2. pos \in 1 .. Len(lines)
      BY <2>0, <3>1, LenProperties DEF TypeOK
    <3> QED
      BY <2>0, <3>1, <3>2, ElementOfSeq DEF LogInv
  <2>3. /\ mem' \in [Node -> MaybeBinding]
        /\ \A n \in Node : BindingOK(mem'[n])
    BY <2>0, <2>2, ReplayRowInv DEF TypeOK, MapInv
  <2>4. TypeOK' /\ MapInv' /\ SeedInv'
    BY <2>1, <2>3 DEF TypeOK, MapInv, SeedInv
  <2> QED
    BY <2>1, <2>4, LogUnchanged, OpUnchanged
<1>3. CASE BootCheckpoint
  <2>1. /\ ReplaceMap(mem) /\ phase' = "serving" /\ pos' = 1
        /\ mem' = [n \in Node |-> NoBinding]
        /\ UNCHANGED <<lines, terminated, crashes, op, view, seed>>
    BY <1>3 DEF BootCheckpoint
  <2>2. /\ bindings' \in [Node -> MaybeBinding]
        /\ previous' \in [Node -> MaybeBinding]
        /\ \A n \in Node : BindingOK(bindings'[n]) /\ BindingOK(previous'[n])
    BY <2>1, ReplaceMapInv DEF TypeOK, MapInv
  <2>3. TypeOK' /\ MapInv' /\ SeedInv'
    BY <2>1, <2>2 DEF TypeOK, MapInv, SeedInv, MaybeBinding, BindingOK
  <2> QED
    BY <2>1, <2>3, LogUnchanged, OpUnchanged
<1> QED
  BY <1>1, <1>2, <1>3 DEF Boot

\* A stuttering step changes nothing the invariant speaks of.
LEMMA StutterInv ==
    ASSUME Inv, UNCHANGED vars
    PROVE  Inv'
<1>1. UNCHANGED <<lines, terminated, bindings, previous, phase, mem, pos,
                  crashes, op, view, seed>>
  BY DEF vars, disk, boot
<1>2. TypeOK' /\ MapInv' /\ SeedInv'
  BY <1>1 DEF Inv, TypeOK, MapInv, SeedInv
<1> QED
  BY <1>1, <1>2, LogUnchanged, OpUnchanged DEF Inv

\* Every step of the specification preserves the invariant.
LEMMA NextInv == Inv /\ [Next]_vars => Inv'
<1> SUFFICES ASSUME Inv, [Next]_vars PROVE Inv'
  OBVIOUS
<1>1. CASE \E c \in Caller, n \in Node : Read(c, n)
  BY <1>1, ReadInv
<1>2. CASE Mutate
  BY <1>2, TransitionInv, UnmovedInv DEF Mutate
<1>3. CASE Disk
  BY <1>3, HealInv, AppendFrameInv, CheckpointInv DEF Disk
<1>4. CASE Enrol
  BY <1>4, RegisterInv, BeginRegisterInv DEF Enrol
<1>5. CASE Crash
  BY <1>5, CrashInv
<1>6. CASE Boot
  BY <1>6, BootInv
<1>7. CASE UNCHANGED vars
  BY <1>7, StutterInv
<1> QED
  BY <1>1, <1>2, <1>3, <1>4, <1>5, <1>6, <1>7 DEF Next

\* The inductive invariant is an invariant of the executor, its callers, the
\* crashes and the boots.
THEOREM Invariance == Spec => []Inv
<1>1. Init => Inv
  BY InitInv
<1>2. Inv /\ [Next]_vars => Inv'
  BY NextInv
<1> QED
  BY <1>1, <1>2, PTL DEF Spec

-----------------------------------------------------------------------------
(* The theorems. *)

\* Every variable keeps its type, whatever is replayed, seeded or torn.
THEOREM TypeCorrect == Spec => []TypeOK
<1>1. Inv => TypeOK
  BY DEF Inv
<1> QED
  BY <1>1, Invariance, PTL

\* However often the daemon dies in an append and with however many nodes and
\* callers, only the final line of the log can be torn: load_wal never fails
\* closed on the daemon's own log.
THEOREM TornOnlyAtTheEnd == Spec => []OnlyFinalLineTorn
<1>1. Inv => OnlyFinalLineTorn
  BY DEF Inv, LogInv
<1> QED
  BY <1>1, Invariance, PTL

\* next_seq never hands out a number that a line of the log already bears.
THEOREM NumbersRise == Spec => []SeqStrictlyRises
<1>1. Inv => SeqStrictlyRises
  BY DEF Inv, LogInv
<1> QED
  BY <1>1, Invariance, PTL

\* An owner token is never separated from the lease epoch it was minted at,
\* in the file or in a replay, for any interleaving of callers and crashes.
THEOREM TokenAndEpochTogether == Spec => []TokenMintedAtEpoch
<1>1. Inv => TokenMintedAtEpoch
  BY DEF Inv, MapInv, BindingOK, TokenMintedAtEpoch
<1> QED
  BY <1>1, Invariance, PTL
=============================================================================
