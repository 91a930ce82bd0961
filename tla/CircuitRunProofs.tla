-------------------------- MODULE CircuitRunProofs --------------------------
(***************************************************************************)
(* A circuit from the transpiler to the simulator: what is proved of the   *)
(* passes between them, for every stream, target, level and width.         *)
(*                                                                         *)
(* A rule writes commands of the factories' shape, so every stream the run *)
(* meets has them. fuse_for_simulation keeps the order the program depends *)
(* on. The optimiser's graphs keep their links exact, and are written out  *)
(* in an order that turns no edge round. cancel_wire_adjacent stops at a   *)
(* fixpoint: every node its rules apply to is on the worklist of a running *)
(* call, because an edit makes them apply to what precedes a removed node  *)
(* on one of its wires and to nothing else.                                *)
(* A stream is refused only for a cause: every rule leads to gates nearer  *)
(* to the target, and the passes keep it in the target and its branch      *)
(* regions whole.                                                          *)
(* Two commands whose order matters never change places: every command     *)
(* knows which input commands it stands for, and each removal, merge,      *)
(* slide, body, fusion and dispatch is shown to keep their order.          *)
(***************************************************************************)
EXTENDS CircuitRun, StreamProofs

-----------------------------------------------------------------------------
(* Programs                                                                *)

\* Giving every command its place as its origin.
LEMMA TaggedShaped ==
  ASSUME NEW s, ShapedStream(s)
  PROVE  ShapedStream(Tagged(s))
<1> DEFINE f == [i \in DOMAIN s |-> [s[i] EXCEPT !.origin = {i}]]
<1>1. f = [i \in DOMAIN s |-> f[i]] /\ \A i \in DOMAIN s : f[i] = [s[i] EXCEPT !.origin = {i}]
  OBVIOUS
<1>2. Tagged(s) = f
  BY DEF Tagged
<1> HIDE DEF f
<1>3. Listed(s) /\ \A i \in DOMAIN s : Shaped(s[i])
  BY DEF ShapedStream
<1>4. Listed(f) /\ DOMAIN f = DOMAIN s
  BY <1>1, <1>3, MappedListed
<1>5. ASSUME NEW i \in DOMAIN s PROVE Shaped(f[i])
  <2> DEFINE c == s[i]
             d == f[i]
  <2>1. Shaped(c) /\ d = [c EXCEPT !.origin = {i}]
    BY <1>1, <1>3
  <2> HIDE DEF c, d
  <2>2. Shaped(d)
    BY <2>1, ShapedOrigin
  <2> QED
    BY <2>2 DEF d
<1> QED
  BY <1>2, <1>4, <1>5 DEF ShapedStream

-----------------------------------------------------------------------------
(* Fusion: the order of blocks                                              *)

Rising(g) == \A k, l \in DOMAIN g : k < l => g[k] < g[l]

Shares(i, j) == WiresOf(source[i]) \cap WiresOf(source[j]) # {}

\* No conflicting pair of g and h is inverted when g is sent out before h.
Before(g, h) ==
  \A k \in DOMAIN g, l \in DOMAIN h :
    Conflict(source[g[k]], source[h[l]]) => g[k] < h[l]

\* The same for every pair that shares a wire.
WireBefore(g, h) ==
  \A k \in DOMAIN g, l \in DOMAIN h : Shares(g[k], h[l]) => g[k] < h[l]

Scanned(g) == g \in Seq(1 .. at - 1) /\ Rising(g)

BlockOK(b) ==
  /\ b = [id |-> b.id, qubits |-> b.qubits, wires |-> b.wires, gates |-> b.gates,
          cond |-> b.cond]
  /\ b.id \in Nat /\ b.id < nextId
  /\ Scanned(b.gates)
  /\ \A k \in DOMAIN b.gates :
       IsFusible(source[b.gates[k]]) /\ WiresOf(source[b.gates[k]]) \subseteq b.wires
  /\ \A w \in b.wires : w \in DOMAIN front /\ b.id =< front[w]

ScanOK ==
  /\ FactoryMade(source)
  /\ at \in Nat \ {0} /\ at =< Len(source) + 1
  /\ nextId \in Nat
  /\ front \in [AllWires(source) -> Nat]

OpenOK ==
  /\ \A b \in open : BlockOK(b)
  /\ \A a, b \in open : a.id = b.id => a = b
  /\ \A a, b \in open : a.id < b.id => WireBefore(a.gates, b.gates)

DoneOK ==
  /\ done \in Seq(Seq(1 .. at - 1))
  /\ \A m \in DOMAIN done : Rising(done[m])
  /\ \A m, n \in DOMAIN done : m < n => Before(done[m], done[n])
  /\ \A m \in DOMAIN done, b \in open : Before(done[m], b.gates)

FuseInv == ScanOK /\ OpenOK /\ DoneOK

-----------------------------------------------------------------------------
\* Two gates a block may hold conflict only over a common wire.
LEMMA FusibleConflict ==
  ASSUME FactoryMade(source), NEW i \in DOMAIN source, NEW j \in DOMAIN source,
         IsFusible(source[i]), IsFusible(source[j]), Conflict(source[i], source[j])
  PROVE  Shares(i, j)
<1>1. \A k \in {i, j} :
        /\ source[k].cbits = <<>> /\ Range(source[k].cbits) = {}
        /\ ~ FencesAll(source[k])
  BY DEF FactoryMade, IsFusible, FencesAll, IsFence, Range
<1>2. PICK q : q \in Operands(source[i]) /\ q \in Operands(source[j])
  BY <1>1 DEF Conflict
<1>3. <<"qubit", q>> \in WiresOf(source[i]) /\ <<"qubit", q>> \in WiresOf(source[j])
  BY <1>2 DEF WiresOf
<1> QED
  BY <1>3 DEF Shares

\* A command that flushed its wires conflicts with no gate on other wires.
LEMMA PlacedConflict ==
  ASSUME FactoryMade(source), NEW i \in DOMAIN source, NEW j \in DOMAIN source,
         ~ FencesAll(source[i]), IsFusible(source[j]), Conflict(source[i], source[j])
  PROVE  Shares(i, j)
<1> DEFINE c == source[i]
           d == source[j]
<1>1. d.cbits = <<>> /\ Range(d.cbits) = {} /\ ~ FencesAll(d)
  BY DEF FactoryMade, IsFusible, FencesAll, IsFence, Range
<1>2. Range(c.cbits) \subseteq c.bits
  BY DEF FactoryMade
<1>3. CASE Operands(c) \cap Operands(d) # {}
  <2>1. PICK q : q \in Operands(c) /\ q \in Operands(d)
    BY <1>3
  <2>2. <<"qubit", q>> \in WiresOf(c) /\ <<"qubit", q>> \in WiresOf(d)
    BY <2>1 DEF WiresOf
  <2> QED
    BY <2>2 DEF Shares
<1>4. CASE Range(c.cbits) \cap d.bits # {}
  <2>1. PICK x : x \in c.bits /\ x \in d.bits
    BY <1>2, <1>4
  <2>2. <<"cbit", x>> \in WiresOf(c) /\ <<"cbit", x>> \in WiresOf(d)
    BY <2>1 DEF WiresOf
  <2> QED
    BY <2>2 DEF Shares
<1>5. Operands(c) \cap Operands(d) # {} \/ Range(c.cbits) \cap d.bits # {}
  BY <1>1 DEF Conflict
<1> QED
  BY <1>3, <1>4, <1>5

LEMMA GPhaseConflict ==
  ASSUME FactoryMade(source), NEW i \in DOMAIN source, NEW j \in DOMAIN source,
         source[i].gate = "GPhase", IsFusible(source[j])
  PROVE  ~ Conflict(source[i], source[j])
<1>1. /\ source[i].cbits = <<>> /\ Range(source[i].cbits) = {}
      /\ source[j].cbits = <<>> /\ Range(source[j].cbits) = {}
  BY DEF FactoryMade, IsFusible, Range
<1>2. Operands(source[i]) = {}
  BY DEF FactoryMade, Operands
<1>3. ~ FencesAll(source[i]) /\ ~ FencesAll(source[j])
  BY DEF FencesAll, IsFence, Markers, IsFusible
<1> QED
  BY <1>1, <1>2, <1>3 DEF Conflict

\* flush_wires sends out what is on the wires, and before each block the
\* earlier ones that share a wire with it.
LEMMA MustPrecedeCloses ==
  ASSUME NEW ws
  PROVE  MustPrecede(ws) \subseteq open /\ ClosedFor(MustPrecede(ws), ws)
<1> DEFINE P == MustPrecede(ws)
<1>1. P \subseteq open
  BY DEF MustPrecede
<1>2. ASSUME NEW b \in open, b.wires \cap ws # {}
      PROVE  b \in P
  BY <1>2 DEF MustPrecede, ClosedFor
<1>3. ASSUME NEW b \in P, NEW a \in open, a.id < b.id, a.wires \cap b.wires # {}
      PROVE  a \in P
  <2>1. ASSUME NEW M \in SUBSET open, ClosedFor(M, ws)
        PROVE  a \in M
    <3>1. b \in M
      BY <2>1 DEF MustPrecede
    <3> QED
      BY <1>3, <2>1, <3>1 DEF ClosedFor
  <2> QED
    BY <2>1 DEF MustPrecede
<1> QED
  BY <1>1, <1>2, <1>3 DEF ClosedFor

LEMMA SeqWider ==
  ASSUME NEW P, NEW Q, P \subseteq Q, NEW g \in Seq(P)
  PROVE  g \in Seq(Q)
OBVIOUS

LEMMA OneFurther ==
  ASSUME NEW n \in Nat \ {0}
  PROVE  Seq(1 .. n - 1) \subseteq Seq(1 .. n) /\ (n + 1) - 1 = n
<1> DEFINE P == 1 .. n - 1
           Q == 1 .. n
<1>1. P \subseteq Q /\ (n + 1) - 1 = n
  OBVIOUS
<1> HIDE DEF P, Q
<1>2. Seq(P) \subseteq Seq(Q)
  BY <1>1
<1> QED
  BY <1>1, <1>2 DEF P, Q

\* A position scanned so far is one of the source.
LEMMA ScannedInSource ==
  ASSUME ScanOK, NEW g \in Seq(1 .. at - 1), NEW k \in DOMAIN g
  PROVE  g[k] \in DOMAIN source /\ g[k] \in Nat /\ g[k] < at
<1>1. g[k] \in 1 .. at - 1
  <2> DEFINE P == 1 .. at - 1
  <2> HIDE DEF P
  <2>1. g \in Seq(P)
    BY DEF P
  <2>2. g[k] \in P
    BY <2>1
  <2> QED
    BY <2>2 DEF P
<1>2. DOMAIN source = 1 .. Len(source) /\ Len(source) \in Nat
  BY DEF ScanOK, FactoryMade
<1> QED
  BY <1>1, <1>2 DEF ScanOK

\* Everything scanned comes before the command at hand.
LEMMA BeforeAt ==
  ASSUME ScanOK, NEW g \in Seq(1 .. at - 1), NEW h \in Seq(1 .. at - 1), Before(g, h)
  PROVE  Before(g, <<at>>) /\ Before(g, Append(h, at))
<1>1. \A k \in DOMAIN g : g[k] \in Nat /\ g[k] < at
  BY ScannedInSource
<1>2. \A l \in DOMAIN Append(h, at) :
        Append(h, at)[l] = at \/ (l \in DOMAIN h /\ Append(h, at)[l] = h[l])
  OBVIOUS
<1> QED
  BY <1>1, <1>2 DEF Before

\* What Append does to a list sent out.
LEMMA SendKeepsDone ==
  ASSUME DoneOK, at \in Nat \ {0}, NEW N \in Nat, at - 1 =< N,
         NEW g \in Seq(1 .. N), Rising(g),
         \A m \in DOMAIN done : Before(done[m], g)
  PROVE  LET d == Append(done, g) IN
         /\ d \in Seq(Seq(1 .. N))
         /\ \A m \in DOMAIN d : Rising(d[m])
         /\ \A m, n \in DOMAIN d : m < n => Before(d[m], d[n])
         /\ \A m \in DOMAIN d : d[m] = g \/ (m \in DOMAIN done /\ d[m] = done[m])
<1> DEFINE d == Append(done, g)
<1>1. done \in Seq(Seq(1 .. N))
  <2>1. 1 .. at - 1 \subseteq 1 .. N
    OBVIOUS
  <2>2. Seq(1 .. at - 1) \subseteq Seq(1 .. N)
    BY <2>1
  <2> QED
    BY <2>2 DEF DoneOK
<1>2. /\ d \in Seq(Seq(1 .. N)) /\ DOMAIN d = 1 .. Len(done) + 1 /\ Len(done) \in Nat
      /\ DOMAIN done = 1 .. Len(done)
      /\ d[Len(done) + 1] = g /\ \A m \in DOMAIN done : d[m] = done[m]
  BY <1>1
<1>3. \A m \in DOMAIN d : m \in DOMAIN done \/ m = Len(done) + 1
  BY <1>2
<1> HIDE DEF d
<1>4. \A m \in DOMAIN d : Rising(d[m])
  BY <1>2, <1>3 DEF DoneOK
<1>5. ASSUME NEW m \in DOMAIN d, NEW n \in DOMAIN d, m < n
      PROVE  Before(d[m], d[n])
  <2>1. m \in DOMAIN done /\ d[m] = done[m]
    BY <1>2, <1>5
  <2>2. CASE n \in DOMAIN done
    BY <1>2, <1>5, <2>1, <2>2 DEF DoneOK
  <2>3. CASE n = Len(done) + 1
    BY <1>2, <2>1, <2>3
  <2> QED
    BY <1>3, <2>2, <2>3
<1> QED
  BY <1>2, <1>3, <1>4, <1>5 DEF d

-----------------------------------------------------------------------------
\* A block is sent out: its gates come after everything sent out before and
\* before every gate of the open blocks that conflicts with one of them.
LEMMA EmitBlockKeeps ==
  ASSUME FuseInv, EmitBlock
  PROVE  FuseInv'
<1>1. PICK b \in ToFlush :
        /\ \A o \in ToFlush : b.id =< o.id
        /\ open' = open \ {b}
        /\ done' = Append(done, b.gates)
  BY DEF EmitBlock
<1>2. UNCHANGED <<source, at, front, nextId>>
  BY DEF EmitBlock
<1>3. \/ ToFlush = open
      \/ ToFlush = {}
      \/ ToFlush = MustPrecede(WiresOf(source[at]))
  BY DEF ToFlush
<1>4. b \in open
  BY <1>1, <1>3, MustPrecedeCloses
<1>5. BlockOK(b) /\ b.gates \in Seq(1 .. at - 1) /\ Rising(b.gates)
  BY <1>4 DEF FuseInv, OpenOK, BlockOK, Scanned
<1>6. ASSUME NEW o \in open, o # b
      PROVE  Before(b.gates, o.gates)
  <2>1. BlockOK(o) /\ o.gates \in Seq(1 .. at - 1)
    BY DEF FuseInv, OpenOK, BlockOK, Scanned
  <2>2. CASE b.id < o.id
    <3>1. WireBefore(b.gates, o.gates)
      BY <1>4, <2>2 DEF FuseInv, OpenOK
    <3>2. ASSUME NEW k \in DOMAIN b.gates, NEW l \in DOMAIN o.gates,
                 Conflict(source[b.gates[k]], source[o.gates[l]])
          PROVE  b.gates[k] < o.gates[l]
      <4>1. b.gates[k] \in DOMAIN source /\ o.gates[l] \in DOMAIN source
        BY <1>5, <2>1, ScannedInSource DEF FuseInv
      <4>2. Shares(b.gates[k], o.gates[l])
        BY <1>5, <2>1, <3>2, <4>1, FusibleConflict DEF BlockOK, FuseInv, ScanOK
      <4> QED
        BY <3>1, <4>2 DEF WireBefore
    <3> QED
      BY <3>2 DEF Before
  <2>3. CASE o.id < b.id
    <3>1. o \notin ToFlush
      BY <1>1, <2>1, <2>3, <1>5 DEF BlockOK
    <3>2. ToFlush = MustPrecede(WiresOf(source[at]))
      BY <1>1, <1>3, <3>1
    <3>3. o.wires \cap b.wires = {}
      BY <1>1, <2>3, <3>1, <3>2, MustPrecedeCloses DEF ClosedFor
    <3>4. ASSUME NEW k \in DOMAIN b.gates, NEW l \in DOMAIN o.gates
          PROVE  ~ Conflict(source[b.gates[k]], source[o.gates[l]])
      <4>1. b.gates[k] \in DOMAIN source /\ o.gates[l] \in DOMAIN source
        BY <1>5, <2>1, ScannedInSource DEF FuseInv
      <4>2. ~ Shares(b.gates[k], o.gates[l])
        BY <1>5, <2>1, <3>3 DEF Shares, BlockOK
      <4> QED
        BY <1>5, <2>1, <4>1, <4>2, FusibleConflict DEF BlockOK, FuseInv, ScanOK
    <3> QED
      BY <3>4 DEF Before
  <2>4. CASE o.id = b.id
    BY <1>4, <1>6, <2>4 DEF FuseInv, OpenOK
  <2>5. o.id \in Nat /\ b.id \in Nat
    BY <1>5, <2>1 DEF BlockOK
  <2> QED
    BY <2>2, <2>3, <2>4, <2>5
<1>7. ScanOK'
  BY <1>2 DEF FuseInv, ScanOK
<1>8. OpenOK'
  BY <1>1, <1>2 DEF FuseInv, OpenOK, BlockOK, Scanned, WireBefore, Shares
<1>9. DoneOK'
  <2>1. \A m \in DOMAIN done : Before(done[m], b.gates)
    BY <1>4 DEF FuseInv, DoneOK
  <2>2. at \in Nat \ {0} /\ at - 1 \in Nat
    BY DEF FuseInv, ScanOK
  <2>3. /\ done' \in Seq(Seq(1 .. at - 1))
        /\ \A m \in DOMAIN done' : Rising(done'[m])
        /\ \A m, n \in DOMAIN done' : m < n => Before(done'[m], done'[n])
        /\ \A m \in DOMAIN done' : done'[m] = b.gates \/ (m \in DOMAIN done /\ done'[m] = done[m])
    BY <1>1, <1>5, <2>1, <2>2, SendKeepsDone DEF FuseInv
  <2>4. \A m \in DOMAIN done', o \in open' : Before(done'[m], o.gates)
    BY <1>1, <1>6, <2>3 DEF FuseInv, DoneOK
  <2> QED
    BY <1>2, <2>3, <2>4 DEF DoneOK, Before
<1> QED
  BY <1>7, <1>8, <1>9 DEF FuseInv

\* A command is placed: no gate of an open block conflicts with it.
LEMMA PlaceKeeps ==
  ASSUME FuseInv, Place
  PROVE  FuseInv'
<1>1. /\ at =< Len(source) /\ ToFlush = {} /\ ~ IsFusible(source[at])
      /\ done' = Append(done, <<at>>) /\ at' = at + 1
      /\ UNCHANGED <<source, open>>
  BY DEF Place
<1>2. /\ at \in Nat \ {0} /\ at \in DOMAIN source /\ FactoryMade(source) /\ nextId \in Nat
      /\ Len(source) \in Nat
  BY <1>1 DEF FuseInv, ScanOK, FactoryMade
<1>3. /\ nextId' \in Nat /\ nextId =< nextId'
      /\ front' \in [AllWires(source) -> Nat]
      /\ \A w \in AllWires(source) : front[w] =< front'[w] \/ nextId =< front'[w]
  <2>1. CASE source[at].gate = "GPhase" \/ FencesAll(source[at])
    BY <2>1, <1>2 DEF Place, FuseInv, ScanOK
  <2>2. CASE ~ (source[at].gate = "GPhase" \/ FencesAll(source[at]))
    BY <2>2, <1>2 DEF Place, FuseInv, ScanOK, Stamp
  <2> QED
    BY <2>1, <2>2
<1>4. ASSUME NEW b \in open
      PROVE  Before(<<at>>, b.gates)
  <2>1. BlockOK(b) /\ b.gates \in Seq(1 .. at - 1)
    BY DEF FuseInv, OpenOK, BlockOK, Scanned
  <2>2. ~ FencesAll(source[at])
    BY <1>1, <1>4 DEF ToFlush
  <2>3. ASSUME NEW l \in DOMAIN b.gates
        PROVE  ~ Conflict(source[at], source[b.gates[l]])
    <3>1. b.gates[l] \in DOMAIN source /\ IsFusible(source[b.gates[l]])
      BY <2>1, ScannedInSource DEF FuseInv, BlockOK
    <3>2. CASE source[at].gate = "GPhase"
      BY <1>2, <3>1, <3>2, GPhaseConflict
    <3>3. CASE source[at].gate # "GPhase"
      <4>1. MustPrecede(WiresOf(source[at])) = {}
        BY <1>1, <1>2, <2>2, <3>3 DEF ToFlush
      <4>2. b.wires \cap WiresOf(source[at]) = {}
        BY <4>1, MustPrecedeCloses DEF ClosedFor
      <4>3. ~ Shares(at, b.gates[l])
        BY <2>1, <4>2 DEF Shares, BlockOK
      <4> QED
        BY <1>2, <2>2, <3>1, <4>3, PlacedConflict
    <3> QED
      BY <3>2, <3>3
  <2> QED
    BY <2>3 DEF Before
<1>5. ScanOK'
  BY <1>1, <1>2, <1>3 DEF FuseInv, ScanOK
<1>6. OpenOK'
  <2>1. ASSUME NEW b \in open
        PROVE  BlockOK(b)'
    <3>1. BlockOK(b)
      BY DEF FuseInv, OpenOK
    <3>2. Scanned(b.gates)'
      <4>1. b.gates \in Seq(1 .. at - 1) /\ Rising(b.gates)
        BY <3>1 DEF BlockOK, Scanned
      <4>3. b.gates \in Seq(1 .. at' - 1)
        BY <1>1, <1>2, <4>1, OneFurther
      <4> QED
        BY <4>1, <4>3 DEF Scanned, Rising
    <3>3. \A w \in b.wires : w \in DOMAIN front' /\ b.id =< front'[w]
      BY <1>2, <1>3, <3>1 DEF BlockOK, FuseInv, ScanOK
    <3>4. b.id \in Nat /\ b.id < nextId'
      BY <1>2, <1>3, <3>1 DEF BlockOK
    <3> QED
      BY <1>1, <3>1, <3>2, <3>3, <3>4 DEF BlockOK
  <2>2. /\ \A a, b \in open' : a.id = b.id => a = b
        /\ \A a, b \in open' : a.id < b.id => WireBefore(a.gates, b.gates)'
    BY <1>1 DEF FuseInv, OpenOK, WireBefore, Shares
  <2> QED
    BY <1>1, <2>1, <2>2 DEF OpenOK
<1>7. DoneOK'
  <2>1. <<at>> \in Seq(1 .. at) /\ Rising(<<at>>)
    BY <1>2 DEF Rising
  <2>2. ASSUME NEW m \in DOMAIN done
        PROVE  Before(done[m], <<at>>)
    <3>1. done[m] \in Seq(1 .. at - 1)
      <4> DEFINE Q == Seq(1 .. at - 1)
      <4>1. done \in Seq(Q)
        BY DEF FuseInv, DoneOK
      <4> HIDE DEF Q
      <4>2. done[m] \in Q
        BY <4>1
      <4> QED
        BY <4>2 DEF Q
    <3>2. \A k \in DOMAIN done[m] : done[m][k] \in Nat /\ done[m][k] < at
      BY <3>1, ScannedInSource DEF FuseInv
    <3> QED
      BY <3>2 DEF Before
  <2>3. /\ done' \in Seq(Seq(1 .. at))
        /\ \A m \in DOMAIN done' : Rising(done'[m])
        /\ \A m, n \in DOMAIN done' : m < n => Before(done'[m], done'[n])
        /\ \A m \in DOMAIN done' : done'[m] = <<at>> \/ (m \in DOMAIN done /\ done'[m] = done[m])
    <3>1. at \in Nat /\ at - 1 =< at /\ DoneOK
      BY <1>2 DEF FuseInv
    <3> QED
      BY <1>1, <1>2, <2>1, <2>2, <3>1, SendKeepsDone
  <2>4. \A m \in DOMAIN done', b \in open' : Before(done'[m], b.gates)
    BY <1>1, <1>4, <2>3 DEF FuseInv, DoneOK
  <2>5. at' - 1 = at
    BY <1>1, <1>2
  <2>6. done' \in Seq(Seq(1 .. at' - 1))
    BY <2>3, <2>5
  <2>7. (\A m, n \in DOMAIN done : m < n => Before(done[m], done[n]))'
    <3>1. \A m, n \in DOMAIN done' : m < n =>
            \A k \in DOMAIN done'[m], l \in DOMAIN done'[n] :
              Conflict(source[done'[m][k]], source[done'[n][l]]) => done'[m][k] < done'[n][l]
      BY <2>3 DEF Before
    <3>2. source' = source
      BY <1>1
    <3> HIDE <2>3, <1>1
    <3> QED
      BY <3>1, <3>2 DEF Before
  <2>9. (\A m \in DOMAIN done, b \in open : Before(done[m], b.gates))'
    BY <1>1, <2>4 DEF Before
  <2>8. (\A m \in DOMAIN done : Rising(done[m]))'
    BY <2>3 DEF Rising
  <2> QED
    BY <2>6, <2>7, <2>8, <2>9 DEF DoneOK
<1> QED
  BY <1>5, <1>6, <1>7 DEF FuseInv

\* What the scan knows of the open blocks still holds one command further on.
LEMMA ScanOn ==
  ASSUME FuseInv, at' = at + 1, source' = source, NEW b \in open,
         nextId' \in Nat, nextId =< nextId',
         \A w \in b.wires : w \in DOMAIN front' /\ b.id =< front'[w]
  PROVE  BlockOK(b)'
<1>1. BlockOK(b) /\ at \in Nat /\ nextId \in Nat
  BY DEF FuseInv, OpenOK, ScanOK
<1>2. Scanned(b.gates)'
  <2>1. b.gates \in Seq(1 .. at - 1) /\ Rising(b.gates)
    BY <1>1 DEF BlockOK, Scanned
  <2>2. at \in Nat \ {0}
    BY DEF FuseInv, ScanOK
  <2>3. b.gates \in Seq(1 .. at' - 1)
    BY <2>1, <2>2, OneFurther
  <2> QED
    BY <2>1, <2>3 DEF Scanned, Rising
<1>3. b.id \in Nat /\ b.id < nextId'
  BY <1>1 DEF BlockOK
<1> QED
  BY <1>1, <1>2, <1>3 DEF BlockOK

\* The same for what was sent out.
LEMMA SentOn ==
  ASSUME FuseInv, at' = at + 1, UNCHANGED <<source, done>>,
         \A m \in DOMAIN done, b \in open' : Before(done[m], b.gates)
  PROVE  DoneOK'
<1>1. at \in Nat \ {0}
  BY DEF FuseInv, ScanOK
<1>3. done \in Seq(Seq(1 .. at' - 1))
  <2>1. Seq(1 .. at - 1) \subseteq Seq(1 .. at' - 1)
    BY <1>1, OneFurther
  <2> QED
    BY <2>1, SeqWider DEF FuseInv, DoneOK
<1> QED
  BY <1>3 DEF FuseInv, DoneOK, Rising, Before

\* A gate starts a block of its own, the newest on each of its wires.
LEMMA OpenBlockKeeps ==
  ASSUME FuseInv, OpenBlock
  PROVE  FuseInv'
<1> DEFINE c == source[at]
<1>0. PICK n : n = [id |-> nextId, qubits |-> Operands(c), wires |-> WiresOf(c),
                    gates |-> <<at>>, cond |-> c.cond]
  OBVIOUS
<1>1. /\ at =< Len(source) /\ IsFusible(c) /\ open' = open \cup {n}
      /\ front' = Stamp(WiresOf(c), nextId) /\ nextId' = nextId + 1 /\ at' = at + 1
      /\ source' = source /\ done' = done
  BY <1>0 DEF OpenBlock
<1>2. /\ at \in Nat \ {0} /\ at \in DOMAIN source /\ nextId \in Nat /\ Len(source) \in Nat
      /\ front \in [AllWires(source) -> Nat]
  BY <1>1 DEF FuseInv, ScanOK, FactoryMade
<1>3. WiresOf(c) \subseteq AllWires(source)
  BY <1>2 DEF AllWires
<1>4. /\ front' \in [AllWires(source) -> Nat]
      /\ \A w \in WiresOf(c) : front'[w] = nextId
      /\ \A w \in AllWires(source) : w \notin WiresOf(c) => front'[w] = front[w]
  BY <1>1, <1>2, <1>3 DEF Stamp
<1>5. n.id = nextId /\ n.wires = WiresOf(c) /\ n.gates = <<at>>
      /\ n = [id |-> n.id, qubits |-> n.qubits, wires |-> n.wires, gates |-> n.gates,
              cond |-> n.cond]
  BY <1>0
<1>6. \A b \in open : BlockOK(b) /\ b.id \in Nat /\ b.id < nextId
  BY DEF FuseInv, OpenOK, BlockOK
<1>7. ScanOK'
  BY <1>1, <1>2, <1>4 DEF FuseInv, ScanOK
<1>8. \A b \in open : BlockOK(b)'
  <2> SUFFICES ASSUME NEW b \in open PROVE BlockOK(b)'
    OBVIOUS
  <2>1. \A w \in b.wires : w \in DOMAIN front' /\ b.id =< front'[w]
    BY <1>2, <1>4, <1>6 DEF BlockOK
  <2> QED
    BY <1>1, <1>2, <2>1, ScanOn
<1>9. BlockOK(n)'
  <2>1. n.gates \in Seq(1 .. at' - 1) /\ Rising(n.gates)
    BY <1>1, <1>2, <1>5 DEF Rising
  <2>2. \A k \in DOMAIN n.gates : n.gates[k] = at
    BY <1>5
  <2>3. \A w \in n.wires : w \in DOMAIN front' /\ n.id =< front'[w]
    BY <1>2, <1>3, <1>4, <1>5
  <2> QED
    BY <1>1, <1>2, <1>5, <2>1, <2>2, <2>3 DEF BlockOK, Scanned, Rising
<1>10. OpenOK'
  <2>1. ASSUME NEW a \in open', NEW b \in open', a.id = b.id
        PROVE  a = b
    BY <1>1, <1>2, <1>5, <1>6, <2>1 DEF FuseInv, OpenOK
  <2>2. ASSUME NEW a \in open', NEW b \in open', a.id < b.id
        PROVE  WireBefore(a.gates, b.gates)'
    <3>1. a \in open
      BY <1>1, <1>2, <1>5, <1>6, <2>2
    <3>2. CASE b \in open
      BY <1>1, <2>2, <3>1, <3>2 DEF FuseInv, OpenOK, WireBefore, Shares
    <3>3. CASE b = n
      <4>1. a.gates \in Seq(1 .. at - 1)
        BY <1>6, <3>1 DEF BlockOK, Scanned
      <4>2. \A k \in DOMAIN a.gates : a.gates[k] < at
        BY <4>1, ScannedInSource DEF FuseInv
      <4> QED
        BY <1>5, <3>3, <4>2 DEF WireBefore
    <3> QED
      BY <1>1, <3>2, <3>3
  <2> QED
    BY <1>1, <1>8, <1>9, <2>1, <2>2 DEF OpenOK
<1>11. DoneOK'
  <2>1. ASSUME NEW m \in DOMAIN done, NEW b \in open'
        PROVE  Before(done[m], b.gates)
    <3>1. CASE b \in open
      BY <3>1 DEF FuseInv, DoneOK
    <3>2. CASE b = n
      <4>1. done[m] \in Seq(1 .. at - 1)
        <5> DEFINE Q == Seq(1 .. at - 1)
        <5> HIDE DEF Q
        <5>1. done \in Seq(Q)
          BY DEF Q, FuseInv, DoneOK
        <5>2. done[m] \in Q
          BY <5>1
        <5> QED
          BY <5>2 DEF Q
      <4>2. \A k \in DOMAIN done[m] : done[m][k] < at
        BY <4>1, ScannedInSource DEF FuseInv
      <4> QED
        BY <1>5, <3>2, <4>2 DEF Before
    <3> QED
      BY <1>1, <3>1, <3>2
  <2> QED
    BY <1>1, <2>1, SentOn
<1> QED
  BY <1>7, <1>10, <1>11 DEF FuseInv

\* A gate joins a block no later one has overtaken on its wires.
LEMMA FoldKeeps ==
  ASSUME FuseInv, Fold
  PROVE  FuseInv'
<1> DEFINE c == source[at]
<1>1. PICK b \in Joinable(c) :
        /\ open' = (open \ {b}) \cup
             {[b EXCEPT !.qubits = @ \cup Operands(c), !.wires = @ \cup WiresOf(c),
                        !.gates = Append(@, at)]}
        /\ front' = Stamp(WiresOf(c), b.id)
  BY DEF Fold
<1>0. PICK n : n = [b EXCEPT !.qubits = @ \cup Operands(c), !.wires = @ \cup WiresOf(c),
                             !.gates = Append(@, at)]
  OBVIOUS
<1>2. /\ at =< Len(source) /\ IsFusible(c) /\ open' = (open \ {b}) \cup {n}
      /\ at' = at + 1 /\ source' = source /\ done' = done /\ nextId' = nextId
  BY <1>0, <1>1 DEF Fold
<1>3. /\ at \in Nat \ {0} /\ at \in DOMAIN source /\ nextId \in Nat /\ Len(source) \in Nat
      /\ front \in [AllWires(source) -> Nat]
  BY <1>2 DEF FuseInv, ScanOK, FactoryMade
<1>4. WiresOf(c) \subseteq AllWires(source)
  BY <1>3 DEF AllWires
<1>5. /\ b \in open /\ BlockOK(b) /\ b.id \in Nat
      /\ b.gates \in Seq(1 .. at - 1) /\ Rising(b.gates)
      /\ \A w \in WiresOf(c) : front[w] =< b.id
  BY DEF Joinable, FuseInv, OpenOK, BlockOK, Scanned
<1>6. /\ front' \in [AllWires(source) -> Nat]
      /\ \A w \in WiresOf(c) : front'[w] = b.id
      /\ \A w \in AllWires(source) : w \notin WiresOf(c) => front'[w] = front[w]
  BY <1>1, <1>3, <1>4, <1>5 DEF Stamp
<1>7. /\ n.id = b.id /\ n.wires = b.wires \cup WiresOf(c) /\ n.gates = Append(b.gates, at)
      /\ n = [id |-> n.id, qubits |-> n.qubits, wires |-> n.wires, gates |-> n.gates,
              cond |-> n.cond]
  <2> DEFINE Q == b.qubits \cup Operands(c)
             W == b.wires \cup WiresOf(c)
             G == Append(b.gates, at)
  <2>1. n = [b EXCEPT !.qubits = Q, !.wires = W, !.gates = G]
    BY <1>0
  <2> HIDE DEF Q, W, G
  <2>2. n.id = b.id /\ n.wires = W /\ n.gates = G
        /\ n = [id |-> n.id, qubits |-> n.qubits, wires |-> n.wires, gates |-> n.gates,
                cond |-> n.cond]
    BY <1>5, <2>1 DEF BlockOK
  <2> QED
    BY <2>2 DEF W, G
<1>8. \A o \in open : BlockOK(o) /\ o.id \in Nat /\ o.id < nextId
  BY DEF FuseInv, OpenOK, BlockOK
<1>9. ScanOK'
  BY <1>2, <1>3, <1>6 DEF FuseInv, ScanOK
<1>10. \A o \in open : \A w \in o.wires : w \in DOMAIN front' /\ o.id =< front'[w]
  <2> SUFFICES ASSUME NEW o \in open, NEW w \in o.wires
               PROVE  w \in DOMAIN front' /\ o.id =< front'[w]
    OBVIOUS
  <2>1. w \in AllWires(source) /\ o.id =< front[w] /\ o.id \in Nat
    BY <1>3, <1>8 DEF BlockOK
  <2>2. front[w] \in Nat
    BY <1>3, <2>1
  <2>3. CASE w \in WiresOf(c)
    BY <1>5, <1>6, <2>1, <2>2, <2>3
  <2>4. CASE w \notin WiresOf(c)
    BY <1>6, <2>1, <2>4
  <2> QED
    BY <2>3, <2>4
<1>11. \A o \in open : BlockOK(o)'
  BY <1>2, <1>3, <1>10, ScanOn
<1>12. \A k \in DOMAIN n.gates :
         n.gates[k] = at \/ (k \in DOMAIN b.gates /\ n.gates[k] = b.gates[k])
  BY <1>5, <1>7
<1>13. BlockOK(n)'
  <2>1. n.gates \in Seq(1 .. at' - 1)
    <3>1. 1 .. at - 1 \subseteq 1 .. at' - 1 /\ at \in 1 .. at' - 1
      BY <1>2, <1>3
    <3>2. b.gates \in Seq(1 .. at' - 1)
      BY <1>5, <3>1, SeqWider
    <3> QED
      BY <1>7, <3>1, <3>2
  <2>2. Rising(n.gates)
    <3>1. DOMAIN b.gates = 1 .. Len(b.gates) /\ Len(b.gates) \in Nat
          /\ DOMAIN n.gates = 1 .. Len(b.gates) + 1
          /\ n.gates[Len(b.gates) + 1] = at
          /\ \A k \in DOMAIN b.gates : n.gates[k] = b.gates[k]
      BY <1>5, <1>7
    <3>2. \A k \in DOMAIN b.gates : b.gates[k] < at
      BY <1>5, ScannedInSource DEF FuseInv
    <3> QED
      BY <1>5, <3>1, <3>2 DEF Rising
  <2>3. \A k \in DOMAIN n.gates :
          IsFusible(source[n.gates[k]]) /\ WiresOf(source[n.gates[k]]) \subseteq n.wires
    BY <1>2, <1>5, <1>7, <1>12 DEF BlockOK
  <2>4. \A w \in n.wires : w \in DOMAIN front' /\ n.id =< front'[w]
    <3>1. \A w \in WiresOf(c) : w \in DOMAIN front' /\ b.id =< front'[w]
      BY <1>4, <1>5, <1>6
    <3> QED
      BY <1>5, <1>7, <1>10, <3>1
  <2>5. n.id \in Nat /\ n.id < nextId'
    BY <1>2, <1>5, <1>7, <1>8
  <2> QED
    BY <1>2, <1>7, <2>1, <2>2, <2>3, <2>4, <2>5 DEF BlockOK, Scanned, Rising
<1>14. ASSUME NEW a \in open', NEW o \in open', a.id = o.id
       PROVE  a = o
  BY <1>2, <1>5, <1>7, <1>14 DEF FuseInv, OpenOK
<1>15. ASSUME NEW a \in open', NEW o \in open', a.id < o.id
       PROVE  WireBefore(a.gates, o.gates)'
  <2>1. CASE a \in open /\ o \in open
    BY <1>2, <1>15, <2>1 DEF FuseInv, OpenOK, WireBefore, Shares
  <2>2. CASE a \in open /\ o = n
    <3>1. WireBefore(a.gates, b.gates)
      BY <1>5, <1>7, <1>15, <2>2 DEF FuseInv, OpenOK
    <3>2. a.gates \in Seq(1 .. at - 1)
      BY <1>8, <2>2 DEF BlockOK, Scanned
    <3>3. \A k \in DOMAIN a.gates : a.gates[k] < at
      BY <3>2, ScannedInSource DEF FuseInv
    <3> QED
      BY <1>2, <1>12, <2>2, <3>1, <3>3 DEF WireBefore, Shares
  <2>3. CASE a = n /\ o \in open
    <3>1. WireBefore(b.gates, o.gates)
      BY <1>5, <1>7, <1>15, <2>3 DEF FuseInv, OpenOK
    <3>2. \A l \in DOMAIN o.gates : ~ Shares(at, o.gates[l])
      <4> SUFFICES ASSUME NEW l \in DOMAIN o.gates, NEW w,
                          w \in WiresOf(c), w \in WiresOf(source[o.gates[l]])
                   PROVE  FALSE
        BY DEF Shares
      <4>1. w \in o.wires
        BY <1>8, <2>3 DEF BlockOK
      <4>2. o.id =< front[w] /\ front[w] \in Nat /\ front[w] =< b.id
        BY <1>3, <1>4, <1>5, <1>8, <2>3, <4>1 DEF BlockOK
      <4> QED
        BY <1>5, <1>7, <1>8, <1>15, <2>3, <4>2
    <3> QED
      BY <1>2, <1>12, <2>3, <3>1, <3>2 DEF WireBefore, Shares
  <2>4. ~ (a = n /\ o = n)
    BY <1>5, <1>7, <1>15
  <2> QED
    BY <1>2, <2>1, <2>2, <2>3, <2>4
<1>16. OpenOK'
  BY <1>2, <1>11, <1>13, <1>14, <1>15 DEF OpenOK
<1>17. DoneOK'
  <2>1. ASSUME NEW m \in DOMAIN done, NEW o \in open'
        PROVE  Before(done[m], o.gates)
    <3>1. CASE o \in open
      BY <3>1 DEF FuseInv, DoneOK
    <3>2. CASE o = n
      <4>1. done[m] \in Seq(1 .. at - 1)
        <5> DEFINE Q == Seq(1 .. at - 1)
        <5> HIDE DEF Q
        <5>1. done \in Seq(Q)
          BY DEF Q, FuseInv, DoneOK
        <5>2. done[m] \in Q
          BY <5>1
        <5> QED
          BY <5>2 DEF Q
      <4>2. Before(done[m], b.gates)
        BY <1>5 DEF FuseInv, DoneOK
      <4> QED
        BY <1>5, <1>7, <3>2, <4>1, <4>2, BeforeAt DEF FuseInv
    <3> QED
      BY <1>2, <3>1, <3>2
  <2> QED
    BY <1>2, <2>1, SentOn
<1> QED
  BY <1>9, <1>16, <1>17 DEF FuseInv

-----------------------------------------------------------------------------
\* The start of a call.
LEMMA FuseStarts ==
  ASSUME FactoryMade(source), FuseInit
  PROVE  FuseInv
<1>1. ScanOK
  <2>1. Len(source) \in Nat
    BY DEF FactoryMade
  <2> QED
    BY <2>1 DEF FuseInit, ScanOK
<1>2. OpenOK
  BY DEF FuseInit, OpenOK
<1>3. DoneOK
  BY DEF FuseInit, DoneOK
<1> QED
  BY <1>1, <1>2, <1>3 DEF FuseInv

LEMMA FuseInvStep ==
  ASSUME FuseInv, [FuseNext]_fuseVars
  PROVE  FuseInv'
<1>1. CASE EmitBlock
  BY <1>1, EmitBlockKeeps
<1>2. CASE Place
  BY <1>2, PlaceKeeps
<1>3. CASE OpenBlock
  BY <1>3, OpenBlockKeeps
<1>4. CASE Fold
  BY <1>4, FoldKeeps
<1>5. CASE UNCHANGED fuseVars
  <2>1. UNCHANGED <<source, at, open, front, nextId, done>>
    BY <1>5 DEF fuseVars
  <2> QED
    BY <2>1 DEF FuseInv, ScanOK, OpenOK, DoneOK, BlockOK, Scanned, WireBefore, Shares,
                Before, Rising
<1> QED
  BY <1>1, <1>2, <1>3, <1>4, <1>5 DEF FuseNext

\* SentInOrder: whatever is folded into whatever block, of two conflicting
\* commands the later is never sent out first, nor ahead of the other inside
\* a block (fuse_for_simulation, for every source and MaxFused).
THEOREM FusionKeepsOrder == FuseSpec => []SentInOrder
<1>1. FactoryMade(source) /\ FuseInit => FuseInv
  BY FuseStarts
<1>2. FuseInv /\ [FuseNext]_fuseVars => FuseInv'
  BY FuseInvStep
<1>3. FuseInv => SentInOrder
  BY DEF FuseInv, DoneOK, SentInOrder, Before, Rising
<1> QED
  BY <1>1, <1>2, <1>3, PTL DEF FuseSpec

-----------------------------------------------------------------------------
(* The links of the graphs                                                  *)

-----------------------------------------------------------------------------
\* The shape of a graph: links of every live node on exactly its wires.
IsGraph(g) ==
  /\ g = [live |-> g.live, wires |-> g.wires, cmd |-> g.cmd, span |-> g.span,
          prev |-> g.prev, next |-> g.next]
  /\ g.live \subseteq Nat \ {0}
  /\ g.live \subseteq DOMAIN g.prev /\ g.live \subseteq DOMAIN g.next
  /\ \A i \in g.live : DOMAIN g.prev[i] = g.wires[i] /\ DOMAIN g.next[i] = g.wires[i]

IsExact(g) == IsGraph(g) /\ LinksExact(g)

\* from_commands links every node to its nearest neighbours.
LEMMA FromCommandsExact ==
  ASSUME NEW s
  PROVE  IsExact(FromCommands(s))
<1> DEFINE b == Bare(s)
           g == FromCommands(s)
<1>1. b.live = Nodes(s) /\ b.live \subseteq Nat \ {0}
  BY DEF Bare, Nodes
<1>2. /\ g.live = b.live /\ g.wires = b.wires
      /\ g = [live |-> g.live, wires |-> g.wires, cmd |-> g.cmd, span |-> g.span,
              prev |-> g.prev, next |-> g.next]
      /\ g.prev = [i \in b.live |-> [w \in b.wires[i] |-> TailBefore(b, i, w)]]
      /\ g.next = [i \in b.live |-> [w \in b.wires[i] |-> HeadAfter(b, i, w)]]
  <2> DEFINE P == [i \in b.live |-> [w \in b.wires[i] |-> TailBefore(b, i, w)]]
             N == [i \in b.live |-> [w \in b.wires[i] |-> HeadAfter(b, i, w)]]
  <2>1. b = [live |-> b.live, wires |-> b.wires, cmd |-> b.cmd, span |-> b.span,
             prev |-> b.prev, next |-> b.next]
    BY DEF Bare
  <2>2. g = [b EXCEPT !.prev = P, !.next = N]
    BY Zenon DEF FromCommands
  <2> HIDE DEF b, P, N, g
  <2>3. g = [live |-> b.live, wires |-> b.wires, cmd |-> b.cmd, span |-> b.span,
             prev |-> P, next |-> N]
    BY <2>1, <2>2
  <2>4. /\ g.live = b.live /\ g.wires = b.wires
        /\ g = [live |-> g.live, wires |-> g.wires, cmd |-> g.cmd, span |-> g.span,
                prev |-> g.prev, next |-> g.next]
        /\ g.prev = P /\ g.next = N
    BY <2>3
  <2> QED
    BY <2>4 DEF P, N
<1>3. ASSUME NEW i \in b.live, NEW w
      PROVE  \E j \in b.live \cup {0} : IsPrev(b, i, w, j)
  <2>1. CASE LiveBefore(b, i, w) = {}
    BY <2>1 DEF IsPrev
  <2>2. CASE LiveBefore(b, i, w) # {}
    <3>1. LiveBefore(b, i, w) \in SUBSET Nat /\ \A j \in LiveBefore(b, i, w) : j =< i
      BY <1>1 DEF LiveBefore
    <3>2. IsFiniteSet(LiveBefore(b, i, w))
      BY <1>1, <3>1, FS_BoundedSetOfNaturals
    <3>3. \E m \in LiveBefore(b, i, w) : \A j \in LiveBefore(b, i, w) : j =< m
      BY <3>1, <3>2, <2>2, GreatestExists
    <3> QED
      BY <3>3 DEF IsPrev, LiveBefore
  <2> QED
    BY <2>1, <2>2
<1>4. ASSUME NEW i \in b.live, NEW w
      PROVE  \E j \in b.live \cup {0} : IsSucc(b, i, w, j)
  <2>1. CASE LiveAfter(b, i, w) = {}
    BY <2>1 DEF IsSucc
  <2>2. CASE LiveAfter(b, i, w) # {}
    <3>1. LiveAfter(b, i, w) \in SUBSET Nat
      BY <1>1 DEF LiveAfter
    <3>2. \E m \in LiveAfter(b, i, w) : \A j \in LiveAfter(b, i, w) : m =< j
      BY <3>1, <2>2, LeastExists
    <3> QED
      BY <3>2 DEF IsSucc, LiveAfter
  <2> QED
    BY <2>1, <2>2
<1>5. IsGraph(g)
  BY <1>1, <1>2 DEF IsGraph
<1>6. LinksExact(g)
  <2> SUFFICES ASSUME NEW i \in b.live, NEW w \in b.wires[i]
               PROVE  IsPrev(g, i, w, g.prev[i][w]) /\ IsSucc(g, i, w, g.next[i][w])
    BY <1>2 DEF LinksExact
  <2>1. IsPrev(b, i, w, g.prev[i][w])
    <3>1. IsPrev(b, i, w, TailBefore(b, i, w))
      BY <1>3 DEF TailBefore
    <3> QED
      BY <1>2, <3>1
  <2>2. IsSucc(b, i, w, g.next[i][w])
    <3>1. IsSucc(b, i, w, HeadAfter(b, i, w))
      BY <1>4 DEF HeadAfter
    <3> QED
      BY <1>2, <3>1
  <2> QED
    BY <1>2, <2>1, <2>2 DEF IsPrev, IsSucc, LiveBefore, LiveAfter
<1> QED
  BY <1>5, <1>6 DEF IsExact

-----------------------------------------------------------------------------
\* What remove_node leaves in each field.
LEMMA RemoveNodeFields ==
  ASSUME NEW g, IsGraph(g), NEW id \in g.live
  PROVE  LET h == RemoveNode(g, id) IN
         /\ h.live = g.live \ {id} /\ h.wires = g.wires
         /\ h = [live |-> h.live, wires |-> h.wires, cmd |-> h.cmd, span |-> h.span,
                 prev |-> h.prev, next |-> h.next]
         /\ DOMAIN h.prev = DOMAIN g.prev /\ DOMAIN h.next = DOMAIN g.next
         /\ \A i \in h.live :
              /\ DOMAIN h.prev[i] = g.wires[i] /\ DOMAIN h.next[i] = g.wires[i]
              /\ \A w \in g.wires[i] :
                   /\ h.next[i][w] = IF w \in g.wires[id] /\ g.prev[id][w] = i
                                    THEN g.next[id][w] ELSE g.next[i][w]
                   /\ h.prev[i][w] = IF w \in g.wires[id] /\ g.next[id][w] = i
                                    THEN g.prev[id][w] ELSE g.prev[i][w]
<1> DEFINE N == [i \in DOMAIN g.next |-> [w \in DOMAIN g.next[i] |->
                   IF i = id THEN 0
                   ELSE IF w \in g.wires[id] /\ g.prev[id][w] = i THEN g.next[id][w]
                   ELSE g.next[i][w]]]
           P == [i \in DOMAIN g.prev |-> [w \in DOMAIN g.prev[i] |->
                   IF i = id THEN 0
                   ELSE IF w \in g.wires[id] /\ g.next[id][w] = i THEN g.prev[id][w]
                   ELSE g.prev[i][w]]]
           h == RemoveNode(g, id)
<1>1. h = [live |-> g.live \ {id}, wires |-> g.wires, cmd |-> g.cmd, span |-> g.span,
           prev |-> P, next |-> N]
  <2>1. g = [live |-> g.live, wires |-> g.wires, cmd |-> g.cmd, span |-> g.span,
             prev |-> g.prev, next |-> g.next]
    BY DEF IsGraph
  <2>2. h = [g EXCEPT !.live = g.live \ {id}, !.next = N, !.prev = P]
    BY DEF RemoveNode
  <2> HIDE DEF h, P, N
  <2> QED
    BY <2>1, <2>2
<1> HIDE DEF h
<1>2. /\ h.live = g.live \ {id} /\ h.wires = g.wires
      /\ h = [live |-> h.live, wires |-> h.wires, cmd |-> h.cmd, span |-> h.span,
              prev |-> h.prev, next |-> h.next]
      /\ h.prev = P /\ h.next = N
  <2> HIDE DEF P, N
  <2> QED
    BY <1>1
<1>3. DOMAIN h.prev = DOMAIN g.prev /\ DOMAIN h.next = DOMAIN g.next
  BY <1>2
<1>4. ASSUME NEW i \in h.live
      PROVE  /\ DOMAIN h.prev[i] = g.wires[i] /\ DOMAIN h.next[i] = g.wires[i]
             /\ \A w \in g.wires[i] :
                  /\ h.next[i][w] = IF w \in g.wires[id] /\ g.prev[id][w] = i
                                   THEN g.next[id][w] ELSE g.next[i][w]
                  /\ h.prev[i][w] = IF w \in g.wires[id] /\ g.next[id][w] = i
                                   THEN g.prev[id][w] ELSE g.prev[i][w]
  <2>1. /\ i \in g.live /\ i # id /\ i \in DOMAIN g.prev /\ i \in DOMAIN g.next
        /\ DOMAIN g.prev[i] = g.wires[i] /\ DOMAIN g.next[i] = g.wires[i]
    BY <1>2 DEF IsGraph
  <2> QED
    BY <1>2, <2>1
<1> QED
  BY <1>2, <1>3, <1>4 DEF h

\* remove_node: joining the neighbours on each wire of the node leaves every
\* remaining node linked to its nearest neighbours.
LEMMA RemoveKeepsExact ==
  ASSUME NEW g, IsExact(g), NEW id \in g.live
  PROVE  IsExact(RemoveNode(g, id))
<1> DEFINE h == RemoveNode(g, id)
<1>1. IsGraph(g) /\ LinksExact(g) /\ g.live \subseteq Nat \ {0}
  BY DEF IsExact, IsGraph
<1>2. /\ h.live = g.live \ {id} /\ h.wires = g.wires
      /\ h = [live |-> h.live, wires |-> h.wires, cmd |-> h.cmd, span |-> h.span,
              prev |-> h.prev, next |-> h.next]
      /\ DOMAIN h.prev = DOMAIN g.prev /\ DOMAIN h.next = DOMAIN g.next
      /\ \A i \in h.live :
           /\ DOMAIN h.prev[i] = g.wires[i] /\ DOMAIN h.next[i] = g.wires[i]
           /\ \A w \in g.wires[i] :
                /\ h.next[i][w] = IF w \in g.wires[id] /\ g.prev[id][w] = i
                                 THEN g.next[id][w] ELSE g.next[i][w]
                /\ h.prev[i][w] = IF w \in g.wires[id] /\ g.next[id][w] = i
                                 THEN g.prev[id][w] ELSE g.prev[i][w]
  BY <1>1, RemoveNodeFields
<1> HIDE DEF h
<1>3. IsGraph(h)
  BY <1>1, <1>2 DEF IsGraph
<1>4. ASSUME NEW i \in h.live, NEW w \in h.wires[i]
      PROVE  IsPrev(h, i, w, h.prev[i][w]) /\ IsSucc(h, i, w, h.next[i][w])
  <2>1. /\ i \in g.live /\ i # id /\ i \in Nat /\ id \in Nat /\ i # 0 /\ id # 0
        /\ w \in g.wires[i]
    BY <1>1, <1>2
  <2>2. IsPrev(g, i, w, g.prev[i][w]) /\ IsSucc(g, i, w, g.next[i][w])
    BY <1>1, <2>1 DEF LinksExact
  <2>3. w \in g.wires[id] =>
          IsPrev(g, id, w, g.prev[id][w]) /\ IsSucc(g, id, w, g.next[id][w])
    BY <1>1 DEF LinksExact
  <2>4. /\ LiveAfter(h, i, w) = LiveAfter(g, i, w) \ {id}
        /\ LiveBefore(h, i, w) = LiveBefore(g, i, w) \ {id}
    BY <1>2 DEF LiveAfter, LiveBefore
  <2>5. IsSucc(h, i, w, h.next[i][w])
    <3>1. CASE w \in g.wires[id] /\ g.prev[id][w] = i
      <4>1. h.next[i][w] = g.next[id][w]
        BY <1>2, <2>1, <3>1
      <4>2. i < id /\ \A j \in LiveBefore(g, id, w) : j =< i
        BY <2>1, <2>3, <3>1 DEF IsPrev, LiveBefore
      <4>3. LiveAfter(h, i, w) = LiveAfter(g, id, w)
        BY <1>1, <2>1, <2>4, <4>2 DEF LiveAfter, LiveBefore
      <4> QED
        BY <4>1, <4>3, <2>3, <3>1 DEF IsSucc
    <3>2. CASE ~ (w \in g.wires[id] /\ g.prev[id][w] = i)
      <4>1. h.next[i][w] = g.next[i][w]
        BY <1>2, <2>1, <3>2
      <4>2. g.next[i][w] # id
        <5>1. SUFFICES ASSUME g.next[i][w] = id PROVE FALSE
          OBVIOUS
        <5>2. id \in LiveAfter(g, i, w) /\ \A j \in LiveAfter(g, i, w) : id =< j
          BY <2>1, <2>2, <5>1 DEF IsSucc
        <5>3. w \in g.wires[id] /\ i < id
          BY <5>2 DEF LiveAfter
        <5>4. i \in LiveBefore(g, id, w)
          BY <2>1, <5>3 DEF LiveBefore
        <5>5. /\ g.prev[id][w] \in LiveBefore(g, id, w)
              /\ i =< g.prev[id][w] /\ g.prev[id][w] # i
          BY <2>3, <3>2, <5>3, <5>4 DEF IsPrev
        <5>6. g.prev[id][w] \in Nat /\ g.prev[id][w] < id /\ g.prev[id][w] \in LiveAfter(g, i, w)
          BY <1>1, <2>1, <5>5 DEF LiveBefore, LiveAfter
        <5> QED
          BY <2>1, <5>2, <5>6
      <4> QED
        BY <4>1, <4>2, <2>2, <2>4 DEF IsSucc
    <3> QED
      BY <3>1, <3>2
  <2>6. IsPrev(h, i, w, h.prev[i][w])
    <3>1. CASE w \in g.wires[id] /\ g.next[id][w] = i
      <4>1. h.prev[i][w] = g.prev[id][w]
        BY <1>2, <2>1, <3>1
      <4>2. id < i /\ \A j \in LiveAfter(g, id, w) : i =< j
        BY <2>1, <2>3, <3>1 DEF IsSucc, LiveAfter
      <4>3. LiveBefore(h, i, w) = LiveBefore(g, id, w)
        BY <1>1, <2>1, <2>4, <4>2 DEF LiveAfter, LiveBefore
      <4> QED
        BY <4>1, <4>3, <2>3, <3>1 DEF IsPrev
    <3>2. CASE ~ (w \in g.wires[id] /\ g.next[id][w] = i)
      <4>1. h.prev[i][w] = g.prev[i][w]
        BY <1>2, <2>1, <3>2
      <4>2. g.prev[i][w] # id
        <5>1. SUFFICES ASSUME g.prev[i][w] = id PROVE FALSE
          OBVIOUS
        <5>2. id \in LiveBefore(g, i, w) /\ \A j \in LiveBefore(g, i, w) : j =< id
          BY <2>1, <2>2, <5>1 DEF IsPrev
        <5>3. w \in g.wires[id] /\ id < i
          BY <5>2 DEF LiveBefore
        <5>4. i \in LiveAfter(g, id, w)
          BY <2>1, <5>3 DEF LiveAfter
        <5>5. /\ g.next[id][w] \in LiveAfter(g, id, w)
              /\ g.next[id][w] =< i /\ g.next[id][w] # i
          BY <2>3, <3>2, <5>3, <5>4 DEF IsSucc
        <5>6. g.next[id][w] \in Nat /\ id < g.next[id][w] /\ g.next[id][w] \in LiveBefore(g, i, w)
          BY <1>1, <2>1, <5>5 DEF LiveBefore, LiveAfter
        <5> QED
          BY <2>1, <5>2, <5>6
      <4> QED
        BY <4>1, <4>2, <2>2, <2>4 DEF IsPrev
    <3> QED
      BY <3>1, <3>2
  <2> QED
    BY <2>5, <2>6
<1>5. LinksExact(h)
  BY <1>4 DEF LinksExact
<1> QED
  BY <1>3, <1>5 DEF IsExact, h

\* Replacing what a node holds leaves the links alone.
LEMMA ReplaceKeepsExact ==
  ASSUME NEW g, IsExact(g), NEW id, NEW x
  PROVE  IsExact(ReplaceCommand(g, id, x)) /\ IsExact(ReplaceSpan(g, id, x))
<1>1. g = [live |-> g.live, wires |-> g.wires, cmd |-> g.cmd, span |-> g.span,
           prev |-> g.prev, next |-> g.next]
  BY DEF IsExact, IsGraph
<1> DEFINE c == ReplaceCommand(g, id, x)
           s == ReplaceSpan(g, id, x)
<1>2. /\ c = [live |-> g.live, wires |-> g.wires, cmd |-> c.cmd, span |-> g.span,
              prev |-> g.prev, next |-> g.next]
      /\ s = [live |-> g.live, wires |-> g.wires, cmd |-> g.cmd, span |-> s.span,
              prev |-> g.prev, next |-> g.next]
  BY <1>1 DEF ReplaceCommand, ReplaceSpan
<1> HIDE DEF c, s
<1>3. IsExact(c)
  <2>1. /\ c.live = g.live /\ c.wires = g.wires /\ c.prev = g.prev /\ c.next = g.next
        /\ c = [live |-> c.live, wires |-> c.wires, cmd |-> c.cmd, span |-> c.span,
                prev |-> c.prev, next |-> c.next]
    BY <1>2
  <2> QED
    BY <2>1 DEF IsExact, IsGraph, LinksExact, IsPrev, IsSucc, LiveBefore, LiveAfter
<1>4. IsExact(s)
  <2>1. /\ s.live = g.live /\ s.wires = g.wires /\ s.prev = g.prev /\ s.next = g.next
        /\ s = [live |-> s.live, wires |-> s.wires, cmd |-> s.cmd, span |-> s.span,
                prev |-> s.prev, next |-> s.next]
    BY <1>2
  <2> QED
    BY <2>1 DEF IsExact, IsGraph, LinksExact, IsPrev, IsSucc, LiveBefore, LiveAfter
<1> QED
  BY <1>3, <1>4 DEF c, s

-----------------------------------------------------------------------------
\* to_commands: while the links are exact and everything emitted so far
\* precedes everything left, the next node written is the lowest one left.
\* So the survivors are written out in the order of the input.
LEMMA EmissionKeepsTheOrder ==
  ASSUME NEW g, IsExact(g), NEW emitted \in SUBSET g.live, g.live \ emitted # {},
         \A i \in emitted : \A j \in g.live \ emitted : i < j
  PROVE  /\ NextReady(g, emitted) \in g.live \ emitted
         /\ \A j \in g.live \ emitted : NextReady(g, emitted) =< j
<1> DEFINE left  == g.live \ emitted
           ready == {i \in left : \A w \in g.wires[i] : g.prev[i][w] \in emitted \cup {0}}
<1>1. left \in SUBSET Nat /\ left # {}
  BY DEF IsExact, IsGraph
<1>2. PICK m \in left : \A j \in left : m =< j
  BY <1>1, LeastExists
<1>3. m \in ready
  <2>1. ASSUME NEW w \in g.wires[m]
        PROVE  g.prev[m][w] \in emitted \cup {0}
    <3>1. IsPrev(g, m, w, g.prev[m][w])
      BY <1>2, <2>1 DEF IsExact, LinksExact
    <3>2. CASE g.prev[m][w] = 0
      BY <3>2
    <3>3. CASE g.prev[m][w] # 0
      <4>1. g.prev[m][w] \in g.live /\ g.prev[m][w] < m
        BY <3>1, <3>3 DEF IsPrev, LiveBefore
      <4>2. g.prev[m][w] \in Nat /\ m \in Nat
        BY <1>1, <1>2, <4>1 DEF IsExact, IsGraph
      <4>3. g.prev[m][w] \notin left
        BY <1>2, <4>1, <4>2
      <4> QED
        BY <4>1, <4>3
    <3> QED
      BY <3>2, <3>3
  <2> QED
    BY <1>2, <2>1
<1>4. \E i \in ready : \A j \in ready : i =< j
  BY <1>2, <1>3
<1>5. NextReady(g, emitted) = CHOOSE i \in ready : \A j \in ready : i =< j
  BY DEF NextReady
<1>6. NextReady(g, emitted) \in ready /\ \A j \in ready : NextReady(g, emitted) =< j
  BY <1>4, <1>5
<1>7. NextReady(g, emitted) =< m /\ m =< NextReady(g, emitted)
  BY <1>2, <1>3, <1>6
<1>8. NextReady(g, emitted) = m
  <2>1. NextReady(g, emitted) \in Nat /\ m \in Nat
    BY <1>1, <1>2, <1>6
  <2> QED
    BY <1>7, <2>1
<1> QED
  BY <1>2, <1>8

----------------------------------------------------------------------------
(* The passes that run on such graphs.                                     *)

\* A running call: a graph with exact links and the state of the worklist.
IsFrame(f) ==
  /\ f = [graph |-> f.graph, work |-> f.work, region |-> f.region, bodies |-> f.bodies]
  /\ IsExact(f.graph)

\* The inductive invariant: the call stack holds such calls only, and a pass
\* that runs has at least one.
StackExact ==
  /\ \E S : frames \in Seq(S) /\ \A f \in S : IsFrame(f)
  /\ phase = "passes" => frames # <<>>

LEMMA NewFrame ==
  ASSUME NEW s
  PROVE  IsFrame(Frame(FromCommands(s)))
<1> DEFINE g == FromCommands(s)
<1>1. IsExact(g)
  BY FromCommandsExact
<1> HIDE DEF g
<1> QED
  BY <1>1 DEF IsFrame, Frame, g

LEMMA StackExactHolds ==
  ASSUME StackExact
  PROVE  GraphsExact
<1>1. PICK S : frames \in Seq(S) /\ \A f \in S : IsFrame(f)
  BY DEF StackExact
<1>2. \A k \in DOMAIN frames : frames[k] \in S
  BY <1>1
<1> QED
  BY <1>1, <1>2 DEF GraphsExact, IsFrame, IsExact

LEMMA EmptyStackExact ==
  ASSUME frames = <<>>, phase # "passes"
  PROVE  StackExact
<1>1. frames \in Seq({}) /\ \A f \in {} : IsFrame(f)
  OBVIOUS
<1> QED
  BY <1>1 DEF StackExact

LEMMA InitStackExact == RunInit => StackExact
<1>1. RunInit => frames = <<>> /\ phase # "passes"
  BY DEF RunInit, TranspileInit
<1> QED
  BY <1>1, EmptyStackExact

LEMMA EmptyStackNext ==
  ASSUME frames' = <<>>, phase' # "passes"
  PROVE  StackExact'
<1>1. frames' \in Seq({}) /\ \A f \in {} : IsFrame(f)
  OBVIOUS
<1> QED
  BY <1>1 DEF StackExact

\* A call on a stream: its graph is new, or from_commands throws out of all calls.
LEMMA OptimiseKeeps ==
  ASSUME NEW S, NEW callers \in Seq(S), \A f \in S : IsFrame(f), NEW s, Optimise(s, callers)
  PROVE  StackExact'
<1> DEFINE F == Frame(FromCommands(s))
<1>1. \/ frames' = <<>> /\ phase' # "passes"
      \/ frames' = <<F>> \o callers
  BY DEF Optimise
<1>2. CASE frames' = <<>> /\ phase' # "passes"
  BY <1>2, EmptyStackNext
<1>3. CASE frames' = <<F>> \o callers
  <2>1. IsFrame(F)
    BY NewFrame
  <2> HIDE DEF F
  <2>2. callers \in Seq(S \cup {F}) /\ <<F>> \in Seq(S \cup {F})
    OBVIOUS
  <2>3. frames' \in Seq(S \cup {F}) /\ frames' # <<>>
    BY <1>3, <2>2
  <2> QED
    BY <2>1, <2>3 DEF StackExact
<1> QED
  BY <1>1, <1>2, <1>3

\* The rebased stream becomes the first graph of the first pass.
LEMMA StartStackExact == OptStart => StackExact'
<1> SUFFICES ASSUME OptStart PROVE StackExact'
  OBVIOUS
<1>1. (frames' = <<>> /\ phase' # "passes") \/ Optimise(Tagged(stream), <<>>)
  BY DEF OptStart
<1>2. CASE frames' = <<>> /\ phase' # "passes"
  BY <1>2, EmptyStackNext
<1>3. CASE Optimise(Tagged(stream), <<>>)
  <2> DEFINE nobody == {}
             none == <<>>
             s == Tagged(stream)
  <2>1. none \in Seq(nobody) /\ Optimise(s, none) /\ \A f \in nobody : IsFrame(f)
    BY <1>3
  <2> HIDE DEF none, nobody, s
  <2> QED
    BY <2>1, OptimiseKeeps
<1> QED
  BY <1>1, <1>2, <1>3

-----------------------------------------------------------------------------
\* What a pass does to the innermost call: its graph becomes g.
LEMMA ContinueKeeps ==
  ASSUME StackExact, phase = "passes", NEW g, IsExact(g), NEW ids, Continue(g, ids)
  PROVE  StackExact'
<1>1. PICK S : frames \in Seq(S) /\ \A f \in S : IsFrame(f)
  BY DEF StackExact
<1>2. frames # <<>>
  BY DEF StackExact
<1>3. top \in S /\ IsFrame(top)
  BY <1>1, <1>2 DEF top
<1> DEFINE A == [top EXCEPT !.graph = g, !.work = Enqueue(g, Tail(@), ids)]
<1>4. frames' = <<A>> \o Tail(frames)
  BY Zenon DEF Continue
<1>5. IsFrame(A)
  <2> DEFINE work == Enqueue(g, Tail(top.work), ids)
  <2>1. A = [top EXCEPT !.graph = g, !.work = work]
    OBVIOUS
  <2> HIDE DEF A, work
  <2> QED
    BY <1>3, <2>1 DEF IsFrame
<1> HIDE DEF A
<1>6. Tail(frames) \in Seq(S \cup {A}) /\ <<A>> \in Seq(S \cup {A})
  BY <1>1, <1>2
<1>7. frames' \in Seq(S \cup {A}) /\ frames' # <<>>
  BY <1>4, <1>6
<1> QED
  BY <1>1, <1>5, <1>7 DEF StackExact

LEMMA TopIsExact ==
  ASSUME StackExact, phase = "passes"
  PROVE  IsExact(top.graph)
<1>1. PICK S : frames \in Seq(S) /\ \A f \in S : IsFrame(f)
  BY DEF StackExact
<1>2. top \in S
  BY <1>1 DEF StackExact, top
<1> QED
  BY <1>1, <1>2 DEF IsFrame

LEMMA RemoveBothKeeps ==
  ASSUME StackExact, phase = "passes", NEW id, NEW b,
         id \in top.graph.live, RemoveBoth(top.graph, id, b)
  PROVE  StackExact'
<1> DEFINE g == top.graph
<1>1. IsExact(g) /\ b \in g.live /\ id \in RemoveNode(g, b).live
  BY TopIsExact DEF RemoveBoth
<1>2. IsExact(RemoveNode(RemoveNode(g, b), id))
  BY <1>1, RemoveKeepsExact
<1> QED
  BY <1>2, ContinueKeeps DEF RemoveBoth

LEMMA MergeIntoKeeps ==
  ASSUME StackExact, phase = "passes", NEW keep, NEW gone, NEW c, NEW ids,
         MergeInto(top.graph, keep, gone, c, ids)
  PROVE  StackExact'
<1> DEFINE g == top.graph
<1>1. IsExact(g) /\ gone \in g.live
  BY TopIsExact DEF MergeInto
<1>2. IsExact(ReplaceCommand(RemoveNode(g, gone), keep, c))
  BY <1>1, RemoveKeepsExact, ReplaceKeepsExact
<1> QED
  BY <1>2, ContinueKeeps DEF MergeInto

\* A call on top of what is left of the stack.
LEMMA OneKeeps ==
  ASSUME NEW S, NEW rest \in Seq(S), \A f \in S : IsFrame(f),
         NEW A, IsFrame(A), frames' = <<A>> \o rest
  PROVE  StackExact'
<1>1. rest \in Seq(S \cup {A}) /\ <<A>> \in Seq(S \cup {A})
  OBVIOUS
<1>2. frames' \in Seq(S \cup {A}) /\ frames' # <<>>
  BY <1>1
<1> QED
  BY <1>2 DEF StackExact

\* The prover sees only Bodies, Rebuilt and ToCommands as they are named.
LEMMA PassStep ==
  ASSUME StackExact, OptNext
  PROVE  StackExact'
<1>1. PICK S : frames \in Seq(S) /\ \A f \in S : IsFrame(f)
  BY DEF StackExact
<1>2. CASE SkipRemoved
  <2>1. phase = "passes" /\ Continue(top.graph, <<>>)
    BY <1>2 DEF SkipRemoved
  <2> QED
    BY <2>1, TopIsExact, ContinueKeeps
<1>3. CASE EnterRegion
  <2> DEFINE B == [top EXCEPT !.work = Tail(@), !.region = Node]
  <2>1. phase = "passes" /\ Optimise(Bodies(top.graph.span[Node])[1], <<B>> \o Tail(frames))
    BY <1>3, Zenon DEF EnterRegion
  <2>2. frames # <<>> /\ top \in S /\ Tail(frames) \in Seq(S)
    BY <1>1, <2>1 DEF StackExact, top
  <2>3. IsFrame(B)
    <3> DEFINE work == Tail(top.work)
               node == Node
    <3>1. B = [top EXCEPT !.work = work, !.region = node]
      OBVIOUS
    <3>2. IsFrame(top)
      BY <1>1, <2>2
    <3> HIDE DEF B, work, node
    <3> QED
      BY <3>1, <3>2 DEF IsFrame
  <2> HIDE DEF B
  <2>4. <<B>> \o Tail(frames) \in Seq(S \cup {B}) /\ \A f \in S \cup {B} : IsFrame(f)
    <3>1. <<B>> \in Seq(S \cup {B}) /\ Tail(frames) \in Seq(S \cup {B})
      BY <2>2
    <3> QED
      BY <1>1, <2>3, <3>1
  <2> QED
    BY <2>1, <2>4, OptimiseKeeps
<1>4. CASE LeaveBody
  <2> DEFINE caller == frames[2]
             span == caller.graph.span[caller.region]
             finished == Append(caller.bodies, ToCommands(top.graph))
             rest == SubSeq(frames, 3, Len(frames))
             B == [caller EXCEPT !.bodies = finished]
             C == [caller EXCEPT !.graph = ReplaceSpan(caller.graph, caller.region, Rebuilt(span, finished)),
                                 !.region = 0, !.bodies = <<>>]
  <2>1. Len(frames) > 1
        /\ \/ Optimise(Bodies(span)[Len(finished) + 1], <<B>> \o rest)
           \/ frames' = <<C>> \o rest
    BY <1>4, Zenon DEF LeaveBody
  <2>2. caller \in S /\ rest \in Seq(S)
    BY <1>1, <2>1
  <2>3. IsFrame(B)
    <3> HIDE DEF caller, finished
    <3> QED
      BY <1>1, <2>2 DEF IsFrame
  <2>4. IsFrame(C)
    <3> DEFINE h == ReplaceSpan(caller.graph, caller.region, Rebuilt(span, finished))
    <3>1. IsFrame(caller)
      BY <1>1, <2>2
    <3>2. IsExact(h)
      BY <3>1, ReplaceKeepsExact DEF IsFrame
    <3> HIDE DEF h, caller
    <3>3. C = [caller EXCEPT !.graph = h, !.region = 0, !.bodies = <<>>]
      BY DEF h
    <3> HIDE DEF C
    <3> QED
      BY <3>1, <3>2, <3>3 DEF IsFrame
  <2> HIDE DEF B, C, caller, rest
  <2>5. <<B>> \o rest \in Seq(S \cup {B}) /\ \A f \in S \cup {B} : IsFrame(f)
    <3>1. <<B>> \in Seq(S \cup {B}) /\ rest \in Seq(S \cup {B})
      BY <2>2
    <3> QED
      BY <1>1, <2>3, <3>1
  <2> QED
    BY <1>1, <2>1, <2>2, <2>4, <2>5, OptimiseKeeps, OneKeeps
<1>5. CASE FinishPass
  <2>1. CASE Len(passes) > 1
    <3> DEFINE A == Frame(top.graph)
    <3>1. frames' = <<A>> /\ phase = "passes"
      BY <1>5, <2>1 DEF FinishPass
    <3>2. IsFrame(A)
      <4>1. IsExact(top.graph)
        BY <3>1, TopIsExact
      <4> QED
        BY <4>1 DEF IsFrame, Frame
    <3> HIDE DEF A
    <3>3. frames' \in Seq({A}) /\ frames' # <<>>
      BY <3>1
    <3> QED
      BY <3>2, <3>3 DEF StackExact
  <2>2. CASE ~ (Len(passes) > 1)
    <3>1. frames' = <<>> /\ phase' # "passes"
      BY <1>5, <2>2 DEF FinishPass
    <3>2. frames' \in Seq({}) /\ \A f \in {} : IsFrame(f)
      BY <3>1
    <3> QED
      BY <3>1, <3>2 DEF StackExact
  <2> QED
    BY <2>1, <2>2
<1>6. CASE DropZero
  <2> DEFINE h == RemoveNode(top.graph, Node)
  <2>1. phase = "passes" /\ Node \in top.graph.live /\ Continue(h, Neighbours(top.graph, Node))
    BY <1>6 DEF DropZero, Working, Rewritable
  <2>2. IsExact(h)
    BY <2>1, TopIsExact, RemoveKeepsExact
  <2> HIDE DEF h
  <2> QED
    BY <2>1, <2>2, ContinueKeeps
<1>7. CASE CombineAdjacent
  <2> DEFINE g == top.graph
             b == Follower(g, Node)
             merged == Merged(g.cmd[Node], g.cmd[b], g.cmd[Node])
             ids == Neighbours(g, Node) \o Neighbours(g, b)
  <2>1. /\ phase = "passes" /\ Node \in g.live
        /\ RemoveBoth(g, Node, b) \/ MergeInto(g, Node, b, merged, ids)
    BY <1>7 DEF CombineAdjacent, Working, CombinesWithNext, Rewritable
  <2> QED
    BY <2>1, RemoveBothKeeps, MergeIntoKeeps
<1>8. CASE CombineAcross
  <2> DEFINE g == top.graph
  <2>1. phase = "passes" /\ Node \in g.live
    BY <1>8 DEF CombineAcross, Working, Rewritable
  <2>2. PICK b : \/ RemoveBoth(g, Node, b)
                 \/ MergeInto(g, b, Node, Merged(g.cmd[Node], g.cmd[b], g.cmd[b]),
                              Neighbours(g, Node) \o Neighbours(g, b))
    BY <1>8 DEF CombineAcross
  <2> QED
    BY <2>1, <2>2, RemoveBothKeeps, MergeIntoKeeps
<1>9. CASE KeepAdjacent \/ KeepAcross
  <2>1. phase = "passes" /\ Continue(top.graph, <<>>)
    BY <1>9 DEF KeepAdjacent, KeepAcross, Working
  <2> QED
    BY <2>1, TopIsExact, ContinueKeeps
<1>10. CASE Fuse
  <2>1. frames' = frames /\ phase' # "passes"
    BY <1>10 DEF Fuse
  <2> QED
    BY <2>1 DEF StackExact
<1>11. CASE OptStart
  BY <1>11, StartStackExact
<1> QED
  BY <1>2, <1>3, <1>4, <1>5, <1>6, <1>7, <1>8, <1>9, <1>10, <1>11 DEF OptNext

\* Before and after the passes nothing touches a graph.
LEMMA RunStep ==
  ASSUME StackExact, [RunNext]_vars
  PROVE  StackExact'
<1>1. CASE Transpile
  <2>1. CASE OptNext
    BY <2>1, PassStep
  <2>2. CASE RebaseOnce \/ Refuse
    <3>1. frames' = frames /\ phase' # "passes"
      BY <2>2, Zenon DEF RebaseOnce, Refuse
    <3> QED
      BY <3>1 DEF StackExact
  <2> QED
    BY <1>1, <2>1, <2>2 DEF Transpile, TranspileNext
<1>2. ASSUME Bind \/ DispatchPart \/ StartBlocks \/ FuseBlocks \/ TakeBlocks \/ Run \/ Finished
             \/ UNCHANGED vars
      PROVE  StackExact'
  <2>1. frames' = frames /\ (phase' = phase \/ phase' # "passes")
    BY <1>2 DEF Bind, DispatchPart, StartBlocks, FuseBlocks, TakeBlocks, Run, Finished, vars,
                transpileVars, optVars
  <2> QED
    BY <2>1 DEF StackExact
<1> QED
  BY <1>1, <1>2 DEF RunNext

\* GraphsExact: on every wire of every graph a pass is working on, prev and
\* next are the nearest live nodes, whatever has been removed or replaced.
THEOREM LinksStayExact == Spec => []GraphsExact
<1>1. RunInit => StackExact
  BY InitStackExact
<1>2. StackExact /\ [RunNext]_vars => StackExact'
  BY RunStep
<1>3. StackExact => GraphsExact
  BY StackExactHolds
<1> QED
  BY <1>1, <1>2, <1>3, PTL DEF Spec

-----------------------------------------------------------------------------
(* Sequences that cover, and the worklist                                   *)

\* What two joined sequences hold.
LEMMA Joined ==
  ASSUME NEW S, NEW a \in Seq(S), NEW b \in Seq(S)
  PROVE  /\ a \o b \in Seq(S) /\ Len(a \o b) = Len(a) + Len(b)
         /\ \A k \in DOMAIN a : k \in DOMAIN (a \o b) /\ (a \o b)[k] = a[k]
         /\ \A k \in DOMAIN b : Len(a) + k \in DOMAIN (a \o b) /\ (a \o b)[Len(a) + k] = b[k]
OBVIOUS

\* A flattened sequence leaves nothing out.
LEMMA FlattenCovers ==
  ASSUME NEW ss, Listed(ss), \A i \in DOMAIN ss : Listed(ss[i]),
         NEW i \in DOMAIN ss, NEW j \in DOMAIN ss[i]
  PROVE  \E m \in DOMAIN FlattenSeq(ss) : FlattenSeq(ss)[m] = ss[i][j]
<1> DEFINE n == Len(ss)
           S == UNION {Range(ss[k]) : k \in DOMAIN ss}
           F == CHOOSE f : f = [k \in 1 .. n |-> IF k = 1 THEN ss[k] ELSE f[k - 1] \o ss[k]]
<1>1. /\ n \in Nat /\ DOMAIN ss = 1 .. n /\ i \in 1 .. n
      /\ \A k \in 1 .. n : Listed(ss[k])
  BY DEF Listed
<1>2. \A k \in 1 .. n : ss[k] \in Seq(S)
  <2> SUFFICES ASSUME NEW k \in 1 .. n PROVE ss[k] \in Seq(S)
    OBVIOUS
  <2>1. PICK T : ss[k] \in Seq(T)
    BY <1>1 DEF Listed
  <2>2. \A x \in 1 .. Len(ss[k]) : ss[k][x] \in S
    BY <1>1, <2>1 DEF Range
  <2> HIDE DEF S
  <2> QED
    BY <2>1, <2>2
<1> HIDE DEF S
<1>3. ss \in Seq(Seq(S))
  <2>1. PICK T : ss \in Seq(T)
    BY DEF Listed
  <2> QED
    BY <1>1, <1>2, <2>1
<1>4. PICK f \in [1 .. n -> Seq(S)] : JoinsUpTo(f, ss, n)
  <2>1. n \in 0 .. Len(ss)
    BY <1>1
  <2> QED
    BY <1>3, <2>1, JoinsExist
<1>5. JoinsUpTo(F, ss, n)
  BY <1>4 DEF JoinsUpTo
<1>6. FlattenSeq(ss) = F[n]
  BY <1>1 DEF FlattenSeq
<1> HIDE DEF F
<1>7. (n # 0 => F[1] = ss[1]) /\ \A k \in 2 .. n : F[k] = F[k - 1] \o ss[k]
  <2> DEFINE J == [k \in 1 .. n |-> IF k = 1 THEN ss[k] ELSE F[k - 1] \o ss[k]]
  <2>1. F = J
    BY <1>5 DEF JoinsUpTo
  <2>2. \A k \in 1 .. n : J[k] = IF k = 1 THEN ss[k] ELSE F[k - 1] \o ss[k]
    OBVIOUS
  <2> HIDE DEF J
  <2>3. \A k \in 2 .. n : k \in 1 .. n /\ k # 1
    BY <1>1
  <2>4. n # 0 => 1 \in 1 .. n
    BY <1>1
  <2>5. n # 0 => F[1] = ss[1]
    BY <2>1, <2>2, <2>4
  <2>6. \A k \in 2 .. n : F[k] = F[k - 1] \o ss[k]
    BY <2>1, <2>2, <2>3
  <2> QED
    BY <2>5, <2>6
<1>8. \A k \in 1 .. n : F[k] \in Seq(S)
  <2> DEFINE Bad == {k \in 1 .. n : F[k] \notin Seq(S)}
  <2> SUFFICES ASSUME Bad # {} PROVE FALSE
    OBVIOUS
  <2>1. PICK m \in Bad : \A k \in Bad : m =< k
    <3>1. Bad \in SUBSET Nat
      OBVIOUS
    <3> HIDE DEF Bad
    <3> QED
      BY <3>1, LeastExists
  <2>2. m \in 1 .. n /\ F[m] \notin Seq(S)
    OBVIOUS
  <2>3. m # 1
    BY <1>2, <1>7, <2>2
  <2>4. m - 1 \in 1 .. n /\ m \in 2 .. n /\ ~ (m =< m - 1)
    BY <1>1, <2>2, <2>3
  <2>5. F[m - 1] \in Seq(S) /\ F[m] = F[m - 1] \o ss[m] /\ ss[m] \in Seq(S)
    BY <1>2, <1>7, <2>1, <2>2, <2>4
  <2>6. F[m] \in Seq(S)
    BY <2>5, Joined
  <2> QED
    BY <2>2, <2>6
<1> DEFINE Has(k) == \E m \in DOMAIN F[k] : F[k][m] = ss[i][j]
           Bad == {k \in i .. n : ~ Has(k)}
<1>9. Has(i)
  <2>1. F[i] \in Seq(S) /\ ss[i] \in Seq(S)
    BY <1>1, <1>2, <1>8
  <2>2. CASE i = 1
    BY <1>1, <1>7, <2>2
  <2>3. CASE i # 1
    <3>1. i \in 2 .. n /\ i - 1 \in 1 .. n
      BY <1>1, <2>3
    <3>2. F[i] = F[i - 1] \o ss[i] /\ F[i - 1] \in Seq(S)
      BY <1>7, <1>8, <3>1
    <3>3. Len(F[i - 1]) + j \in DOMAIN F[i] /\ F[i][Len(F[i - 1]) + j] = ss[i][j]
      BY <2>1, <3>2, Joined
    <3> QED
      BY <3>3
  <2> QED
    BY <2>2, <2>3
<1>10. Bad = {}
  <2> SUFFICES ASSUME Bad # {} PROVE FALSE
    OBVIOUS
  <2>1. PICK m \in Bad : \A k \in Bad : m =< k
    <3>1. Bad \in SUBSET Nat
      BY <1>1
    <3> HIDE DEF Bad
    <3> QED
      BY <3>1, LeastExists
  <2>2. m \in i .. n /\ ~ Has(m)
    OBVIOUS
  <2> HIDE DEF Has
  <2>3. m # i
    BY <1>9, <2>2
  <2>4. m - 1 \in i .. n /\ ~ (m =< m - 1) /\ m \in 2 .. n /\ m \in 1 .. n /\ m - 1 \in 1 .. n
    BY <1>1, <2>2, <2>3
  <2>5. Has(m - 1)
    BY <2>1, <2>4
  <2>6. F[m] = F[m - 1] \o ss[m] /\ F[m - 1] \in Seq(S) /\ ss[m] \in Seq(S)
    BY <1>2, <1>7, <1>8, <2>4
  <2>7. PICK x \in DOMAIN F[m - 1] : F[m - 1][x] = ss[i][j]
    BY <2>5 DEF Has
  <2>8. x \in DOMAIN F[m] /\ F[m][x] = F[m - 1][x]
    <3>1. F[m - 1] \in Seq(S) /\ ss[m] \in Seq(S) /\ x \in DOMAIN F[m - 1]
      BY <2>6
    <3>2. x \in DOMAIN (F[m - 1] \o ss[m]) /\ (F[m - 1] \o ss[m])[x] = F[m - 1][x]
      BY <3>1, Joined
    <3> QED
      BY <2>6, <3>2
  <2> QED
    BY <2>2, <2>7, <2>8 DEF Has
<1>11. n \in i .. n
  BY <1>1
<1>12. Has(n)
  <2> HIDE DEF Has
  <2> QED
    BY <1>10, <1>11
<1> QED
  BY <1>6, <1>12

\* One id enqueued, and the worklists up to the n-th.
Queued(g, w, id) == IF id \in g.live /\ id \notin Range(w) THEN Append(w, id) ELSE w

QueuesUpTo(f, g, work, ids, n) ==
  f = [k \in 0 .. n |-> IF k = 0 THEN work ELSE Queued(g, f[k - 1], ids[k])]

LEMMA QueuesExist ==
  ASSUME NEW g, NEW work, NEW ids, NEW n \in Nat
  PROVE  \E f : QueuesUpTo(f, g, work, ids, n)
<1> DEFINE Bad == {m \in Nat : ~ \E f : QueuesUpTo(f, g, work, ids, m)}
<1> SUFFICES ASSUME Bad # {} PROVE FALSE
  OBVIOUS
<1>1. PICK m \in Bad : \A j \in Bad : m =< j
  <2>1. Bad \in SUBSET Nat
    OBVIOUS
  <2> HIDE DEF Bad
  <2> QED
    BY <2>1, LeastExists
<1>2. m \in Nat /\ ~ \E f : QueuesUpTo(f, g, work, ids, m)
  OBVIOUS
<1>3. CASE m = 0
  <2> DEFINE f == [k \in 0 .. 0 |-> work]
  <2>1. f = [k \in 0 .. 0 |-> IF k = 0 THEN work ELSE Queued(g, f[k - 1], ids[k])]
    OBVIOUS
  <2>2. QueuesUpTo(f, g, work, ids, 0)
    BY <2>1 DEF QueuesUpTo
  <2> QED
    BY <1>2, <1>3, <2>2
<1>4. CASE m # 0
  <2>1. m - 1 \in Nat /\ ~ (m =< m - 1)
    BY <1>2, <1>4
  <2>2. m - 1 \notin Bad
    <3> HIDE DEF Bad
    <3> QED
      BY <1>1, <2>1
  <2>3. PICK f : QueuesUpTo(f, g, work, ids, m - 1)
    BY <2>1, <2>2
  <2> DEFINE last == Queued(g, f[m - 1], ids[m])
             h == [k \in 0 .. m |-> IF k = m THEN last ELSE f[k]]
             J == [k \in 0 .. m - 1 |-> IF k = 0 THEN work ELSE Queued(g, f[k - 1], ids[k])]
  <2>4. f = J
    BY <2>3 DEF QueuesUpTo
  <2>5. \A k \in 0 .. m - 1 : J[k] = IF k = 0 THEN work ELSE Queued(g, f[k - 1], ids[k])
    OBVIOUS
  <2> HIDE DEF J
  <2>6. \A k \in 0 .. m - 1 : f[k] = IF k = 0 THEN work ELSE Queued(g, f[k - 1], ids[k])
    BY <2>4, <2>5
  <2> HIDE DEF last
  <2>7. h[m] = last /\ \A k \in 0 .. m - 1 : h[k] = f[k]
    BY <1>2, <2>1
  <2>8. h = [k \in 0 .. m |-> h[k]]
    OBVIOUS
  <2> HIDE DEF h
  <2>9. ASSUME NEW k \in 0 .. m
        PROVE  h[k] = IF k = 0 THEN work ELSE Queued(g, h[k - 1], ids[k])
    <3>1. CASE k = m
      <4>1. k # 0 /\ h[k - 1] = f[m - 1]
        BY <1>4, <2>1, <2>7, <3>1
      <4> QED
        BY <2>7, <3>1, <4>1 DEF last
    <3>2. CASE k # m
      <4>1. k \in 0 .. m - 1 /\ (k # 0 => k - 1 \in 0 .. m - 1)
        BY <1>2, <3>2
      <4> QED
        BY <2>6, <2>7, <4>1
    <3> QED
      BY <3>1, <3>2
  <2>10. h = [k \in 0 .. m |-> IF k = 0 THEN work ELSE Queued(g, h[k - 1], ids[k])]
    BY <2>8, <2>9
  <2>11. QueuesUpTo(h, g, work, ids, m)
    BY <2>10 DEF QueuesUpTo
  <2> QED
    BY <1>2, <2>11
<1> QED
  BY <1>3, <1>4

\* enqueue keeps the worklist and adds the id if it is live.
LEMMA QueuedHolds ==
  ASSUME NEW g, NEW w, Listed(w), NEW id
  PROVE  /\ Listed(Queued(g, w, id)) /\ Range(w) \subseteq Range(Queued(g, w, id))
         /\ id \in g.live => id \in Range(Queued(g, w, id))
<1>1. CASE id \in g.live /\ id \notin Range(w)
  <2> DEFINE a == Append(w, id)
  <2>1. PICK S : w \in Seq(S)
    BY DEF Listed
  <2>2. /\ w \in Seq(S \cup {id}) /\ id \in S \cup {id}
    BY <2>1
  <2>3. a \in Seq(S \cup {id})
    BY <2>2
  <2>4. /\ DOMAIN w = 1 .. Len(w) /\ DOMAIN a = 1 .. Len(w) + 1 /\ Len(w) \in Nat
        /\ a[Len(w) + 1] = id /\ \A k \in 1 .. Len(w) : a[k] = w[k]
    BY <2>1
  <2>5. Queued(g, w, id) = a
    BY <1>1 DEF Queued
  <2> HIDE DEF a
  <2>6. \A k \in DOMAIN w : k \in DOMAIN a /\ a[k] = w[k]
    BY <2>4
  <2>7. Len(w) + 1 \in DOMAIN a
    BY <2>4
  <2>8. Range(w) \subseteq Range(a) /\ id \in Range(a)
    BY <2>4, <2>6, <2>7 DEF Range
  <2> QED
    BY <2>3, <2>5, <2>8 DEF Listed
<1>2. CASE ~ (id \in g.live /\ id \notin Range(w))
  BY <1>2 DEF Queued
<1> QED
  BY <1>1, <1>2

\* After enqueue the worklist holds what it held, and the live ones of the ids.
LEMMA EnqueueHolds ==
  ASSUME NEW g, NEW work, Listed(work), NEW ids, Listed(ids)
  PROVE  /\ Listed(Enqueue(g, work, ids))
         /\ Range(work) \subseteq Range(Enqueue(g, work, ids))
         /\ Range(ids) \cap g.live \subseteq Range(Enqueue(g, work, ids))
<1> DEFINE n == Len(ids)
           F == CHOOSE f : f = [k \in 0 .. n |->
                  IF k = 0 THEN work ELSE Queued(g, f[k - 1], ids[k])]
<1>1. n \in Nat /\ DOMAIN ids = 1 .. n
  BY DEF Listed
<1>2. QueuesUpTo(F, g, work, ids, n)
  <2>1. PICK f : QueuesUpTo(f, g, work, ids, n)
    BY <1>1, QueuesExist
  <2> QED
    BY <2>1 DEF QueuesUpTo
<1>3. Enqueue(g, work, ids) = F[n]
  BY DEF Enqueue, Queued
<1> HIDE DEF F
<1>4. F[0] = work /\ \A k \in 1 .. n : F[k] = Queued(g, F[k - 1], ids[k])
  <2> DEFINE J == [k \in 0 .. n |-> IF k = 0 THEN work ELSE Queued(g, F[k - 1], ids[k])]
  <2>1. F = J
    BY <1>2 DEF QueuesUpTo
  <2>2. \A k \in 0 .. n : J[k] = IF k = 0 THEN work ELSE Queued(g, F[k - 1], ids[k])
    OBVIOUS
  <2> HIDE DEF J
  <2>3. 0 \in 0 .. n /\ \A k \in 1 .. n : k \in 0 .. n /\ k # 0
    BY <1>1
  <2>4. F[0] = work
    BY <2>1, <2>2, <2>3
  <2>5. \A k \in 1 .. n : F[k] = Queued(g, F[k - 1], ids[k])
    BY <2>1, <2>2, <2>3
  <2> QED
    BY <2>4, <2>5
<1> DEFINE AllQueued(k) ==
             /\ Listed(F[k]) /\ Range(work) \subseteq Range(F[k])
             /\ \A j \in 1 .. k : ids[j] \in g.live => ids[j] \in Range(F[k])
           Bad == {k \in 0 .. n : ~ AllQueued(k)}
<1>5. Bad = {}
  <2> SUFFICES ASSUME Bad # {} PROVE FALSE
    OBVIOUS
  <2>1. PICK m \in Bad : \A k \in Bad : m =< k
    <3>1. Bad \in SUBSET Nat
      BY <1>1
    <3> HIDE DEF Bad
    <3> QED
      BY <3>1, LeastExists
  <2>2. m \in 0 .. n /\ ~ AllQueued(m)
    OBVIOUS
  <2>3. m # 0
    <3>1. AllQueued(0)
      BY <1>4
    <3> QED
      BY <2>2, <3>1
  <2>4. m \in 1 .. n /\ m - 1 \in 0 .. n /\ ~ (m =< m - 1)
    BY <1>1, <2>2, <2>3
  <2>5. AllQueued(m - 1)
    <3> HIDE DEF AllQueued
    <3> QED
      BY <2>1, <2>4
  <2>6. F[m] = Queued(g, F[m - 1], ids[m])
    BY <1>4, <2>4
  <2>7. /\ Listed(F[m]) /\ Range(F[m - 1]) \subseteq Range(F[m])
        /\ ids[m] \in g.live => ids[m] \in Range(F[m])
    BY <2>5, <2>6, QueuedHolds
  <2>8. ASSUME NEW j \in 1 .. m, ids[j] \in g.live PROVE ids[j] \in Range(F[m])
    <3>1. CASE j = m
      BY <2>7, <2>8, <3>1
    <3>2. CASE j # m
      <4>1. j \in 1 .. m - 1
        BY <2>4, <3>2
      <4> QED
        BY <2>5, <2>7, <2>8, <4>1
    <3> QED
      BY <3>1, <3>2
  <2>9. Range(work) \subseteq Range(F[m])
    BY <2>5, <2>7
  <2> QED
    BY <2>2, <2>7, <2>8, <2>9
<1>6. n \in 0 .. n
  BY <1>1
<1>7. AllQueued(n)
  <2> HIDE DEF AllQueued
  <2> QED
    BY <1>5, <1>6
<1>8. Range(ids) \cap g.live \subseteq Range(F[n])
  BY <1>1, <1>7 DEF Range
<1> QED
  BY <1>3, <1>7, <1>8

-----------------------------------------------------------------------------
\* A finite set of numbers in order: all of them and no other.
LEMMA InOrderHolds ==
  ASSUME NEW S \in SUBSET Nat, IsFiniteSet(S)
  PROVE  Listed(InOrder(S)) /\ S = Range(InOrder(S))
<1> DEFINE Below(m) == {j \in S : j < m}
           Nth(m) == Cardinality(Below(m))
           n == Cardinality(S)
           rank == [m \in S |-> Nth(m)]
           At(k) == CHOOSE m \in S : Nth(m) = k - 1
           f == [k \in 1 .. n |-> At(k)]
<1>1. InOrder(S) = f
  BY DEF InOrder
<1>2. n \in Nat
  BY FS_CardinalityType
<1>3. \A m \in S : IsFiniteSet(Below(m)) /\ Nth(m) \in Nat /\ Nth(m) =< n - 1
  <2> SUFFICES ASSUME NEW m \in S PROVE IsFiniteSet(Below(m)) /\ Nth(m) \in Nat /\ Nth(m) =< n - 1
    OBVIOUS
  <2>1. Below(m) \subseteq S /\ Below(m) # S
    OBVIOUS
  <2>2. IsFiniteSet(Below(m)) /\ Cardinality(Below(m)) < Cardinality(S)
    BY <2>1, FS_Subset, FS_CardinalityType
  <2>3. Cardinality(Below(m)) \in Nat
    BY <2>2, FS_CardinalityType
  <2> QED
    BY <1>2, <2>2, <2>3
<1>4. \A m, k \in S : m < k => Nth(m) < Nth(k)
  <2> SUFFICES ASSUME NEW m \in S, NEW k \in S, m < k PROVE Nth(m) < Nth(k)
    OBVIOUS
  <2>1. Below(m) \subseteq Below(k) /\ m \in Below(k) /\ m \notin Below(m)
    <3>1. m \in Nat /\ k \in Nat /\ m < k
      OBVIOUS
    <3>2. \A j \in S : j \in Nat /\ (j < m => j < k)
      BY <3>1
    <3>3. ~ (m < m)
      BY <3>1
    <3> QED
      BY <3>1, <3>2, <3>3, Zenon
  <2>2. Below(m) # Below(k)
    BY <2>1
  <2> QED
    BY <1>3, <2>1, <2>2, FS_Subset
<1>5. /\ \A m \in S : rank[m] = Nth(m) /\ rank[m] \in Nat /\ rank[m] =< n - 1
      /\ \A m, k \in S : m < k => rank[m] < rank[k]
  BY <1>3, <1>4
<1> HIDE DEF rank, n
<1>6. ASSUME NEW m \in S PROVE m \in Range(f)
  <2> DEFINE r == rank[m]
  <2>1. r \in Nat /\ r + 1 \in 1 .. n /\ (r + 1) - 1 = r
    <3>1. r \in Nat /\ r =< n - 1
      BY <1>5
    <3> HIDE DEF r
    <3> QED
      BY <1>2, <3>1
  <2>2. ASSUME NEW k \in S, Nth(k) = r PROVE k = m
    <3>1. rank[k] = rank[m] /\ k \in Nat /\ m \in Nat
      BY <1>5, <2>2
    <3>2. rank[m] \in Nat /\ rank[k] \in Nat
      BY <1>5
    <3>3. ~ (rank[m] < rank[k]) /\ ~ (rank[k] < rank[m])
      BY <3>1, <3>2
    <3>4. ~ (m < k) /\ ~ (k < m)
      BY <1>5, <3>3
    <3> QED
      BY <3>1, <3>4
  <2>3. Nth(m) = r
    BY <1>5
  <2>4. At(r + 1) = m
    <3> HIDE DEF Nth, r
    <3> QED
      BY <2>1, <2>2, <2>3
  <2> HIDE DEF At
  <2>5. r + 1 \in DOMAIN f /\ f[r + 1] = m
    BY <2>1, <2>4
  <2> QED
    BY <2>5 DEF Range
<1>7. Listed(f)
  <2> HIDE DEF At
  <2> DEFINE T == {At(k) : k \in 1 .. n}
  <2>1. f \in [1 .. n -> T]
    OBVIOUS
  <2>2. f \in Seq(T)
    BY <1>2, <2>1
  <2> QED
    BY <2>2 DEF Listed
<1>8. ASSUME NEW k \in 1 .. n PROVE f[k] \in S
  <2> DEFINE place == [m \in S |-> rank[m] + 1]
  <2>1. place \in [S -> 1 .. n]
    <3>1. ASSUME NEW m \in S PROVE rank[m] + 1 \in 1 .. n
      <4> DEFINE r == rank[m]
      <4>1. r \in Nat /\ r =< n - 1
        BY <1>5
      <4> HIDE DEF r
      <4>2. r + 1 \in 1 .. n
        BY <1>2, <4>1
      <4> QED
        BY <4>2 DEF r
    <3> QED
      BY <3>1
  <2>2. ASSUME NEW m \in S, NEW j \in S, place[m] = place[j] PROVE m = j
    <3> DEFINE r == rank[m]
               o == rank[j]
    <3>1. r \in Nat /\ o \in Nat /\ r + 1 = o + 1
      BY <1>5, <2>2
    <3> HIDE DEF r, o
    <3>2. ~ (r < o) /\ ~ (o < r)
      BY <3>1
    <3>3. ~ (m < j) /\ ~ (j < m) /\ m \in Nat /\ j \in Nat
      BY <1>5, <3>2 DEF r, o
    <3> QED
      BY <3>3
  <2>3. place \in Injection(S, 1 .. n)
    <3> HIDE DEF place
    <3> QED
      BY <2>1, <2>2 DEF Injection, IsInjective
  <2>4. IsFiniteSet(1 .. n) /\ Cardinality(1 .. n) = n /\ Cardinality(S) = n
    <3>1. Cardinality(1 .. n) = IF 1 > n THEN 0 ELSE n - 1 + 1
      BY <1>2, FS_Interval
    <3> QED
      BY <1>2, <3>1, FS_Interval DEF n
  <2>5. place \in Surjection(S, 1 .. n)
    <3> HIDE DEF place
    <3> QED
      BY <2>3, <2>4, FS_Injection
  <2>6. PICK m \in S : place[m] = k
    <3> HIDE DEF place
    <3> QED
      BY <2>5 DEF Surjection
  <2>7. Nth(m) = k - 1
    BY <1>2, <1>5, <2>6
  <2>8. At(k) \in S
    <3> HIDE DEF Nth
    <3> QED
      BY <2>7
  <2> HIDE DEF At
  <2> QED
    BY <2>8
<1>9. Range(f) \subseteq S
  <2>1. DOMAIN f = 1 .. n
    OBVIOUS
  <2> HIDE DEF f
  <2> QED
    BY <1>8, <2>1 DEF Range
<1> QED
  BY <1>1, <1>6, <1>7, <1>9

\* Two lists joined, as sets.
LEMMA JoinRange ==
  ASSUME NEW a, Listed(a), NEW b, Listed(b)
  PROVE  Listed(a \o b) /\ Range(a \o b) = Range(a) \cup Range(b)
<1>1. PICK S : a \in Seq(S)
  BY DEF Listed
<1>2. PICK T : b \in Seq(T)
  BY DEF Listed
<1>3. a \in Seq(S \cup T) /\ b \in Seq(S \cup T)
  BY <1>1, <1>2
<1> DEFINE c == a \o b
<1>4. /\ c \in Seq(S \cup T) /\ Len(c) = Len(a) + Len(b)
      /\ Len(a) \in Nat /\ Len(b) \in Nat
      /\ DOMAIN c = 1 .. Len(c) /\ DOMAIN a = 1 .. Len(a) /\ DOMAIN b = 1 .. Len(b)
  BY <1>3
<1>5. /\ \A k \in DOMAIN a : k \in DOMAIN c /\ c[k] = a[k]
      /\ \A k \in DOMAIN b : Len(a) + k \in DOMAIN c /\ c[Len(a) + k] = b[k]
  BY <1>3
<1>6. ASSUME NEW k \in DOMAIN c PROVE c[k] \in Range(a) \cup Range(b)
  <2>1. CASE k =< Len(a)
    <3>1. k \in DOMAIN a
      BY <1>4, <2>1
    <3> HIDE DEF c
    <3> QED
      BY <1>5, <3>1 DEF Range
  <2>2. CASE ~ (k =< Len(a))
    <3>1. k - Len(a) \in DOMAIN b /\ Len(a) + (k - Len(a)) = k
      BY <1>4, <2>2
    <3>2. c[k] = b[k - Len(a)]
      BY <1>5, <3>1
    <3> HIDE DEF c
    <3> QED
      BY <3>1, <3>2 DEF Range
  <2> QED
    BY <2>1, <2>2
<1> HIDE DEF c
<1>7. Range(c) = Range(a) \cup Range(b)
  BY <1>5, <1>6 DEF Range
<1>8. Listed(c)
  BY <1>4 DEF Listed
<1> QED
  BY <1>7, <1>8 DEF c

\* The wires a command lists are those it acts on.
LEMMA WireSeqRange ==
  ASSUME NEW c, Shaped(c)
  PROVE  /\ Listed(WireSeq(c))
         /\ Range(WireSeq(c)) = {<<"qubit", q>> : q \in Operands(c)}
              \cup {<<"cbit", b>> : b \in c.bits}
              \cup (IF c.gate = "GPhase" THEN {GlobalWire} ELSE {})
<1> DEFINE q == [k \in DOMAIN c.qubits |-> <<"qubit", c.qubits[k]>>]
           b == [k \in DOMAIN c.cbits |-> <<"cbit", c.cbits[k]>>]
           d == [k \in DOMAIN c.cond |-> <<"cbit", c.cond[k][1]>>]
           e == IF c.gate = "GPhase" THEN <<GlobalWire>> ELSE <<>>
<1>1. WireSeq(c) = q \o b \o d \o e
  BY DEF WireSeq
<1>2. /\ q = [k \in DOMAIN c.qubits |-> q[k]] /\ b = [k \in DOMAIN c.cbits |-> b[k]]
      /\ d = [k \in DOMAIN c.cond |-> d[k]]
  OBVIOUS
<1>3. /\ Range(q) = {<<"qubit", x>> : x \in Operands(c)}
      /\ Range(b) = {<<"cbit", x>> : x \in Range(c.cbits)}
      /\ Range(d) = {<<"cbit", c.cond[k][1]>> : k \in DOMAIN c.cond}
  BY DEF Range, Operands
<1>4. Range(e) = (IF c.gate = "GPhase" THEN {GlobalWire} ELSE {}) /\ Listed(e)
  <2>1. CASE c.gate = "GPhase"
    <3>1. Listed(e) /\ DOMAIN e = {1} /\ e[1] = GlobalWire
      BY <2>1, OneListed
    <3> QED
      BY <2>1, <3>1 DEF Range
  <2>2. CASE c.gate # "GPhase"
    <3>1. e = <<>> /\ <<>> \in Seq({})
      BY <2>2
    <3>2. Listed(e) /\ DOMAIN e = {}
      BY <3>1 DEF Listed
    <3> HIDE DEF e
    <3> QED
      BY <2>2, <3>2 DEF Range
  <2> QED
    BY <2>1, <2>2
<1> HIDE DEF q, b, d, e
<1>5. Listed(q) /\ Listed(b) /\ Listed(d)
  BY <1>2, MappedListed DEF Shaped
<1>6. Listed(q \o b) /\ Range(q \o b) = Range(q) \cup Range(b)
  BY <1>5, JoinRange
<1>7. Listed(q \o b \o d) /\ Range(q \o b \o d) = Range(q) \cup Range(b) \cup Range(d)
  BY <1>5, <1>6, JoinRange
<1>8. /\ Listed(q \o b \o d \o e)
      /\ Range(q \o b \o d \o e) = Range(q) \cup Range(b) \cup Range(d) \cup Range(e)
  BY <1>4, <1>7, JoinRange
<1>9. {<<"cbit", x>> : x \in c.bits} = Range(b) \cup Range(d)
  <2>1. c.bits = Range(c.cbits) \cup {c.cond[k][1] : k \in DOMAIN c.cond}
    BY ShapedBits
  <2> QED
    BY <1>3, <2>1
<1> QED
  BY <1>1, <1>3, <1>4, <1>8, <1>9

-----------------------------------------------------------------------------
\* A part of a stream of commands is one.
LEMMA PartShaped ==
  ASSUME NEW s, ShapedStream(s), NEW m \in Nat \ {0}, NEW n \in Int, n =< Len(s)
  PROVE  /\ ShapedStream(SubSeq(s, m, n))
         /\ m =< n => SubSeq(s, m, n) # <<>>
<1>1. PICK S : s \in Seq(S)
  BY DEF ShapedStream, Listed
<1> DEFINE p == SubSeq(s, m, n)
<1>2. CASE m =< n
  <2>1. /\ p \in Seq(S) /\ Len(p) = n - m + 1 /\ Len(s) \in Nat
        /\ DOMAIN p = 1 .. n - m + 1 /\ DOMAIN s = 1 .. Len(s)
    BY <1>1, <1>2
  <2>2. \A k \in 1 .. n - m + 1 : p[k] = s[m + k - 1] /\ m + k - 1 \in DOMAIN s
    BY <1>1, <1>2
  <2>3. p # <<>>
    BY <1>2, <2>1
  <2> HIDE DEF p
  <2> QED
    BY <2>1, <2>2, <2>3 DEF ShapedStream, Listed, p
<1>3. CASE ~ (m =< n)
  <2>1. p = <<>> /\ p \in Seq(S) /\ DOMAIN p = {}
    BY <1>1, <1>3
  <2> QED
    BY <1>3, <2>1 DEF ShapedStream, Listed
<1> QED
  BY <1>2, <1>3

LEMMA JoinShaped ==
  ASSUME NEW a, ShapedStream(a), NEW b, ShapedStream(b)
  PROVE  ShapedStream(a \o b)
<1>1. Listed(a \o b) /\ Range(a \o b) = Range(a) \cup Range(b)
  BY JoinRange DEF ShapedStream
<1>2. \A x \in Range(a) \cup Range(b) : Shaped(x)
  BY DEF ShapedStream, Range
<1>3. \A i \in DOMAIN (a \o b) : (a \o b)[i] \in Range(a \o b)
  BY DEF Range
<1> QED
  BY <1>1, <1>2, <1>3 DEF ShapedStream

LEMMA SingleShaped ==
  ASSUME NEW c, Shaped(c)
  PROVE  ShapedStream(<<c>>)
BY OneListed DEF ShapedStream

-----------------------------------------------------------------------------
(* Graphs of well-shaped commands                                           *)

\* The graph's nodes are commands and regions; a node that is neither a region
\* nor a fence is on the wires its command lists.
ShapedGraph(g) ==
  /\ IsFiniteSet(g.live) /\ g.live \subseteq DOMAIN g.cmd /\ g.live \subseteq DOMAIN g.span
  /\ \A i \in g.live : Shaped(g.cmd[i]) /\ ShapedStream(g.span[i])
  /\ \A i \in g.live :
       ~ IsRegionNode(g, i) /\ ~ IsFence(g.cmd[i]) => g.wires[i] = Range(WireSeq(g.cmd[i]))

LEMMA NodesFinite ==
  ASSUME NEW s, Len(s) \in Nat
  PROVE  IsFiniteSet(Nodes(s)) /\ Nodes(s) \subseteq 1 .. Len(s)
<1>1. IsFiniteSet(1 .. Len(s))
  BY FS_Interval
<1>2. Nodes(s) \subseteq 1 .. Len(s)
  BY DEF Nodes
<1> QED
  BY <1>1, <1>2, FS_Subset

LEMMA FromCommandsShaped ==
  ASSUME NEW s, ShapedStream(s), WellFormed(s)
  PROVE  ShapedGraph(FromCommands(s))
<1> DEFINE g == FromCommands(s)
           b == Bare(s)
<1>1. Len(s) \in Nat /\ DOMAIN s = 1 .. Len(s) /\ \A i \in 1 .. Len(s) : Shaped(s[i])
  BY DEF ShapedStream, Listed
<1>2. /\ b.live = Nodes(s)
      /\ b.wires = [i \in Nodes(s) |-> Wires(s, i)]
      /\ b.cmd = [i \in Nodes(s) |-> s[i]]
      /\ b.span = [i \in Nodes(s) |->
                     IF IsRegion(s, i) THEN SubSeq(s, i, NodeEnd(s, i)) ELSE <<>>]
  BY DEF Bare
<1>3. g.live = b.live /\ g.wires = b.wires /\ g.cmd = b.cmd /\ g.span = b.span
  <2> DEFINE P == [i \in b.live |-> [w \in b.wires[i] |-> TailBefore(b, i, w)]]
             N == [i \in b.live |-> [w \in b.wires[i] |-> HeadAfter(b, i, w)]]
  <2>1. b = [live |-> b.live, wires |-> b.wires, cmd |-> b.cmd, span |-> b.span,
             prev |-> b.prev, next |-> b.next]
    BY DEF Bare
  <2>2. g = [b EXCEPT !.prev = P, !.next = N]
    BY DEF FromCommands
  <2> HIDE DEF P, N, g, b
  <2> QED
    BY <2>1, <2>2
<1> HIDE DEF g, b
<1>4. IsFiniteSet(Nodes(s)) /\ Nodes(s) \subseteq 1 .. Len(s)
  BY <1>1, NodesFinite
<1>5. ASSUME NEW i \in Nodes(s)
      PROVE  /\ Shaped(g.cmd[i]) /\ ShapedStream(g.span[i])
             /\ ~ IsRegionNode(g, i) /\ ~ IsFence(g.cmd[i])
                  => g.wires[i] = Range(WireSeq(g.cmd[i]))
  <2>1. i \in 1 .. Len(s) /\ NodeEnd(s, i) \in i .. Len(s)
    BY <1>1, NodeEndsIn
  <2>2. g.cmd[i] = s[i] /\ g.wires[i] = Wires(s, i)
    BY <1>2, <1>3
  <2>3. Shaped(s[i])
    BY <1>1, <2>1
  <2>4. CASE IsRegion(s, i)
    <3>1. g.span[i] = SubSeq(s, i, NodeEnd(s, i))
      BY <1>2, <1>3, <2>4
    <3>2. /\ i \in Nat \ {0} /\ NodeEnd(s, i) \in Int /\ NodeEnd(s, i) =< Len(s)
          /\ i =< NodeEnd(s, i)
      BY <1>1, <2>1
    <3>3. ShapedStream(g.span[i]) /\ g.span[i] # <<>>
      BY <3>1, <3>2, PartShaped
    <3> QED
      BY <2>2, <2>3, <3>3 DEF IsRegionNode
  <2>5. CASE ~ IsRegion(s, i)
    <3>1. g.span[i] = <<>>
      BY <1>2, <1>3, <2>5
    <3>2. ShapedStream(<<>>)
      <4>1. <<>> \in Seq({}) /\ DOMAIN <<>> = {}
        OBVIOUS
      <4> QED
        BY <4>1 DEF ShapedStream, Listed
    <3>3. ASSUME ~ IsFence(s[i])
          PROVE  Wires(s, i) = Range(WireSeq(s[i]))
      <4>1. Wires(s, i) = {<<"qubit", q>> : q \in Operands(s[i])}
               \cup {<<"cbit", x>> : x \in s[i].bits}
               \cup (IF s[i].gate = "GPhase" THEN {GlobalWire} ELSE {})
        BY <2>5, <3>3 DEF Wires
      <4> QED
        BY <2>3, <4>1, WireSeqRange
    <3> QED
      BY <2>2, <2>3, <3>1, <3>2, <3>3
  <2> QED
    BY <2>4, <2>5
<1>6. g.live = Nodes(s) /\ Nodes(s) = DOMAIN g.cmd /\ Nodes(s) = DOMAIN g.span
  BY <1>2, <1>3
<1>7. ShapedGraph(g)
  BY <1>4, <1>5, <1>6 DEF ShapedGraph
<1> QED
  BY <1>7 DEF g

-----------------------------------------------------------------------------
\* The emission, up to the n-th node.
EmittedUpTo(f, g, n) ==
  f = [k \in 0 .. n |->
         IF k = 0 THEN <<>> ELSE Append(f[k - 1], NextReady(g, Range(f[k - 1])))]

LEMMA EmissionExists ==
  ASSUME NEW g, NEW n \in Nat
  PROVE  \E f : EmittedUpTo(f, g, n)
<1> DEFINE Bad == {m \in Nat : ~ \E f : EmittedUpTo(f, g, m)}
<1> SUFFICES ASSUME Bad # {} PROVE FALSE
  OBVIOUS
<1>1. PICK m \in Bad : \A j \in Bad : m =< j
  <2>1. Bad \in SUBSET Nat
    OBVIOUS
  <2> HIDE DEF Bad
  <2> QED
    BY <2>1, LeastExists
<1>2. m \in Nat /\ ~ \E f : EmittedUpTo(f, g, m)
  OBVIOUS
<1> DEFINE none == <<>>
           Further(s) == Append(s, NextReady(g, Range(s)))
<1>3. CASE m = 0
  <2> DEFINE f == [k \in 0 .. 0 |-> none]
  <2>1. f = [k \in 0 .. 0 |-> IF k = 0 THEN none ELSE Further(f[k - 1])]
    OBVIOUS
  <2>2. EmittedUpTo(f, g, 0)
    BY <2>1 DEF EmittedUpTo
  <2> QED
    BY <1>2, <1>3, <2>2
<1>4. CASE m # 0
  <2>1. m - 1 \in Nat /\ ~ (m =< m - 1)
    BY <1>2, <1>4
  <2>2. m - 1 \notin Bad
    <3> HIDE DEF Bad
    <3> QED
      BY <1>1, <2>1
  <2>3. PICK f : EmittedUpTo(f, g, m - 1)
    BY <2>1, <2>2
  <2> DEFINE last == Further(f[m - 1])
             h == [k \in 0 .. m |-> IF k = m THEN last ELSE f[k]]
             J == [k \in 0 .. m - 1 |-> IF k = 0 THEN none ELSE Further(f[k - 1])]
  <2>4. f = J
    BY <2>3 DEF EmittedUpTo
  <2>5. \A k \in 0 .. m - 1 : J[k] = IF k = 0 THEN none ELSE Further(f[k - 1])
    OBVIOUS
  <2> HIDE DEF J
  <2>6. \A k \in 0 .. m - 1 : f[k] = IF k = 0 THEN none ELSE Further(f[k - 1])
    BY <2>4, <2>5
  <2> HIDE DEF last
  <2>7. h[m] = last /\ \A k \in 0 .. m - 1 : h[k] = f[k]
    BY <1>2, <2>1
  <2>8. h = [k \in 0 .. m |-> h[k]]
    OBVIOUS
  <2> HIDE DEF h, none
  <2>9. ASSUME NEW k \in 0 .. m
        PROVE  h[k] = IF k = 0 THEN none ELSE Further(h[k - 1])
    <3>1. CASE k = m
      <4>1. k # 0 /\ h[k - 1] = f[m - 1]
        BY <1>4, <2>1, <2>7, <3>1
      <4> QED
        BY <2>7, <3>1, <4>1 DEF last
    <3>2. CASE k # m
      <4>1. k \in 0 .. m - 1 /\ (k # 0 => k - 1 \in 0 .. m - 1)
        BY <1>2, <3>2
      <4> QED
        BY <2>6, <2>7, <4>1
    <3> QED
      BY <3>1, <3>2
  <2>10. h = [k \in 0 .. m |-> IF k = 0 THEN none ELSE Further(h[k - 1])]
    BY <2>8, <2>9
  <2>11. EmittedUpTo(h, g, m)
    BY <2>10 DEF EmittedUpTo, none
  <2> QED
    BY <1>2, <2>11
<1> QED
  BY <1>3, <1>4

\* What has been emitted: so many nodes, and no later one before an earlier one.
Emission(g, s, k) ==
  /\ Listed(s) /\ Range(s) \subseteq g.live /\ IsFiniteSet(Range(s)) /\ Cardinality(Range(s)) = k
  /\ \A i \in Range(s) : \A j \in g.live \ Range(s) : i < j
  /\ Rising(s)

LEMMA OneMoreEmitted ==
  ASSUME NEW g, IsExact(g), IsFiniteSet(g.live), NEW k \in Nat, k < Cardinality(g.live),
         NEW s, Emission(g, s, k)
  PROVE  Emission(g, Append(s, NextReady(g, Range(s))), k + 1)
<1> DEFINE E == Range(s)
           n == NextReady(g, E)
           t == Append(s, n)
<1>1. /\ E \subseteq g.live /\ IsFiniteSet(E) /\ Cardinality(E) = k
      /\ \A i \in E : \A j \in g.live \ E : i < j
  BY DEF Emission
<1>2. g.live \ E # {}
  BY <1>1
<1>3. n \in g.live \ E /\ \A j \in g.live \ E : n =< j
  BY <1>1, <1>2, EmissionKeepsTheOrder
<1> HIDE DEF n, E
<1>4. Listed(t) /\ Range(t) = E \cup {n}
  <2>1. Listed(<<n>>) /\ Range(<<n>>) = {n}
    <3>1. Listed(<<n>>) /\ DOMAIN <<n>> = {1} /\ <<n>>[1] = n
      BY OneListed
    <3> QED
      BY <3>1 DEF Range
  <2>2. PICK S : s \in Seq(S)
    BY DEF Emission, Listed
  <2>3. t = s \o <<n>>
    BY <2>2
  <2>4. Listed(s)
    BY DEF Emission
  <2> QED
    BY <2>1, <2>3, <2>4, JoinRange DEF E
<1>5. IsFiniteSet(E \cup {n}) /\ Cardinality(E \cup {n}) = k + 1
  BY <1>1, <1>3, FS_AddElement
<1>6. ASSUME NEW i \in E \cup {n}, NEW j \in g.live \ (E \cup {n}) PROVE i < j
  <2>1. j \in g.live \ E /\ j # n
    OBVIOUS
  <2>2. CASE i \in E
    BY <1>1, <2>1, <2>2
  <2>3. CASE i = n
    <3>1. n =< j /\ n \in Nat /\ j \in Nat
      BY <1>3, <2>1 DEF IsExact, IsGraph
    <3> QED
      BY <2>1, <2>3, <3>1
  <2> QED
    BY <2>2, <2>3
<1>7. Rising(t)
  <2>1. PICK S : s \in Seq(S)
    BY DEF Emission, Listed
  <2>2. /\ DOMAIN t = 1 .. Len(s) + 1 /\ Len(s) \in Nat /\ DOMAIN s = 1 .. Len(s)
        /\ t[Len(s) + 1] = n /\ \A a \in DOMAIN s : t[a] = s[a]
    BY <2>1
  <2>3. \A a \in DOMAIN s : s[a] < n
    BY <1>1, <1>3 DEF E, Range
  <2>4. \A a, b \in DOMAIN s : a < b => s[a] < s[b]
    BY DEF Emission, Rising
  <2> HIDE DEF t
  <2>5. ASSUME NEW a \in DOMAIN t, NEW b \in DOMAIN t, a < b
        PROVE  t[a] < t[b]
    <3>1. a \in DOMAIN s
      BY <2>2, <2>5
    <3>2. b \in DOMAIN s \/ b = Len(s) + 1
      BY <2>2
    <3> QED
      BY <2>2, <2>3, <2>4, <2>5, <3>1, <3>2
  <2> QED
    BY <2>5 DEF Rising
<1>8. Emission(g, t, k + 1)
  <2> HIDE DEF t
  <2> QED
    BY <1>1, <1>3, <1>4, <1>5, <1>6, <1>7 DEF Emission
<1> QED
  BY <1>8 DEF t, n, E

\* to_commands writes out every live node, in their order.
LEMMA AllEmitted ==
  ASSUME NEW g, IsExact(g), IsFiniteSet(g.live)
  PROVE  Listed(EmissionOrder(g)) /\ Range(EmissionOrder(g)) = g.live /\ Rising(EmissionOrder(g))
<1> DEFINE n == Cardinality(g.live)
           none == <<>>
           F == CHOOSE f : f = [k \in 0 .. n |->
                  IF k = 0 THEN none ELSE Append(f[k - 1], NextReady(g, Range(f[k - 1])))]
<1>1. n \in Nat
  BY FS_CardinalityType
<1>2. EmittedUpTo(F, g, n)
  <2>1. PICK f : EmittedUpTo(f, g, n)
    BY <1>1, EmissionExists
  <2> QED
    BY <2>1 DEF EmittedUpTo
<1>3. EmissionOrder(g) = F[n]
  BY DEF EmissionOrder
<1> HIDE DEF F
<1>4. F[0] = none /\ \A k \in 1 .. n : F[k] = Append(F[k - 1], NextReady(g, Range(F[k - 1])))
  <2> DEFINE J == [k \in 0 .. n |->
                     IF k = 0 THEN none ELSE Append(F[k - 1], NextReady(g, Range(F[k - 1])))]
  <2>1. F = J
    BY <1>2 DEF EmittedUpTo
  <2>2. \A k \in 0 .. n :
          J[k] = IF k = 0 THEN none ELSE Append(F[k - 1], NextReady(g, Range(F[k - 1])))
    OBVIOUS
  <2> HIDE DEF J, n
  <2>3. 0 \in 0 .. n /\ \A k \in 1 .. n : k \in 0 .. n /\ k # 0
    BY <1>1
  <2>4. F[0] = none
    BY <2>1, <2>2, <2>3
  <2>5. \A k \in 1 .. n : F[k] = Append(F[k - 1], NextReady(g, Range(F[k - 1])))
    BY <2>1, <2>2, <2>3
  <2> QED
    BY <2>4, <2>5
<1> HIDE DEF n
<1> DEFINE Bad == {k \in 0 .. n : ~ Emission(g, F[k], k)}
<1>5. Bad = {}
  <2> SUFFICES ASSUME Bad # {} PROVE FALSE
    OBVIOUS
  <2>1. PICK m \in Bad : \A k \in Bad : m =< k
    <3>1. Bad \in SUBSET Nat
      BY <1>1
    <3> HIDE DEF Bad
    <3> QED
      BY <3>1, LeastExists
  <2>2. m \in 0 .. n /\ ~ Emission(g, F[m], m)
    OBVIOUS
  <2>3. m # 0
    <3>1. Listed(none) /\ Range(none) = {} /\ Rising(none)
      <4>1. none \in Seq({}) /\ DOMAIN none = {}
        OBVIOUS
      <4> QED
        BY <4>1 DEF Listed, Range, Rising
    <3> HIDE DEF none
    <3>2. Emission(g, F[0], 0)
      BY <1>4, <3>1, FS_EmptySet DEF Emission
    <3> QED
      BY <2>2, <3>2
  <2>4. m \in 1 .. n /\ m - 1 \in 0 .. n /\ ~ (m =< m - 1) /\ m - 1 < n /\ m - 1 \in Nat
    BY <1>1, <2>2, <2>3
  <2>5. Emission(g, F[m - 1], m - 1)
    BY <2>1, <2>4
  <2>6. Emission(g, Append(F[m - 1], NextReady(g, Range(F[m - 1]))), m - 1 + 1)
    BY <2>4, <2>5, OneMoreEmitted DEF n
  <2>7. m - 1 + 1 = m
    BY <2>2
  <2> QED
    BY <1>4, <2>2, <2>4, <2>6, <2>7
<1>6. Emission(g, F[n], n)
  <2>1. n \in 0 .. n
    BY <1>1
  <2> QED
    BY <1>5, <2>1
<1>7. Range(F[n]) = g.live
  BY <1>6, FS_Subset DEF Emission, n
<1> QED
  BY <1>3, <1>6, <1>7 DEF Emission

\* What is written out is a stream of commands.
LEMMA ToCommandsShaped ==
  ASSUME NEW g, IsExact(g), ShapedGraph(g)
  PROVE  ShapedStream(ToCommands(g))
<1> DEFINE order == EmissionOrder(g)
           ss == [k \in DOMAIN order |-> Written(g, order[k])]
<1>1. Listed(order) /\ Range(order) = g.live
  BY AllEmitted DEF ShapedGraph
<1>2. ToCommands(g) = FlattenSeq(ss)
  BY DEF ToCommands
<1>3. ss = [k \in DOMAIN order |-> ss[k]] /\ \A k \in DOMAIN order : ss[k] = Written(g, order[k])
  OBVIOUS
<1> HIDE DEF ss, order
<1>4. Listed(ss) /\ DOMAIN ss = DOMAIN order
  BY <1>1, <1>3, MappedListed
<1>5. ASSUME NEW k \in DOMAIN ss PROVE ShapedStream(ss[k])
  <2>1. order[k] \in g.live
    BY <1>1, <1>4 DEF Range
  <2>2. ss[k] = IF IsRegionNode(g, order[k]) THEN g.span[order[k]] ELSE <<g.cmd[order[k]]>>
    BY <1>3, <1>4 DEF Written
  <2>3. Shaped(g.cmd[order[k]]) /\ ShapedStream(g.span[order[k]])
    BY <2>1 DEF ShapedGraph
  <2>4. ShapedStream(<<g.cmd[order[k]]>>)
    BY <2>3, SingleShaped
  <2> QED
    BY <2>2, <2>3, <2>4
<1>6. \A k \in DOMAIN ss : Listed(ss[k]) /\ \A j \in DOMAIN ss[k] : Shaped(ss[k][j])
  BY <1>5 DEF ShapedStream
<1>7. /\ Listed(FlattenSeq(ss))
      /\ \A m \in DOMAIN FlattenSeq(ss) :
           \E i \in DOMAIN ss : \E j \in DOMAIN ss[i] : FlattenSeq(ss)[m] = ss[i][j]
  BY <1>4, <1>6, FlattenElements
<1>8. \A m \in DOMAIN FlattenSeq(ss) : Shaped(FlattenSeq(ss)[m])
  BY <1>6, <1>7
<1> QED
  BY <1>2, <1>7, <1>8 DEF ShapedStream

-----------------------------------------------------------------------------
\* The bodies of a region are streams of commands: one, or two with an else.
LEMMA BodiesShaped ==
  ASSUME NEW span, ShapedStream(span)
  PROVE  /\ Listed(Bodies(span)) /\ \A k \in DOMAIN Bodies(span) : ShapedStream(Bodies(span)[k])
         /\ ElseAt(span) = {} => DOMAIN Bodies(span) = {1} /\ Len(Bodies(span)) = 1
         /\ ElseAt(span) # {} => DOMAIN Bodies(span) = {1, 2} /\ Len(Bodies(span)) = 2
<1>1. Len(span) \in Nat
  BY DEF ShapedStream, Listed
<1>2. CASE ElseAt(span) = {}
  <2> DEFINE b == SubSeq(span, 2, Len(span) - 1)
  <2>1. ShapedStream(b)
    BY <1>1, PartShaped
  <2>2. Bodies(span) = <<b>>
    BY <1>2 DEF Bodies
  <2> HIDE DEF b
  <2>3. Listed(<<b>>) /\ DOMAIN <<b>> = {1} /\ <<b>>[1] = b /\ Len(<<b>>) = 1
    BY OneListed
  <2> QED
    BY <1>2, <2>1, <2>2, <2>3
<1>3. CASE ElseAt(span) # {}
  <2> DEFINE e == CHOOSE i \in ElseAt(span) : \A j \in ElseAt(span) : i =< j
             b == SubSeq(span, 2, e - 1)
             c == SubSeq(span, e + 1, Len(span) - 1)
  <2>1. e \in ElseAt(span)
    <3>1. ElseAt(span) \in SUBSET Nat
      BY DEF ElseAt
    <3>2. \E i \in ElseAt(span) : \A j \in ElseAt(span) : i =< j
      BY <1>3, <3>1, LeastExists
    <3> QED
      BY <3>2
  <2> HIDE DEF e
  <2>2. e \in 2 .. Len(span) - 1
    BY <2>1 DEF ElseAt
  <2>3. ShapedStream(b)
    <3>1. 2 \in Nat \ {0} /\ e - 1 \in Int /\ e - 1 =< Len(span)
      BY <1>1, <2>2
    <3> QED
      BY <3>1, PartShaped
  <2>4. ShapedStream(c)
    <3>1. e + 1 \in Nat \ {0} /\ Len(span) - 1 \in Int /\ Len(span) - 1 =< Len(span)
      BY <1>1, <2>2
    <3> QED
      BY <3>1, PartShaped
  <2>5. Bodies(span) = <<b, c>>
    BY <1>3 DEF Bodies, e
  <2> HIDE DEF b, c
  <2>6. <<b, c>> \in Seq({b, c}) /\ DOMAIN <<b, c>> = {1, 2} /\ Len(<<b, c>>) = 2
    OBVIOUS
  <2>7. \A k \in {1, 2} : ShapedStream(<<b, c>>[k])
    BY <2>3, <2>4
  <2> QED
    BY <1>3, <2>5, <2>6, <2>7 DEF Listed
<1> QED
  BY <1>2, <1>3

\* A region put together again is one.
LEMMA RebuiltShaped ==
  ASSUME NEW span, ShapedStream(span), span # <<>>, NEW bodies, Listed(bodies),
         \A k \in DOMAIN bodies : ShapedStream(bodies[k]),
         Len(bodies) = Len(Bodies(span))
  PROVE  ShapedStream(Rebuilt(span, bodies)) /\ Rebuilt(span, bodies) # <<>>
<1>1. Len(span) \in Nat /\ DOMAIN span = 1 .. Len(span) /\ 1 \in DOMAIN span /\ Len(span) \in DOMAIN span
  BY DEF ShapedStream, Listed
<1>2. ShapedStream(<<span[1]>>) /\ ShapedStream(<<span[Len(span)]>>)
  BY <1>1, SingleShaped DEF ShapedStream
<1>3. DOMAIN bodies = 1 .. Len(bodies)
  BY DEF Listed
<1>4. CASE ElseAt(span) = {}
  <2>1. Len(bodies) = 1 /\ ShapedStream(bodies[1])
    <3>1. Len(bodies) = 1
      BY <1>4, BodiesShaped
    <3>2. 1 \in DOMAIN bodies
      BY <1>3, <3>1
    <3> QED
      BY <3>1, <3>2
  <2> DEFINE a == <<span[1]>> \o bodies[1]
             z == <<span[Len(span)]>>
  <2>2. Rebuilt(span, bodies) = a \o z
    BY <2>1 DEF Rebuilt
  <2>3. ShapedStream(a)
    BY <1>2, <2>1, JoinShaped
  <2>4. ShapedStream(a \o z)
    BY <1>2, <2>3, JoinShaped
  <2>5. span[Len(span)] \in Range(a \o z)
    <3>1. Listed(z) /\ DOMAIN z = {1} /\ z[1] = span[Len(span)]
      BY OneListed
    <3> HIDE DEF a, z
    <3>2. Range(a \o z) = Range(a) \cup Range(z)
      BY <2>3, <3>1, JoinRange DEF ShapedStream
    <3> QED
      BY <3>1, <3>2 DEF Range
  <2>6. a \o z # <<>>
    <3> HIDE DEF a, z
    <3> QED
      BY <2>5 DEF Range
  <2> QED
    BY <2>2, <2>4, <2>6
<1>5. CASE ElseAt(span) # {}
  <2> DEFINE e == CHOOSE i \in ElseAt(span) : \A j \in ElseAt(span) : i =< j
  <2>1. e \in ElseAt(span)
    <3>1. ElseAt(span) \in SUBSET Nat
      BY DEF ElseAt
    <3>2. \E i \in ElseAt(span) : \A j \in ElseAt(span) : i =< j
      BY <1>5, <3>1, LeastExists
    <3> QED
      BY <3>2
  <2> HIDE DEF e
  <2>2. e \in DOMAIN span
    BY <1>1, <2>1 DEF ElseAt
  <2>3. ShapedStream(<<span[e]>>)
    BY <2>2, SingleShaped DEF ShapedStream
  <2>4. Len(bodies) = 2 /\ ShapedStream(bodies[1]) /\ ShapedStream(bodies[2])
    <3>1. Len(bodies) = 2
      BY <1>5, BodiesShaped
    <3>2. 1 \in DOMAIN bodies /\ 2 \in DOMAIN bodies
      BY <1>3, <3>1
    <3> QED
      BY <3>1, <3>2
  <2> DEFINE a == <<span[1]>> \o bodies[1]
             b == a \o <<span[e]>>
             c == b \o bodies[2]
             z == <<span[Len(span)]>>
  <2>5. Rebuilt(span, bodies) = c \o z
    BY <2>4 DEF Rebuilt, e
  <2>6. ShapedStream(a)
    BY <1>2, <2>4, JoinShaped
  <2>7. ShapedStream(b)
    BY <2>3, <2>6, JoinShaped
  <2>8. ShapedStream(c)
    BY <2>4, <2>7, JoinShaped
  <2>9. ShapedStream(c \o z)
    BY <1>2, <2>8, JoinShaped
  <2>10. span[Len(span)] \in Range(c \o z)
    <3>1. Listed(z) /\ DOMAIN z = {1} /\ z[1] = span[Len(span)]
      BY OneListed
    <3> HIDE DEF c, z
    <3>2. Range(c \o z) = Range(c) \cup Range(z)
      BY <2>8, <3>1, JoinRange DEF ShapedStream
    <3> QED
      BY <3>1, <3>2 DEF Range
  <2>11. c \o z # <<>>
    <3> HIDE DEF c, z
    <3> QED
      BY <2>10 DEF Range
  <2> QED
    BY <2>5, <2>9, <2>11
<1> QED
  BY <1>4, <1>5

-----------------------------------------------------------------------------
(* Where the rules of cancel_wire_adjacent apply                            *)

\* The adjoint of a command acts where it does.
LEMMA DaggerQubits ==
  ASSUME NEW c, Shaped(c)
  PROVE  Dagger(c).qubits = c.qubits /\ "qubits" \in DOMAIN Dagger(c)
<1> DEFINE g == c.gate
           q == c.qubits
           p == c.params
           b == c.cbits
           k == c.cond
           f == c.factors
           o == c.origin
           s == c.bits
<1>1. c = [gate |-> g, qubits |-> q, params |-> p, cbits |-> b, cond |-> k, bits |-> s,
           factors |-> f, origin |-> o]
  BY Fields DEF Shaped, CommandOf
<1> HIDE DEF g, p, b, k, f, o, s
<1>2. \A x : [c EXCEPT !.gate = x].qubits = q /\ "qubits" \in DOMAIN [c EXCEPT !.gate = x]
  BY <1>1
<1>3. \A x : [c EXCEPT !.params = x].qubits = q /\ "qubits" \in DOMAIN [c EXCEPT !.params = x]
  BY <1>1
<1>4. CASE c.gate \in SelfAdjoint
  BY <1>1, <1>4 DEF Dagger
<1>5. CASE c.gate \notin SelfAdjoint /\ Adjoint(c.gate) # c.gate
  <2>1. c.gate \notin {"U", "CU"}
    <3>1. \A h \in NamedPairs : "U" \notin {h[1], h[2]} /\ "CU" \notin {h[1], h[2]}
      BY DEF NamedPairs
    <3>2. Adjoint("U") = "U" /\ Adjoint("CU") = "CU"
      BY <3>1 DEF Adjoint
    <3> QED
      BY <1>5, <3>2
  <2>2. Dagger(c) = [c EXCEPT !.gate = Adjoint(c.gate)]
    BY <1>5, <2>1 DEF Dagger
  <2> QED
    BY <1>2, <2>2
<1>6. CASE c.gate \notin SelfAdjoint /\ Adjoint(c.gate) = c.gate /\ c.gate \in {"U", "CU"}
  <2>1. \E x : Dagger(c) = [c EXCEPT !.params = x]
    BY <1>6 DEF Dagger
  <2> QED
    BY <1>3, <2>1
<1>7. CASE c.gate \notin SelfAdjoint /\ Adjoint(c.gate) = c.gate /\ c.gate \notin {"U", "CU"}
  <2>1. \E x : Dagger(c) = [c EXCEPT !.params = x]
    BY <1>7 DEF Dagger
  <2> QED
    BY <1>3, <2>1
<1> QED
  BY <1>4, <1>5, <1>6, <1>7

\* Neither of two commands that combine is a fence.
LEMMA CombineNoFence ==
  ASSUME NEW a, Shaped(a), NEW b, CanCombine(a, b)
  PROVE  ~ IsFence(a) /\ ~ IsFence(b)
<1>1. CASE InversePair(a, b)
  <2>1. IsPhysical(a.gate)
    BY <1>1 DEF InversePair
  <2>2. a.gate # "Barrier" /\ a.qubits # <<>>
    BY <2>1 DEF IsPhysical, Shaped, HasOperands
  <2>3. b.qubits # <<>>
    <3>1. CASE SameCommand(Dagger(a), b)
      <4>1. b.qubits = a.qubits
        BY <3>1, DaggerQubits DEF SameCommand
      <4> QED
        BY <2>2, <4>1
    <3>2. CASE SameCommand(Swapped(Dagger(a)), b) /\ a.gate \in QubitSymmetric /\ Len(a.qubits) = 2
      <4> DEFINE d == Dagger(a)
                 r == <<d.qubits[2], d.qubits[1]>>
      <4>1. b.qubits = Swapped(d).qubits
        BY <3>2 DEF SameCommand
      <4>2. "qubits" \in DOMAIN d
        BY DaggerQubits
      <4>3. Swapped(d).qubits = r
        BY <4>2 DEF Swapped
      <4>4. r # <<>>
        OBVIOUS
      <4> QED
        BY <4>1, <4>3, <4>4
    <3> QED
      BY <1>1, <3>1, <3>2 DEF InversePair
  <2> QED
    BY <2>2, <2>3 DEF IsFence
<1>2. CASE CanMerge(a, b)
  BY <1>2 DEF CanMerge, Additive, IsFence
<1> QED
  BY <1>1, <1>2 DEF CanCombine

\* What cancel_wire_adjacent still has to do at a node.
Ripe(g, x) == CombinesWithNext(g, x) \/ (Rewritable(g, x) /\ DroppableZero(g.cmd[x]))

\* A node that combines with the next one: both on exactly the wires they list.
LEMMA FollowerFacts ==
  ASSUME NEW g, IsExact(g), ShapedGraph(g), NEW x, CombinesWithNext(g, x)
  PROVE  /\ x \in g.live /\ Follower(g, x) \in g.live /\ x # Follower(g, x)
         /\ WireSeq(g.cmd[x])[1] \in g.wires[x]
         /\ g.wires[x] = Range(WireSeq(g.cmd[x]))
         /\ g.wires[Follower(g, x)] = Range(WireSeq(g.cmd[Follower(g, x)]))
<1> DEFINE b == Follower(g, x)
           w == WireSeq(g.cmd[x])[1]
<1>1. /\ x \in g.live /\ ~ IsRegionNode(g, x) /\ WireSeq(g.cmd[x]) # <<>>
      /\ WireAdjacent(g, x, b)
      /\ CanCombine(g.cmd[x], g.cmd[b])
  BY DEF CombinesWithNext, Rewritable, CanCombine
<1>2. Shaped(g.cmd[x])
  BY <1>1 DEF ShapedGraph
<1>3. ~ IsFence(g.cmd[x]) /\ ~ IsFence(g.cmd[b])
  BY <1>1, <1>2, CombineNoFence
<1>4. g.wires[x] = Range(WireSeq(g.cmd[x]))
  BY <1>1, <1>3 DEF ShapedGraph
<1>5. w \in g.wires[x]
  <2>1. Listed(WireSeq(g.cmd[x]))
    BY <1>2, WireSeqRange
  <2>2. 1 \in DOMAIN WireSeq(g.cmd[x])
    BY <1>1, <2>1 DEF Listed
  <2> QED
    BY <1>4, <2>2 DEF Range
<1>6. b # 0 /\ ~ IsRegionNode(g, b) /\ g.next[x][w] = b
  BY <1>1, <1>5 DEF WireAdjacent
<1>7. b \in g.live /\ x < b
  <2>1. IsSucc(g, x, w, g.next[x][w])
    BY <1>1, <1>5 DEF IsExact, LinksExact
  <2> QED
    BY <1>6, <2>1 DEF IsSucc, LiveAfter
<1>8. x # b
  <2>1. x \in Nat
    BY <1>1 DEF IsExact, IsGraph
  <2> QED
    BY <1>7, <2>1
<1>9. g.wires[b] = Range(WireSeq(g.cmd[b]))
  BY <1>3, <1>6, <1>7 DEF ShapedGraph
<1> QED
  BY <1>1, <1>4, <1>5, <1>7, <1>8, <1>9

\* collect_neighbours: every neighbour on a wire of the node.
LEMMA NeighboursHold ==
  ASSUME NEW g, NEW id, Shaped(g.cmd[id])
  PROVE  /\ Listed(Neighbours(g, id))
         /\ \A w \in Range(WireSeq(g.cmd[id])) : g.prev[id][w] \in Range(Neighbours(g, id))
<1> DEFINE ws == WireSeq(g.cmd[id])
           ss == [k \in DOMAIN ws |-> <<g.prev[id][ws[k]], g.next[id][ws[k]]>>]
<1>1. Listed(ws)
  BY WireSeqRange
<1>2. Neighbours(g, id) = FlattenSeq(ss)
  BY DEF Neighbours
<1>3. ss = [k \in DOMAIN ws |-> ss[k]]
  OBVIOUS
<1>4. \A k \in DOMAIN ws : ss[k] = <<g.prev[id][ws[k]], g.next[id][ws[k]]>>
  OBVIOUS
<1> HIDE DEF ss
<1>5. Listed(ss) /\ DOMAIN ss = DOMAIN ws
  BY <1>1, <1>3, MappedListed
<1>6. ASSUME NEW k \in DOMAIN ss
      PROVE  Listed(ss[k]) /\ 1 \in DOMAIN ss[k] /\ ss[k][1] = g.prev[id][ws[k]]
  <2> DEFINE p == g.prev[id][ws[k]]
             n == g.next[id][ws[k]]
  <2>1. ss[k] = <<p, n>>
    BY <1>4, <1>5
  <2> HIDE DEF p, n
  <2>2. <<p, n>> \in Seq({p, n}) /\ 1 \in DOMAIN <<p, n>> /\ <<p, n>>[1] = p
    OBVIOUS
  <2> QED
    BY <2>1, <2>2 DEF Listed, p
<1>7. Listed(FlattenSeq(ss))
  BY <1>5, <1>6, FlattenElements
<1>8. ASSUME NEW w \in Range(ws) PROVE g.prev[id][w] \in Range(FlattenSeq(ss))
  <2>1. PICK k \in DOMAIN ws : w = ws[k]
    BY DEF Range
  <2>2. k \in DOMAIN ss /\ 1 \in DOMAIN ss[k] /\ ss[k][1] = g.prev[id][w]
    BY <1>5, <1>6, <2>1
  <2>3. \E m \in DOMAIN FlattenSeq(ss) : FlattenSeq(ss)[m] = ss[k][1]
    BY <1>5, <1>6, <2>2, FlattenCovers
  <2> QED
    BY <2>2, <2>3 DEF Range
<1> QED
  BY <1>2, <1>7, <1>8

\* remove_node leaves the commands alone.
LEMMA RemoveKeepsShape ==
  ASSUME NEW g, IsExact(g), ShapedGraph(g), NEW id \in g.live, NEW h, h = RemoveNode(g, id)
  PROVE  /\ IsExact(h) /\ ShapedGraph(h)
         /\ h.live = g.live \ {id} /\ h.wires = g.wires /\ h.cmd = g.cmd /\ h.span = g.span
         /\ \A i \in h.live : \A w \in g.wires[i] :
              /\ h.next[i][w] = IF w \in g.wires[id] /\ g.prev[id][w] = i
                               THEN g.next[id][w] ELSE g.next[i][w]
              /\ h.prev[i][w] = IF w \in g.wires[id] /\ g.next[id][w] = i
                               THEN g.prev[id][w] ELSE g.prev[i][w]
<1>1. IsGraph(g)
  BY DEF IsExact
<1>2. /\ h.live = g.live \ {id} /\ h.wires = g.wires
      /\ \A i \in h.live : \A w \in g.wires[i] :
           /\ h.next[i][w] = IF w \in g.wires[id] /\ g.prev[id][w] = i
                            THEN g.next[id][w] ELSE g.next[i][w]
           /\ h.prev[i][w] = IF w \in g.wires[id] /\ g.next[id][w] = i
                            THEN g.prev[id][w] ELSE g.prev[i][w]
  BY <1>1, RemoveNodeFields
<1>3. h.cmd = g.cmd /\ h.span = g.span
  <2>1. g = [live |-> g.live, wires |-> g.wires, cmd |-> g.cmd, span |-> g.span,
             prev |-> g.prev, next |-> g.next]
    BY <1>1 DEF IsGraph
  <2>2. \A L, N, P : /\ [g EXCEPT !.live = L, !.next = N, !.prev = P].cmd = g.cmd
                     /\ [g EXCEPT !.live = L, !.next = N, !.prev = P].span = g.span
    BY <2>1
  <2> QED
    BY <2>2 DEF RemoveNode
<1>4. IsExact(h)
  BY RemoveKeepsExact
<1>5. IsFiniteSet(h.live)
  BY <1>2, FS_Subset DEF ShapedGraph
<1>6. ShapedGraph(h)
  BY <1>2, <1>3, <1>5 DEF ShapedGraph, IsRegionNode
<1> QED
  BY <1>2, <1>3, <1>4, <1>6

\* A removal makes a node ripe only if it came before the node on a wire.
LEMMA RemoveRipens ==
  ASSUME NEW g, IsExact(g), ShapedGraph(g), NEW id \in g.live, NEW h, h = RemoveNode(g, id),
         NEW x, Ripe(h, x)
  PROVE  Ripe(g, x) \/ \E w \in g.wires[id] : g.prev[id][w] = x
<1>1. /\ IsExact(h) /\ ShapedGraph(h)
      /\ h.live = g.live \ {id} /\ h.wires = g.wires /\ h.cmd = g.cmd /\ h.span = g.span
      /\ \A i \in h.live : \A w \in g.wires[i] :
           h.next[i][w] = IF w \in g.wires[id] /\ g.prev[id][w] = i
                          THEN g.next[id][w] ELSE g.next[i][w]
  BY RemoveKeepsShape
<1>2. Rewritable(h, x)
  BY DEF Ripe, CombinesWithNext
<1>3. x \in h.live /\ x \in g.live /\ Rewritable(g, x)
  BY <1>1, <1>2 DEF Rewritable, IsRegionNode
<1>4. CASE DroppableZero(h.cmd[x])
  BY <1>1, <1>3, <1>4 DEF Ripe
<1>5. CASE CombinesWithNext(h, x) /\ ~ \E w \in g.wires[id] : g.prev[id][w] = x
  <2> DEFINE b == Follower(h, x)
             w1 == WireSeq(h.cmd[x])[1]
  <2>1. \A w \in g.wires[x] : h.next[x][w] = g.next[x][w]
    BY <1>1, <1>3, <1>5
  <2>2. w1 \in h.wires[x]
    BY <1>1, <1>5, FollowerFacts
  <2>3. Follower(g, x) = b
    BY <1>1, <2>1, <2>2 DEF Follower
  <2>4. WireAdjacent(h, x, b) /\ (InversePair(h.cmd[x], h.cmd[b]) \/ CanMerge(h.cmd[x], h.cmd[b]))
    BY <1>5 DEF CombinesWithNext
  <2> HIDE DEF b
  <2>5. WireAdjacent(g, x, b)
    BY <1>1, <2>1, <2>4 DEF WireAdjacent, IsRegionNode
  <2>6. CombinesWithNext(g, x)
    BY <1>1, <1>3, <2>3, <2>4, <2>5 DEF CombinesWithNext
  <2> QED
    BY <2>6 DEF Ripe
<1> QED
  BY <1>4, <1>5 DEF Ripe

-----------------------------------------------------------------------------
(* The calls of cancel_wire_adjacent                                        *)

\* A running call of cancel_wire_adjacent.  Every ripe node is on the worklist;
\* while a region is being optimised its node waits, with a body to come.
Waits(f) ==
  /\ f.region \in f.graph.live /\ IsRegionNode(f.graph, f.region)
  /\ Len(f.bodies) < Len(Bodies(f.graph.span[f.region]))

ShapedBodies(b) == Listed(b) /\ \A k \in DOMAIN b : ShapedStream(b[k])

Covers(f) == Listed(f.work) /\ \A x : Ripe(f.graph, x) => x \in Range(f.work)

Call(f) ==
  /\ IsFrame(f) /\ ShapedGraph(f.graph)
  /\ Covers(f)
  /\ ShapedBodies(f.bodies)
  /\ f.region = 0 => f.bodies = <<>>
  /\ f.region # 0 => Waits(f)

\* The innermost call is at work, every other waits for it.
Calls ==
  /\ Listed(frames) /\ frames # <<>>
  /\ \A k \in DOMAIN frames : Call(frames[k]) /\ (frames[k].region = 0 <=> k = 1)

\* A frame put together.
FrameOf(g, w, r, b) == [graph |-> g, work |-> w, region |-> r, bodies |-> b]

LEMMA FrameFields ==
  ASSUME NEW g, NEW w, NEW r, NEW b
  PROVE  /\ FrameOf(g, w, r, b).graph = g /\ FrameOf(g, w, r, b).work = w
         /\ FrameOf(g, w, r, b).region = r /\ FrameOf(g, w, r, b).bodies = b
         /\ FrameOf(g, w, r, b) = [graph |-> FrameOf(g, w, r, b).graph, work |-> FrameOf(g, w, r, b).work,
                                   region |-> FrameOf(g, w, r, b).region, bodies |-> FrameOf(g, w, r, b).bodies]
BY DEF FrameOf

LEMMA FrameForms ==
  ASSUME NEW f, IsFrame(f), NEW g, NEW w, NEW r, NEW b
  PROVE  /\ [f EXCEPT !.graph = g, !.work = w] = FrameOf(g, w, f.region, f.bodies)
         /\ [f EXCEPT !.work = w, !.region = r] = FrameOf(f.graph, w, r, f.bodies)
         /\ [f EXCEPT !.bodies = b] = FrameOf(f.graph, f.work, f.region, b)
<1> DEFINE G == f.graph
           W == f.work
           R == f.region
           B == f.bodies
<1>1. f = FrameOf(G, W, R, B)
  BY DEF IsFrame, FrameOf
<1> HIDE DEF G, W, R, B
<1>2. /\ \A v : [FrameOf(v, W, R, B) EXCEPT !.work = w] = FrameOf(v, w, R, B)
      /\ [FrameOf(G, W, R, B) EXCEPT !.graph = g] = FrameOf(g, W, R, B)
      /\ [FrameOf(G, w, R, B) EXCEPT !.region = r] = FrameOf(G, w, r, B)
      /\ [FrameOf(G, W, R, B) EXCEPT !.bodies = b] = FrameOf(G, W, R, b)
  BY DEF FrameOf
<1>3. [f EXCEPT !.graph = g, !.work = w] = FrameOf(g, w, R, B)
  <2>1. [[FrameOf(G, W, R, B) EXCEPT !.graph = g] EXCEPT !.work = w] = FrameOf(g, w, R, B)
    BY <1>2
  <2> QED
    BY <1>1, <2>1, Zenon
<1>4. [f EXCEPT !.work = w, !.region = r] = FrameOf(G, w, r, B)
  <2>1. [[FrameOf(G, W, R, B) EXCEPT !.work = w] EXCEPT !.region = r] = FrameOf(G, w, r, B)
    BY <1>2
  <2> QED
    BY <1>1, <2>1, Zenon
<1>5. [f EXCEPT !.bodies = b] = FrameOf(G, W, R, b)
  BY <1>1, <1>2
<1> QED
  BY <1>3, <1>4, <1>5 DEF G, W, R, B

LEMMA NothingShaped == ShapedBodies(<<>>) /\ Listed(<<>>) /\ Range(<<>>) = {}
<1>1. <<>> \in Seq({}) /\ DOMAIN <<>> = {}
  OBVIOUS
<1> QED
  BY <1>1 DEF ShapedBodies, Listed, Range

\* A call starts with every node on its worklist.
LEMMA FrameCall ==
  ASSUME NEW g, IsExact(g), ShapedGraph(g)
  PROVE  Call(Frame(g)) /\ Frame(g).region = 0
<1> DEFINE f == Frame(g)
           work == InOrder(g.live)
           none == <<>>
<1>1. f = FrameOf(g, work, 0, none)
  BY DEF Frame, FrameOf, InOrderNodes
<1>2. Listed(work) /\ g.live \subseteq Range(work)
  BY InOrderHolds DEF IsExact, IsGraph, ShapedGraph
<1>3. \A x : Ripe(g, x) => x \in g.live
  BY DEF Ripe, CombinesWithNext, Rewritable
<1>4. ShapedBodies(none)
  BY NothingShaped
<1> HIDE DEF f, work, none
<1>5. f.graph = g /\ f.work = work /\ f.region = 0 /\ f.bodies = none /\ IsFrame(f)
  BY <1>1, FrameFields DEF IsFrame
<1>6. Covers(f)
  BY <1>2, <1>3, <1>5 DEF Covers
<1> QED
  BY <1>4, <1>5, <1>6 DEF Call, f, none

\* One call on top of others that wait.
LEMMA Stacked ==
  ASSUME NEW f, Call(f), f.region = 0, NEW rest, Listed(rest),
         \A k \in DOMAIN rest : Call(rest[k]) /\ rest[k].region # 0,
         frames' = <<f>> \o rest
  PROVE  Calls'
<1>1. PICK S : rest \in Seq(S)
  BY DEF Listed
<1> DEFINE fs == <<f>> \o rest
<1>2. rest \in Seq(S \cup {f}) /\ <<f>> \in Seq(S \cup {f})
  BY <1>1
<1>3. /\ fs \in Seq(S \cup {f}) /\ Len(fs) = Len(rest) + 1 /\ Len(rest) \in Nat
      /\ DOMAIN fs = 1 .. Len(rest) + 1 /\ DOMAIN rest = 1 .. Len(rest)
      /\ fs[1] = f /\ \A k \in 2 .. Len(rest) + 1 : fs[k] = rest[k - 1]
  BY <1>2
<1> HIDE DEF fs
<1>4. fs # <<>>
  BY <1>3
<1>5. ASSUME NEW k \in DOMAIN fs PROVE Call(fs[k]) /\ (fs[k].region = 0 <=> k = 1)
  <2>1. CASE k = 1
    BY <1>3, <2>1
  <2>2. CASE k # 1
    <3>1. k \in 2 .. Len(rest) + 1 /\ k - 1 \in DOMAIN rest
      BY <1>3, <2>2
    <3>2. fs[k] = rest[k - 1]
      BY <1>3, <3>1
    <3> QED
      BY <2>2, <3>1, <3>2
  <2> QED
    BY <2>1, <2>2
<1>6. frames' = fs
  BY DEF fs
<1> QED
  BY <1>3, <1>4, <1>5, <1>6 DEF Calls, Listed

\* The calls below the top.
LEMMA Below ==
  ASSUME Calls
  PROVE  /\ Call(top) /\ top.region = 0
         /\ Listed(Tail(frames))
         /\ \A k \in DOMAIN Tail(frames) : Call(Tail(frames)[k]) /\ Tail(frames)[k].region # 0
<1>1. PICK S : frames \in Seq(S) /\ frames # <<>>
  BY DEF Calls, Listed
<1> DEFINE t == Tail(frames)
<1>2. /\ 1 \in DOMAIN frames /\ top = frames[1]
      /\ t \in Seq(S) /\ DOMAIN t = 1 .. Len(frames) - 1 /\ Len(frames) \in Nat
      /\ DOMAIN frames = 1 .. Len(frames)
      /\ \A k \in 1 .. Len(frames) - 1 : t[k] = frames[k + 1]
  BY <1>1 DEF top
<1> HIDE DEF t
<1>3. Call(top) /\ top.region = 0
  BY <1>2 DEF Calls
<1>4. ASSUME NEW k \in DOMAIN t PROVE Call(t[k]) /\ t[k].region # 0
  <2>1. k + 1 \in DOMAIN frames /\ k + 1 # 1 /\ t[k] = frames[k + 1]
    BY <1>2
  <2> QED
    BY <2>1 DEF Calls
<1>5. Listed(t)
  BY <1>2 DEF Listed
<1> QED
  BY <1>3, <1>4, <1>5 DEF t

\* A command in the place of one on the same wires.
LEMMA ReplaceKeepsShape ==
  ASSUME NEW g, IsExact(g), ShapedGraph(g), NEW id \in g.live, NEW c, Shaped(c),
         c.gate = g.cmd[id].gate, c.qubits = g.cmd[id].qubits,
         c.cbits = g.cmd[id].cbits, c.cond = g.cmd[id].cond,
         NEW h, h = ReplaceCommand(g, id, c)
  PROVE  /\ IsExact(h) /\ ShapedGraph(h)
         /\ h.live = g.live /\ h.wires = g.wires /\ h.span = g.span
         /\ h.prev = g.prev /\ h.next = g.next
         /\ h.cmd[id] = c /\ \A i \in g.live : i # id => h.cmd[i] = g.cmd[i]
<1> DEFINE C == [g.cmd EXCEPT ![id] = c]
<1>1. g = [live |-> g.live, wires |-> g.wires, cmd |-> g.cmd, span |-> g.span,
           prev |-> g.prev, next |-> g.next]
  BY DEF IsExact, IsGraph
<1>2. h = [g EXCEPT !.cmd = C]
  BY DEF ReplaceCommand
<1>3. g.live \subseteq DOMAIN g.cmd
  BY DEF ShapedGraph
<1>4. C[id] = c /\ DOMAIN C = DOMAIN g.cmd /\ \A i \in g.live : i # id => C[i] = g.cmd[i]
  BY <1>3
<1> HIDE DEF C
<1>5. /\ h.live = g.live /\ h.wires = g.wires /\ h.span = g.span
      /\ h.prev = g.prev /\ h.next = g.next /\ h.cmd = C
  BY <1>1, <1>2
<1>6. IsExact(h)
  BY ReplaceKeepsExact
<1>7. WireSeq(c) = WireSeq(g.cmd[id]) /\ (IsFence(c) <=> IsFence(g.cmd[id]))
  BY DEF WireSeq, IsFence
<1>8. ASSUME NEW i \in h.live
      PROVE  /\ Shaped(h.cmd[i]) /\ ShapedStream(h.span[i])
             /\ ~ IsRegionNode(h, i) /\ ~ IsFence(h.cmd[i])
                  => h.wires[i] = Range(WireSeq(h.cmd[i]))
  <2>1. i \in g.live /\ ShapedStream(h.span[i]) /\ (IsRegionNode(h, i) <=> IsRegionNode(g, i))
    BY <1>5 DEF ShapedGraph, IsRegionNode
  <2>2. CASE i = id
    <3>1. h.cmd[i] = c
      BY <1>4, <1>5, <2>2
    <3>2. ~ IsRegionNode(g, i) /\ ~ IsFence(c) => h.wires[i] = Range(WireSeq(c))
      BY <1>5, <1>7, <2>1, <2>2 DEF ShapedGraph
    <3> QED
      BY <2>1, <3>1, <3>2
  <2>3. CASE i # id
    <3>1. h.cmd[i] = g.cmd[i]
      BY <1>4, <1>5, <2>1, <2>3
    <3> QED
      BY <1>5, <2>1, <3>1 DEF ShapedGraph
  <2> QED
    BY <2>2, <2>3
<1>9. ShapedGraph(h)
  BY <1>4, <1>5, <1>8 DEF ShapedGraph
<1> QED
  BY <1>4, <1>5, <1>6, <1>9

\* A rebuilt region in the place of the region.
LEMMA ReplaceSpanKeepsShape ==
  ASSUME NEW g, IsExact(g), ShapedGraph(g), NEW id \in g.live, IsRegionNode(g, id),
         NEW s, ShapedStream(s), s # <<>>, NEW h, h = ReplaceSpan(g, id, s)
  PROVE  /\ IsExact(h) /\ ShapedGraph(h)
         /\ \A x : Ripe(h, x) => Ripe(g, x)
<1> DEFINE P == [g.span EXCEPT ![id] = s]
<1>1. g = [live |-> g.live, wires |-> g.wires, cmd |-> g.cmd, span |-> g.span,
           prev |-> g.prev, next |-> g.next]
  BY DEF IsExact, IsGraph
<1>2. h = [g EXCEPT !.span = P]
  BY DEF ReplaceSpan
<1>3. id \in DOMAIN g.span
  BY DEF ShapedGraph
<1>4. P[id] = s /\ DOMAIN P = DOMAIN g.span /\ \A i \in g.live : i # id => P[i] = g.span[i]
  BY <1>3 DEF ShapedGraph
<1> HIDE DEF P
<1>5. /\ h.live = g.live /\ h.wires = g.wires /\ h.cmd = g.cmd
      /\ h.prev = g.prev /\ h.next = g.next /\ h.span = P
  BY <1>1, <1>2
<1>6. IsExact(h)
  BY ReplaceKeepsExact
<1>7. \A i \in g.live : IsRegionNode(h, i) <=> IsRegionNode(g, i)
  BY <1>4, <1>5 DEF IsRegionNode
<1>8. \A i \in g.live : ShapedStream(h.span[i])
  BY <1>4, <1>5 DEF ShapedGraph
<1>9. ShapedGraph(h)
  BY <1>4, <1>5, <1>7, <1>8 DEF ShapedGraph
<1>10. ASSUME NEW x, Ripe(h, x) PROVE Ripe(g, x)
  <2>1. Rewritable(g, x)
    BY <1>5, <1>7, <1>10 DEF Ripe, CombinesWithNext, Rewritable
  <2>2. CASE DroppableZero(h.cmd[x])
    BY <1>5, <2>1, <2>2 DEF Ripe
  <2>3. CASE CombinesWithNext(h, x)
    <3> DEFINE b == Follower(h, x)
    <3>1. b \in g.live /\ Follower(g, x) = b
      BY <1>5, <1>6, <1>9, <2>3, FollowerFacts DEF Follower
    <3>2. WireAdjacent(h, x, b) /\ (InversePair(h.cmd[x], h.cmd[b]) \/ CanMerge(h.cmd[x], h.cmd[b]))
      BY <2>3 DEF CombinesWithNext
    <3> HIDE DEF b
    <3>3. WireAdjacent(g, x, b)
      BY <1>5, <1>7, <3>1, <3>2 DEF WireAdjacent
    <3> QED
      BY <1>5, <2>1, <3>1, <3>2, <3>3 DEF Ripe, CombinesWithNext
  <2> QED
    BY <1>10, <2>2, <2>3 DEF Ripe
<1> QED
  BY <1>6, <1>9, <1>10

\* Two nodes merged into the first: only it and what came before either on a
\* wire may have become ripe.
LEMMA MergeRipens ==
  ASSUME NEW g, IsExact(g), ShapedGraph(g), NEW id \in g.live, NEW b \in g.live, id # b,
         NEW k, k = RemoveNode(g, b), NEW c, Shaped(c),
         c.gate = g.cmd[id].gate, c.qubits = g.cmd[id].qubits,
         c.cbits = g.cmd[id].cbits, c.cond = g.cmd[id].cond,
         NEW h, h = ReplaceCommand(k, id, c),
         NEW x, Ripe(h, x), x # id
  PROVE  \/ Ripe(g, x)
         \/ \E w \in g.wires[id] : g.prev[id][w] = x
         \/ \E w \in g.wires[b] : g.prev[b][w] = x
<1>1. /\ IsExact(k) /\ ShapedGraph(k)
      /\ k.live = g.live \ {b} /\ k.wires = g.wires /\ k.cmd = g.cmd /\ k.span = g.span
      /\ \A i \in k.live : \A w \in g.wires[i] :
           k.prev[i][w] = IF w \in g.wires[b] /\ g.next[b][w] = i
                          THEN g.prev[b][w] ELSE g.prev[i][w]
  BY RemoveKeepsShape
<1>2. id \in k.live
  BY <1>1
<1>3. /\ IsExact(h) /\ ShapedGraph(h)
      /\ h.live = k.live /\ h.wires = k.wires /\ h.span = k.span
      /\ h.prev = k.prev /\ h.next = k.next
      /\ h.cmd[id] = c /\ \A i \in k.live : i # id => h.cmd[i] = k.cmd[i]
  BY <1>1, <1>2, ReplaceKeepsShape
<1>4. Rewritable(h, x)
  BY DEF Ripe, CombinesWithNext
<1>5. x \in k.live /\ h.cmd[x] = k.cmd[x] /\ Rewritable(k, x)
  BY <1>3, <1>4 DEF Rewritable, IsRegionNode
<1>6. CASE Ripe(k, x)
  BY <1>6, RemoveRipens
<1>7. CASE DroppableZero(h.cmd[x])
  BY <1>5, <1>6, <1>7 DEF Ripe
<1>8. CASE CombinesWithNext(h, x)
  <2> DEFINE y == Follower(h, x)
             w1 == WireSeq(h.cmd[x])[1]
  <2>1. y \in h.live /\ w1 \in h.wires[x] /\ y = h.next[x][w1] /\ Follower(k, x) = y
    BY <1>3, <1>5, <1>8, FollowerFacts DEF Follower
  <2>2. WireAdjacent(h, x, y) /\ (InversePair(h.cmd[x], h.cmd[y]) \/ CanMerge(h.cmd[x], h.cmd[y]))
    BY <1>8 DEF CombinesWithNext
  <2> HIDE DEF y, w1
  <2>3. CASE y # id
    <3>1. h.cmd[y] = k.cmd[y]
      BY <1>3, <2>1, <2>3
    <3>2. WireAdjacent(k, x, y)
      BY <1>3, <2>2 DEF WireAdjacent, IsRegionNode
    <3>3. CombinesWithNext(k, x)
      BY <1>5, <2>1, <2>2, <3>1, <3>2 DEF CombinesWithNext
    <3> QED
      BY <1>6, <3>3 DEF Ripe
  <2>4. CASE y = id
    <3>1. h.next[x][w1] = id /\ x \in h.live /\ id \in h.live
      BY <1>2, <1>3, <1>5, <2>1, <2>4
    <3>2. IsSucc(h, x, w1, id)
      BY <1>3, <2>1, <3>1 DEF IsExact, LinksExact
    <3>3. id # 0 /\ x \in Nat /\ id \in Nat /\ h.live \subseteq Nat \ {0}
      BY <1>3, <3>1 DEF IsExact, IsGraph
    <3>4. w1 \in h.wires[id] /\ x < id /\ \A j \in LiveAfter(h, x, w1) : id =< j
      BY <3>2, <3>3 DEF IsSucc, LiveAfter
    <3> DEFINE p == h.prev[id][w1]
    <3>5. IsPrev(h, id, w1, p)
      BY <1>3, <3>1, <3>4 DEF IsExact, LinksExact
    <3>6. x \in LiveBefore(h, id, w1)
      BY <2>1, <3>1, <3>4 DEF LiveBefore
    <3> HIDE DEF p
    <3>7. p \in LiveBefore(h, id, w1) /\ x =< p
      BY <3>5, <3>6 DEF IsPrev
    <3>8. p \in Nat /\ p \in h.live /\ p < id /\ w1 \in h.wires[p]
      BY <3>3, <3>7 DEF LiveBefore
    <3>9. p = x
      <4>1. ASSUME x < p PROVE FALSE
        <5>1. p \in LiveAfter(h, x, w1)
          BY <3>8, <4>1 DEF LiveAfter
        <5> QED
          BY <3>3, <3>4, <3>8, <5>1
      <4> QED
        BY <3>3, <3>7, <3>8, <4>1
    <3>10. k.prev[id][w1] = x /\ w1 \in g.wires[id]
      BY <1>1, <1>3, <3>4, <3>9 DEF p
    <3>11. k.prev[id][w1] = IF w1 \in g.wires[b] /\ g.next[b][w1] = id
                           THEN g.prev[b][w1] ELSE g.prev[id][w1]
      BY <1>1, <1>2, <3>10
    <3> QED
      BY <3>10, <3>11
  <2> QED
    BY <2>3, <2>4
<1> QED
  BY <1>7, <1>8 DEF Ripe

\* Two nodes removed.
LEMMA RemoveBothRipens ==
  ASSUME NEW g, IsExact(g), ShapedGraph(g), NEW id \in g.live, NEW b \in g.live, id # b,
         NEW k, k = RemoveNode(g, b), NEW h, h = RemoveNode(k, id), NEW x, Ripe(h, x)
  PROVE  \/ Ripe(g, x)
         \/ \E w \in g.wires[id] : g.prev[id][w] = x
         \/ \E w \in g.wires[b] : g.prev[b][w] = x
<1>1. /\ IsExact(k) /\ ShapedGraph(k)
      /\ k.live = g.live \ {b} /\ k.wires = g.wires
      /\ \A i \in k.live : \A w \in g.wires[i] :
           k.prev[i][w] = IF w \in g.wires[b] /\ g.next[b][w] = i
                          THEN g.prev[b][w] ELSE g.prev[i][w]
  BY RemoveKeepsShape
<1>2. id \in k.live
  BY <1>1
<1>3. Ripe(k, x) \/ \E w \in k.wires[id] : k.prev[id][w] = x
  BY <1>1, <1>2, RemoveRipens
<1>4. CASE Ripe(k, x)
  BY <1>4, RemoveRipens
<1>5. CASE \E w \in k.wires[id] : k.prev[id][w] = x
  <2>1. PICK w \in g.wires[id] : k.prev[id][w] = x
    BY <1>1, <1>5
  <2>2. k.prev[id][w] = IF w \in g.wires[b] /\ g.next[b][w] = id
                        THEN g.prev[b][w] ELSE g.prev[id][w]
    BY <1>1, <1>2
  <2> QED
    BY <2>1, <2>2
<1> QED
  BY <1>3, <1>4, <1>5

-----------------------------------------------------------------------------
(* Step by step                                                             *)

LEMMA TailHolds ==
  ASSUME NEW w, Listed(w), w # <<>>
  PROVE  Listed(Tail(w)) /\ \A x \in Range(w) : x = Head(w) \/ x \in Range(Tail(w))
<1>1. PICK S : w \in Seq(S)
  BY DEF Listed
<1> DEFINE t == Tail(w)
<1>2. /\ t \in Seq(S) /\ DOMAIN t = 1 .. Len(w) - 1 /\ DOMAIN w = 1 .. Len(w) /\ Len(w) \in Nat
      /\ \A k \in 1 .. Len(w) - 1 : t[k] = w[k + 1]
      /\ Head(w) = w[1]
  BY <1>1
<1> HIDE DEF t
<1>3. ASSUME NEW k \in DOMAIN w PROVE w[k] = Head(w) \/ w[k] \in Range(t)
  <2>1. CASE k = 1
    BY <1>2, <2>1
  <2>2. CASE k # 1
    <3>1. k - 1 \in DOMAIN t /\ (k - 1) + 1 = k
      BY <1>2, <2>2
    <3>2. t[k - 1] = w[k]
      BY <1>2, <3>1
    <3> QED
      BY <3>1, <3>2 DEF Range
  <2> QED
    BY <2>1, <2>2
<1>4. \A x \in Range(w) : x = Head(w) \/ x \in Range(t)
  BY <1>3 DEF Range
<1>5. Listed(t)
  BY <1>2 DEF Listed
<1> QED
  BY <1>4, <1>5 DEF t

\* One node handled: whatever became ripe is looked at again.
LEMMA ContinueCalls ==
  ASSUME Calls, top.work # <<>>, NEW g, IsExact(g), ShapedGraph(g), NEW ids, Listed(ids),
         Continue(g, ids),
         \A x : Ripe(g, x) => (Ripe(top.graph, x) /\ x # Head(top.work)) \/ x \in Range(ids)
  PROVE  Calls'
<1> DEFINE work == Enqueue(g, Tail(top.work), ids)
           r == top.region
           b == top.bodies
           A == [top EXCEPT !.graph = g, !.work = work]
           f == FrameOf(g, work, r, b)
<1>1. /\ Call(top) /\ r = 0 /\ Listed(Tail(frames))
      /\ \A k \in DOMAIN Tail(frames) : Call(Tail(frames)[k]) /\ Tail(frames)[k].region # 0
  BY Below
<1>2. frames' = <<A>> \o Tail(frames)
  BY Zenon DEF Continue
<1>3. A = f
  <2> HIDE DEF work
  <2> QED
    BY <1>1, FrameForms DEF Call
<1>4. Listed(top.work) /\ \A x : Ripe(top.graph, x) => x \in Range(top.work)
  BY <1>1 DEF Call, Covers
<1>5. /\ Listed(Tail(top.work))
      /\ \A x \in Range(top.work) : x = Head(top.work) \/ x \in Range(Tail(top.work))
  BY <1>4, TailHolds
<1>6. /\ Listed(work) /\ Range(Tail(top.work)) \subseteq Range(work)
      /\ Range(ids) \cap g.live \subseteq Range(work)
  BY <1>5, EnqueueHolds
<1>7. ShapedBodies(b) /\ b = <<>>
  BY <1>1 DEF Call
<1> HIDE DEF work, r, b, f, A
<1>8. /\ f.graph = g /\ f.work = work /\ f.region = r /\ f.bodies = b
      /\ f = [graph |-> f.graph, work |-> f.work, region |-> f.region, bodies |-> f.bodies]
  BY FrameFields DEF f
<1>9. ASSUME NEW x, Ripe(g, x) PROVE x \in Range(work)
  <2>1. x \in g.live
    BY <1>9 DEF Ripe, CombinesWithNext, Rewritable
  <2>2. CASE x \in Range(ids)
    BY <1>6, <2>1, <2>2
  <2>3. CASE Ripe(top.graph, x) /\ x # Head(top.work)
    BY <1>4, <1>5, <1>6, <2>3
  <2> QED
    BY <1>9, <2>2, <2>3
<1>10. Covers(f)
  BY <1>6, <1>8, <1>9 DEF Covers
<1>11. IsFrame(f)
  BY <1>8 DEF IsFrame
<1>12. Call(f) /\ f.region = 0
  BY <1>1, <1>7, <1>8, <1>10, <1>11 DEF Call
<1> QED
  BY <1>1, <1>2, <1>3, <1>12, Stacked

\* A call of the pass on a stream of commands.
LEMMA OptimiseCalls ==
  ASSUME NEW callers, Listed(callers),
         \A k \in DOMAIN callers : Call(callers[k]) /\ callers[k].region # 0,
         NEW s, ShapedStream(s), Optimise(s, callers)
  PROVE  (phase' = "passes" /\ Calls') \/ phase' = "refused"
<1> DEFINE g == FromCommands(s)
           F == Frame(g)
<1>1. CASE WellFormed(s)
  <2>1. frames' = <<F>> \o callers /\ phase' = "passes"
    BY <1>1 DEF Optimise
  <2>2. IsExact(g) /\ ShapedGraph(g)
    BY <1>1, FromCommandsExact, FromCommandsShaped
  <2>3. Call(F) /\ F.region = 0
    BY <2>2, FrameCall
  <2> HIDE DEF F
  <2> QED
    BY <2>1, <2>3, Stacked
<1>2. CASE ~ WellFormed(s)
  BY <1>2 DEF Optimise
<1> QED
  BY <1>1, <1>2

-----------------------------------------------------------------------------
LEMMA SkipCalls ==
  ASSUME Calls, SkipRemoved
  PROVE  Calls'
<1> DEFINE none == <<>>
<1>1. top.work # <<>> /\ Node \notin top.graph.live /\ Continue(top.graph, none)
  BY DEF SkipRemoved
<1>2. IsExact(top.graph) /\ ShapedGraph(top.graph)
  BY Below DEF Call, IsFrame
<1>3. \A x : Ripe(top.graph, x) => x # Head(top.work)
  BY <1>1 DEF Ripe, CombinesWithNext, Rewritable, Node
<1>4. Listed(none)
  BY NothingShaped
<1> HIDE DEF none
<1> QED
  BY <1>1, <1>2, <1>3, <1>4, ContinueCalls

LEMMA KeepCalls ==
  ASSUME Calls, KeepAdjacent
  PROVE  Calls'
<1> DEFINE none == <<>>
<1>1. /\ top.work # <<>> /\ Continue(top.graph, none)
      /\ ~ DroppableZero(top.graph.cmd[Node]) /\ ~ CombinesWithNext(top.graph, Node)
  BY DEF KeepAdjacent, Working
<1>2. IsExact(top.graph) /\ ShapedGraph(top.graph)
  BY Below DEF Call, IsFrame
<1>3. \A x : Ripe(top.graph, x) => x # Head(top.work)
  BY <1>1 DEF Ripe, Node
<1>4. Listed(none)
  BY NothingShaped
<1> HIDE DEF none
<1> QED
  BY <1>1, <1>2, <1>3, <1>4, ContinueCalls

LEMMA DropCalls ==
  ASSUME Calls, DropZero
  PROVE  Calls'
<1> DEFINE g == top.graph
           id == Node
           h == RemoveNode(g, id)
           ids == Neighbours(g, id)
<1>1. /\ top.work # <<>> /\ Rewritable(g, id) /\ DroppableZero(g.cmd[id])
      /\ Continue(h, ids)
  BY DEF DropZero, Working
<1>2. IsExact(g) /\ ShapedGraph(g)
  BY Below DEF Call, IsFrame
<1>3. id \in g.live /\ ~ IsRegionNode(g, id)
  BY <1>1 DEF Rewritable
<1>4. ~ IsFence(g.cmd[id])
  BY <1>1 DEF DroppableZero, Additive, IsFence
<1>5. Shaped(g.cmd[id]) /\ g.wires[id] = Range(WireSeq(g.cmd[id]))
  BY <1>2, <1>3, <1>4 DEF ShapedGraph
<1>6. Listed(ids) /\ \A w \in g.wires[id] : g.prev[id][w] \in Range(ids)
  BY <1>5, NeighboursHold
<1>7. IsExact(h) /\ ShapedGraph(h) /\ h.live = g.live \ {id}
  BY <1>2, <1>3, RemoveKeepsShape
<1> HIDE DEF h, ids, g
<1>8. ASSUME NEW x, Ripe(h, x)
      PROVE  (Ripe(g, x) /\ x # Head(top.work)) \/ x \in Range(ids)
  <2>1. Ripe(g, x) \/ \E w \in g.wires[id] : g.prev[id][w] = x
    BY <1>2, <1>3, <1>8, RemoveRipens DEF h
  <2>2. x # id
    BY <1>7, <1>8 DEF Ripe, CombinesWithNext, Rewritable
  <2> QED
    BY <1>6, <2>1, <2>2 DEF Node
<1> QED
  BY <1>1, <1>6, <1>7, <1>8, ContinueCalls DEF g

\* The combined rotation.
LEMMA MergedShaped ==
  ASSUME NEW a, Shaped(a), NEW e
  PROVE  /\ Shaped(Merged(a, e, a))
         /\ Merged(a, e, a).gate = a.gate /\ Merged(a, e, a).qubits = a.qubits
         /\ Merged(a, e, a).cbits = a.cbits /\ Merged(a, e, a).cond = a.cond
<1> DEFINE p == <<SumParam(a.params[1], e.params[1])>>
           o == a.origin \cup e.origin
           d == Merged(a, e, a)
<1>1. d = [a EXCEPT !.params = p, !.origin = o]
  BY DEF Merged
<1> HIDE DEF p, o, d
<1>2. d = CommandOf(a.gate, a.qubits, p, a.cbits, a.cond, a.factors, o)
  BY <1>1, MergeForm
<1>3. Shaped(d) /\ d.gate = a.gate /\ d.qubits = a.qubits /\ d.cbits = a.cbits /\ d.cond = a.cond
  BY <1>2, OfShaped, Fields DEF Shaped, HasOperands
<1> QED
  BY <1>3 DEF d

LEMMA CombineCalls ==
  ASSUME Calls, CombineAdjacent
  PROVE  Calls'
<1> DEFINE g == top.graph
           id == Node
           b == Follower(g, id)
           merged == Merged(g.cmd[id], g.cmd[b], g.cmd[id])
           near == Neighbours(g, id)
           far == Neighbours(g, b)
<1>1. /\ top.work # <<>> /\ CombinesWithNext(g, id)
      /\ RemoveBoth(g, id, b) \/ MergeInto(g, id, b, merged, near \o far)
  BY DEF CombineAdjacent, Working
<1>2. IsExact(g) /\ ShapedGraph(g)
  BY Below DEF Call, IsFrame
<1>3. /\ id \in g.live /\ b \in g.live /\ id # b
      /\ g.wires[id] = Range(WireSeq(g.cmd[id])) /\ g.wires[b] = Range(WireSeq(g.cmd[b]))
  BY <1>1, <1>2, FollowerFacts
<1>4. Shaped(g.cmd[id]) /\ Shaped(g.cmd[b])
  BY <1>2, <1>3 DEF ShapedGraph
<1>5. /\ Listed(near) /\ \A w \in g.wires[id] : g.prev[id][w] \in Range(near)
      /\ Listed(far) /\ \A w \in g.wires[b] : g.prev[b][w] \in Range(far)
  BY <1>3, <1>4, NeighboursHold
<1> DEFINE k == RemoveNode(g, b)
<1>6. IsExact(k) /\ ShapedGraph(k) /\ k.live = g.live \ {b} /\ k.cmd = g.cmd /\ id \in k.live
  BY <1>2, <1>3, RemoveKeepsShape
<1>7. Listed(near \o far) /\ Range(near \o far) = Range(near) \cup Range(far)
  BY <1>5, JoinRange
<1>8. CASE RemoveBoth(g, id, b)
  <2> DEFINE h == RemoveNode(k, id)
  <2>1. Continue(h, near \o far)
    BY <1>8 DEF RemoveBoth
  <2>2. IsExact(h) /\ ShapedGraph(h) /\ h.live = k.live \ {id}
    BY <1>6, RemoveKeepsShape
  <2> DEFINE ids == near \o far
  <2> HIDE DEF h, g, b, near, far, ids
  <2>3. ASSUME NEW x, Ripe(h, x)
        PROVE  (Ripe(g, x) /\ x # Head(top.work)) \/ x \in Range(ids)
    <3>1. \/ Ripe(g, x)
          \/ \E w \in g.wires[id] : g.prev[id][w] = x
          \/ \E w \in g.wires[b] : g.prev[b][w] = x
      BY <1>2, <1>3, <2>3, RemoveBothRipens DEF h
    <3>2. x # id
      BY <2>2, <2>3 DEF Ripe, CombinesWithNext, Rewritable
    <3> QED
      BY <1>5, <1>7, <3>1, <3>2 DEF Node, ids
  <2>4. Listed(ids) /\ Continue(h, ids)
    BY <1>7, <2>1 DEF ids
  <2> QED
    BY <1>1, <2>2, <2>3, <2>4, ContinueCalls DEF g
<1>9. CASE MergeInto(g, id, b, merged, near \o far)
  <2> DEFINE h == ReplaceCommand(k, id, merged)
             one == <<id>>
             both == near \o far
             ids == one \o both
  <2>1. Continue(h, ids)
    BY <1>9 DEF MergeInto
  <2>2. /\ Shaped(merged) /\ merged.gate = g.cmd[id].gate /\ merged.qubits = g.cmd[id].qubits
        /\ merged.cbits = g.cmd[id].cbits /\ merged.cond = g.cmd[id].cond
    BY <1>4, MergedShaped
  <2> HIDE DEF merged
  <2>3. IsExact(h) /\ ShapedGraph(h) /\ h.live = k.live
    BY <1>6, <2>2, ReplaceKeepsShape
  <2>4. Listed(one) /\ Range(one) = {id}
    <3>1. Listed(one) /\ DOMAIN one = {1} /\ one[1] = id
      BY OneListed
    <3> QED
      BY <3>1 DEF Range
  <2> HIDE DEF one, both
  <2>5. Listed(ids) /\ Range(ids) = {id} \cup Range(near) \cup Range(far)
    BY <1>7, <2>4, JoinRange DEF both
  <2> HIDE DEF h, g, b, near, far, ids
  <2>6. ASSUME NEW x, Ripe(h, x)
        PROVE  (Ripe(g, x) /\ x # Head(top.work)) \/ x \in Range(ids)
    <3>1. CASE x = id
      BY <2>5, <3>1
    <3>2. CASE x # id
      <4>1. \/ Ripe(g, x)
            \/ \E w \in g.wires[id] : g.prev[id][w] = x
            \/ \E w \in g.wires[b] : g.prev[b][w] = x
        BY <1>2, <1>3, <2>2, <2>6, <3>2, MergeRipens DEF h
      <4> QED
        BY <1>5, <2>5, <3>2, <4>1 DEF Node
    <3> QED
      BY <3>1, <3>2
  <2> QED
    BY <1>1, <2>1, <2>3, <2>5, <2>6, ContinueCalls DEF g
<1> QED
  BY <1>1, <1>8, <1>9

LEMMA EnterCalls ==
  ASSUME Calls, EnterRegion
  PROVE  (phase' = "passes" /\ Calls') \/ phase' = "refused"
<1> DEFINE g == top.graph
           span == g.span[Node]
           work == Tail(top.work)
           none == <<>>
           n == Node
           A == [top EXCEPT !.work = work, !.region = n]
           f == FrameOf(g, work, n, none)
           one == <<A>>
           callers == one \o Tail(frames)
<1>1. /\ top.work # <<>> /\ n \in g.live /\ IsRegionNode(g, n)
      /\ Optimise(Bodies(span)[1], callers)
  BY DEF EnterRegion
<1>2. /\ Call(top) /\ top.region = 0 /\ Listed(Tail(frames))
      /\ \A k \in DOMAIN Tail(frames) : Call(Tail(frames)[k]) /\ Tail(frames)[k].region # 0
  BY Below
<1>3. IsFrame(top) /\ IsExact(g) /\ ShapedGraph(g) /\ Covers(top) /\ top.bodies = none
  BY <1>2 DEF Call, IsFrame
<1>4. A = f
  <2> HIDE DEF work, n, none
  <2> QED
    BY <1>3, FrameForms
<1>5. ShapedStream(span) /\ n \in g.live /\ n # 0
  BY <1>1, <1>3 DEF ShapedGraph, IsExact, IsGraph
<1>6. /\ Listed(Bodies(span)) /\ \A k \in DOMAIN Bodies(span) : ShapedStream(Bodies(span)[k])
      /\ 1 \in DOMAIN Bodies(span) /\ 0 < Len(Bodies(span))
  BY <1>5, BodiesShaped
<1>7. /\ Listed(work)
      /\ \A x \in Range(top.work) : x = n \/ x \in Range(work)
  <2>1. Listed(top.work)
    BY <1>3 DEF Covers
  <2> QED
    BY <1>1, <2>1, TailHolds DEF Node
<1>8. ShapedBodies(none) /\ Len(none) = 0
  BY NothingShaped
<1> HIDE DEF work, A, none, n, f
<1>9. /\ f.graph = g /\ f.work = work /\ f.region = n /\ f.bodies = none
      /\ f = [graph |-> f.graph, work |-> f.work, region |-> f.region, bodies |-> f.bodies]
  BY FrameFields DEF f
<1>10. Covers(f)
  <2>1. \A x : Ripe(g, x) => x # n
    BY <1>1 DEF Ripe, CombinesWithNext, Rewritable
  <2>2. \A x : Ripe(g, x) => x \in Range(top.work)
    BY <1>3 DEF Covers
  <2> QED
    BY <1>7, <1>9, <2>1, <2>2 DEF Covers
<1>11. Waits(f)
  <2>1. span = g.span[n]
    BY DEF n
  <2> QED
    BY <1>1, <1>6, <1>8, <1>9, <2>1 DEF Waits
<1>12. Call(f) /\ f.region # 0
  BY <1>3, <1>5, <1>8, <1>9, <1>10, <1>11 DEF Call, IsFrame
<1>13. Listed(one) /\ DOMAIN one = {1} /\ one[1] = f
  BY <1>4, OneListed
<1>14. /\ Listed(callers)
       /\ \A k \in DOMAIN callers : Call(callers[k]) /\ callers[k].region # 0
  <2> HIDE DEF one
  <2>1. Listed(callers) /\ Range(callers) = Range(one) \cup Range(Tail(frames))
    BY <1>2, <1>13, JoinRange
  <2>2. \A c \in Range(one) \cup Range(Tail(frames)) : Call(c) /\ c.region # 0
    BY <1>2, <1>12, <1>13 DEF Range
  <2> HIDE DEF callers
  <2> QED
    BY <2>1, <2>2 DEF Range
<1>15. ShapedStream(Bodies(span)[1])
  BY <1>6
<1> HIDE DEF callers, span
<1> QED
  BY <1>1, <1>14, <1>15, OptimiseCalls

LEMMA OneMoreListed ==
  ASSUME NEW s, Listed(s), NEW e
  PROVE  /\ Listed(Append(s, e)) /\ Len(Append(s, e)) = Len(s) + 1 /\ Len(s) \in Nat
         /\ \A k \in DOMAIN Append(s, e) : Append(s, e)[k] = e \/ (k \in DOMAIN s /\ Append(s, e)[k] = s[k])
<1>1. PICK S : s \in Seq(S)
  BY DEF Listed
<1> DEFINE a == Append(s, e)
<1>2. /\ a \in Seq(S \cup {e}) /\ Len(a) = Len(s) + 1 /\ Len(s) \in Nat
      /\ DOMAIN a = 1 .. Len(s) + 1 /\ DOMAIN s = 1 .. Len(s)
      /\ a[Len(s) + 1] = e /\ \A k \in 1 .. Len(s) : a[k] = s[k]
  <2>1. s \in Seq(S \cup {e}) /\ e \in S \cup {e}
    BY <1>1
  <2> QED
    BY <2>1
<1>3. Listed(a)
  BY <1>2 DEF Listed
<1> HIDE DEF a
<1>4. ASSUME NEW k \in DOMAIN a PROVE a[k] = e \/ (k \in DOMAIN s /\ a[k] = s[k])
  <2>1. k \in 1 .. Len(s) \/ k = Len(s) + 1
    BY <1>2
  <2> QED
    BY <1>2, <2>1
<1> QED
  BY <1>2, <1>3, <1>4 DEF a

\* The calls below the two innermost.
LEMMA FurtherBelow ==
  ASSUME Calls, Len(frames) > 1
  PROVE  /\ Call(frames[2]) /\ frames[2].region # 0
         /\ Listed(SubSeq(frames, 3, Len(frames)))
         /\ \A k \in DOMAIN SubSeq(frames, 3, Len(frames)) :
              /\ Call(SubSeq(frames, 3, Len(frames))[k])
              /\ SubSeq(frames, 3, Len(frames))[k].region # 0
<1>1. PICK S : frames \in Seq(S)
  BY DEF Calls, Listed
<1> DEFINE t == SubSeq(frames, 3, Len(frames))
<1>2. Len(frames) \in Nat /\ DOMAIN frames = 1 .. Len(frames)
  BY <1>1
<1>3. /\ t \in Seq(S) /\ DOMAIN t = 1 .. Len(t) /\ Len(t) \in Nat
      /\ Len(t) = Len(frames) - 2
      /\ \A k \in 1 .. Len(t) : t[k] = frames[k + 2]
  <2>1. \A i \in 3 .. Len(frames) : frames[i] \in S
    BY <1>1
  <2> QED
    BY <1>1, <1>2, <2>1
<1> HIDE DEF t
<1>4. ASSUME NEW k \in DOMAIN t PROVE Call(t[k]) /\ t[k].region # 0
  <2>1. k + 2 \in DOMAIN frames /\ k + 2 # 1 /\ t[k] = frames[k + 2]
    BY <1>2, <1>3
  <2> QED
    BY <2>1 DEF Calls
<1>5. Listed(t)
  BY <1>3 DEF Listed
<1>6. 2 \in DOMAIN frames
  BY <1>2
<1> QED
  BY <1>4, <1>5, <1>6 DEF Calls, t

\* A call that has put its region back.
LEMMA LeftForm ==
  ASSUME NEW f, IsFrame(f), NEW g, NEW r, NEW b,
         NEW d, d = [f EXCEPT !.graph = g, !.region = r, !.bodies = b]
  PROVE  d = FrameOf(g, f.work, r, b)
<1> DEFINE G == f.graph
           W == f.work
           R == f.region
           B == f.bodies
<1>1. f = FrameOf(G, W, R, B)
  BY DEF IsFrame, FrameOf
<1> HIDE DEF G, W, R, B
<1>2. /\ [FrameOf(G, W, R, B) EXCEPT !.graph = g] = FrameOf(g, W, R, B)
      /\ [FrameOf(g, W, R, B) EXCEPT !.region = r] = FrameOf(g, W, r, B)
      /\ [FrameOf(g, W, r, B) EXCEPT !.bodies = b] = FrameOf(g, W, r, b)
  BY DEF FrameOf
<1>3. [[[FrameOf(G, W, R, B) EXCEPT !.graph = g] EXCEPT !.region = r] EXCEPT !.bodies = b]
        = FrameOf(g, W, r, b)
  BY <1>2
<1>4. [f EXCEPT !.graph = g, !.region = r, !.bodies = b] = FrameOf(g, W, r, b)
  BY <1>1, <1>3, Zenon
<1> QED
  BY <1>4 DEF W

LEMMA LeaveCalls ==
  ASSUME Calls, phase = "passes", LeaveBody
  PROVE  (phase' = "passes" /\ Calls') \/ phase' = "refused"
<1> DEFINE c == frames[2]
           g == c.graph
           r == c.region
           span == g.span[r]
           e == ToCommands(top.graph)
           d == Append(c.bodies, e)
           rest == SubSeq(frames, 3, Len(frames))
<1>1. Len(frames) > 1
  BY DEF LeaveBody
<1>2. /\ Call(c) /\ r # 0 /\ Listed(rest)
      /\ \A k \in DOMAIN rest : Call(rest[k]) /\ rest[k].region # 0
  BY <1>1, FurtherBelow
<1>3. Call(top)
  BY Below
<1>4. /\ IsFrame(c) /\ IsExact(g) /\ ShapedGraph(g) /\ Covers(c) /\ ShapedBodies(c.bodies)
      /\ Waits(c)
  BY <1>2 DEF Call, IsFrame
<1>5. ShapedStream(e)
  BY <1>3, ToCommandsShaped DEF Call, IsFrame
<1>6. /\ ShapedStream(span) /\ span # <<>> /\ r \in g.live /\ IsRegionNode(g, r)
      /\ Len(c.bodies) < Len(Bodies(span))
  BY <1>4 DEF Waits, ShapedGraph, IsRegionNode
<1>7. /\ Listed(Bodies(span)) /\ \A k \in DOMAIN Bodies(span) : ShapedStream(Bodies(span)[k])
      /\ Len(Bodies(span)) \in Nat /\ DOMAIN Bodies(span) = 1 .. Len(Bodies(span))
  BY <1>6, BodiesShaped DEF Listed
<1>8. /\ ShapedBodies(d) /\ Len(d) = Len(c.bodies) + 1 /\ Len(c.bodies) \in Nat
  <2> DEFINE b == c.bodies
  <2>1. Listed(b) /\ \A k \in DOMAIN b : ShapedStream(b[k])
    BY <1>4 DEF ShapedBodies
  <2> HIDE DEF b, e
  <2>2. /\ Listed(Append(b, e)) /\ Len(Append(b, e)) = Len(b) + 1 /\ Len(b) \in Nat
        /\ \A k \in DOMAIN Append(b, e) :
             Append(b, e)[k] = e \/ (k \in DOMAIN b /\ Append(b, e)[k] = b[k])
    BY <2>1, OneMoreListed
  <2> DEFINE a == Append(b, e)
  <2>3. /\ Listed(a) /\ Len(a) = Len(b) + 1 /\ Len(b) \in Nat
        /\ \A k \in DOMAIN a : a[k] = e \/ (k \in DOMAIN b /\ a[k] = b[k])
    BY <2>2
  <2> HIDE DEF a
  <2>4. ShapedBodies(a) /\ Len(a) = Len(b) + 1 /\ Len(b) \in Nat
    BY <1>5, <2>1, <2>3 DEF ShapedBodies
  <2> QED
    BY <2>4 DEF a, b
<1> HIDE DEF d, e, rest
<1>9. CASE Len(d) < Len(Bodies(span))
  <2> DEFINE A == [c EXCEPT !.bodies = d]
             f == FrameOf(g, c.work, r, d)
             one == <<A>>
             callers == one \o rest
             i == Len(d) + 1
  <2>1. Optimise(Bodies(span)[i], callers)
    BY <1>9 DEF LeaveBody, d, e, rest
  <2>2. A = f
    BY <1>4, FrameForms
  <2> HIDE DEF A, f
  <2>3. /\ f.graph = g /\ f.work = c.work /\ f.region = r /\ f.bodies = d
        /\ f = [graph |-> f.graph, work |-> f.work, region |-> f.region, bodies |-> f.bodies]
    BY FrameFields DEF f
  <2>4. Covers(f) /\ Waits(f)
    BY <1>4, <1>9, <2>3 DEF Covers, Waits
  <2>5. Call(f) /\ f.region # 0
    BY <1>2, <1>4, <1>8, <2>3, <2>4 DEF Call, IsFrame
  <2>6. Listed(one) /\ DOMAIN one = {1} /\ one[1] = f
    BY <2>2, OneListed
  <2>7. Listed(callers) /\ \A k \in DOMAIN callers : Call(callers[k]) /\ callers[k].region # 0
    <3> HIDE DEF one
    <3>1. Listed(callers) /\ Range(callers) = Range(one) \cup Range(rest)
      BY <1>2, <2>6, JoinRange
    <3>2. \A x \in Range(one) \cup Range(rest) : Call(x) /\ x.region # 0
      BY <1>2, <2>5, <2>6 DEF Range
    <3> HIDE DEF callers
    <3> QED
      BY <3>1, <3>2 DEF Range
  <2>8. i \in DOMAIN Bodies(span)
    BY <1>7, <1>8, <1>9
  <2>9. ShapedStream(Bodies(span)[i])
    BY <1>7, <2>8
  <2> HIDE DEF callers, span, i
  <2> QED
    BY <2>1, <2>7, <2>9, OptimiseCalls
<1>10. CASE ~ (Len(d) < Len(Bodies(span)))
  <2> DEFINE s == Rebuilt(span, d)
             h == ReplaceSpan(g, r, s)
             none == <<>>
             A == [c EXCEPT !.graph = h, !.region = 0, !.bodies = none]
             f == FrameOf(h, c.work, 0, none)
  <2>1. frames' = <<A>> \o rest /\ phase' = phase
    BY <1>10 DEF LeaveBody, d, e, rest
  <2>2. Len(d) = Len(Bodies(span))
    BY <1>6, <1>7, <1>8, <1>10
  <2>3. Listed(d) /\ \A k \in DOMAIN d : ShapedStream(d[k])
    BY <1>8 DEF ShapedBodies
  <2>4. ShapedStream(s) /\ s # <<>>
    BY <1>6, <2>2, <2>3, RebuiltShaped
  <2> HIDE DEF s
  <2>5. IsExact(h) /\ ShapedGraph(h) /\ \A x : Ripe(h, x) => Ripe(g, x)
    BY <1>4, <1>6, <2>4, ReplaceSpanKeepsShape
  <2> HIDE DEF h, none
  <2>6. A = f
    <3>1. A = [c EXCEPT !.graph = h, !.region = 0, !.bodies = none]
      OBVIOUS
    <3> HIDE DEF A
    <3> QED
      BY <1>4, <3>1, LeftForm
  <2> HIDE DEF A, f
  <2>7. /\ f.graph = h /\ f.work = c.work /\ f.region = 0 /\ f.bodies = none
        /\ f = [graph |-> f.graph, work |-> f.work, region |-> f.region, bodies |-> f.bodies]
    BY FrameFields DEF f
  <2>8. Covers(f)
    BY <1>4, <2>5, <2>7 DEF Covers
  <2>9. ShapedBodies(none) /\ none = <<>>
    BY NothingShaped DEF none
  <2>10. Call(f)
    BY <2>5, <2>7, <2>8, <2>9 DEF Call, IsFrame
  <2> QED
    BY <1>2, <2>1, <2>6, <2>7, <2>10, Stacked
<1> QED
  BY <1>9, <1>10

\* The pass starts with every node on its worklist, and what it takes off is
\* handled: at any moment the ripe nodes are on the lists of the running calls.
CancelInv ==
  /\ IsTarget(target)
  /\ passes \in {<<>>, <<"cancel">>, <<"cancel", "commute">>, <<"commute">>}
  /\ phase \in {"rebase", "rebased"} => ShapedStream(stream)
  /\ phase = "passes" => passes # <<>>
  /\ phase = "passes" /\ Head(passes) = "cancel" => Calls

LEMMA InitCancelInv == RunInit => CancelInv
<1> SUFFICES ASSUME RunInit PROVE CancelInv
  OBVIOUS
<1>1. PICK r \in Requests :
        input = Tagged(r.stream) /\ target = r.target /\ passes = PassesOf(r.level)
  BY DEF RunInit, TranspileInit
<1>2. r.level \in 0 .. 2 /\ IsStream(r.stream) /\ IsTarget(r.target)
  BY RequestAssumption DEF IsProgram
<1>3. PassesOf(r.level) \in {<<>>, <<"cancel">>, <<"cancel", "commute">>}
  BY <1>2 DEF PassesOf
<1>4. ShapedStream(input)
  BY <1>1, <1>2, StreamShaped, TaggedShaped
<1> QED
  BY <1>1, <1>2, <1>3, <1>4 DEF CancelInv, RunInit, TranspileInit

LEMMA RebaseCancelInv == ASSUME CancelInv, RebaseOnce PROVE CancelInv'
<1>1. /\ target' = target /\ passes' = passes /\ stream' = RebasePass(target, stream)
      /\ phase = "rebase" /\ phase' \in {"rebase", "rebased", "refused"}
  BY DEF RebaseOnce
<1>2. \A i \in DOMAIN stream : ~ Refused(target, stream[i])
  BY DEF RebaseOnce, Refusal
<1>3. ShapedStream(stream')
  BY <1>1, <1>2, PassShaped DEF CancelInv
<1> QED
  BY <1>1, <1>3 DEF CancelInv

LEMMA StartCancelInv == ASSUME CancelInv, OptStart PROVE CancelInv'
<1> DEFINE s == Tagged(stream)
           none == <<>>
<1>1. target' = target /\ passes' = passes /\ phase = "rebased"
  BY DEF OptStart
<1>2. ShapedStream(s)
  BY <1>1, TaggedShaped DEF CancelInv
<1>3. CASE passes = <<>>
  BY <1>1, <1>3 DEF OptStart, CancelInv
<1>4. CASE passes # <<>>
  <2>1. Optimise(s, none)
    BY <1>4 DEF OptStart
  <2>2. Listed(none) /\ \A k \in DOMAIN none : Call(none[k]) /\ none[k].region # 0
    <3>1. DOMAIN none = {}
      OBVIOUS
    <3> QED
      BY <3>1, NothingShaped
  <2> HIDE DEF s, none
  <2>3. (phase' = "passes" /\ Calls') \/ phase' = "refused"
    BY <1>2, <2>1, <2>2, OptimiseCalls
  <2> QED
    BY <1>1, <1>4, <2>3 DEF CancelInv
<1> QED
  BY <1>3, <1>4

\* A step of the pass itself.
LEMMA PassCancelInv ==
  ASSUME CancelInv, phase = "passes",
         SkipRemoved \/ EnterRegion \/ LeaveBody \/ DropZero \/ CombineAdjacent \/ KeepAdjacent
           \/ CombineAcross \/ KeepAcross
  PROVE  CancelInv'
<1>1. /\ target' = target /\ passes' = passes
      /\ phase' \in {"passes", "refused"}
  BY DEF SkipRemoved, EnterRegion, LeaveBody, DropZero, CombineAdjacent, KeepAdjacent, CombineAcross,
         KeepAcross, Unchanging, Steady, Optimise
<1>2. ASSUME Head(passes) = "cancel" PROVE (phase' = "passes" /\ Calls') \/ phase' = "refused"
  <2>1. Calls
    BY <1>2 DEF CancelInv
  <2>2. ~ CombineAcross /\ ~ KeepAcross
    BY <1>2 DEF CombineAcross, KeepAcross, Working
  <2>3. CASE SkipRemoved
    BY <1>1, <2>1, <2>3, SkipCalls
  <2>4. CASE EnterRegion
    BY <2>1, <2>4, EnterCalls
  <2>5. CASE LeaveBody
    BY <2>1, <2>5, LeaveCalls
  <2>6. CASE DropZero
    BY <1>1, <2>1, <2>6, DropCalls
  <2>7. CASE CombineAdjacent
    BY <1>1, <2>1, <2>7, CombineCalls
  <2>8. CASE KeepAdjacent
    BY <1>1, <2>1, <2>8, KeepCalls
  <2> QED
    BY <2>2, <2>3, <2>4, <2>5, <2>6, <2>7, <2>8
<1> QED
  BY <1>1, <1>2 DEF CancelInv

LEMMA FinishCancelInv == ASSUME CancelInv, FinishPass PROVE CancelInv'
<1>1. /\ phase = "passes" /\ target' = target /\ passes' = Tail(passes)
      /\ Len(passes) > 1 => phase' = phase
      /\ ~ (Len(passes) > 1) => phase' = "fuse"
  BY DEF FinishPass
<1>2. passes \in {<<"cancel">>, <<"cancel", "commute">>, <<"commute">>}
  BY <1>1 DEF CancelInv
<1>3. CASE passes = <<"cancel", "commute">>
  <2>1. passes' = <<"commute">> /\ Head(passes') # "cancel"
    BY <1>1, <1>3
  <2> QED
    BY <1>1, <1>3, <2>1 DEF CancelInv
<1>4. CASE passes \in {<<"cancel">>, <<"commute">>}
  <2>1. passes' = <<>> /\ phase' = "fuse"
    BY <1>1, <1>4
  <2> QED
    BY <1>1, <2>1 DEF CancelInv
<1> QED
  BY <1>2, <1>3, <1>4

\* What happens outside the passes.
LEMMA OtherCancelInv ==
  ASSUME CancelInv, target' = target, passes' = passes,
         phase' \notin {"rebase", "rebased", "passes"}
  PROVE  CancelInv'
BY DEF CancelInv

LEMMA StutterCancelInv ==
  ASSUME CancelInv, UNCHANGED <<target, passes, phase, stream, frames>>
  PROVE  CancelInv'
BY DEF CancelInv, Calls

LEMMA RunCancelInv == CancelInv /\ [RunNext]_vars => CancelInv'
<1> SUFFICES ASSUME CancelInv, [RunNext]_vars PROVE CancelInv'
  OBVIOUS
<1>1. CASE RebaseOnce
  BY <1>1, RebaseCancelInv
<1>2. CASE Refuse
  BY <1>2, OtherCancelInv DEF Refuse
<1>3. CASE OptNext
  <2>1. CASE OptStart
    BY <2>1, StartCancelInv
  <2>2. CASE FinishPass
    BY <2>2, FinishCancelInv
  <2>3. CASE Fuse
    BY <2>3, OtherCancelInv DEF Fuse
  <2>4. CASE SkipRemoved \/ EnterRegion \/ LeaveBody \/ DropZero \/ CombineAdjacent \/ KeepAdjacent
               \/ CombineAcross \/ KeepAcross
    <3>1. phase = "passes"
      BY <2>4 DEF SkipRemoved, EnterRegion, LeaveBody, DropZero, CombineAdjacent, KeepAdjacent,
                  CombineAcross, KeepAcross, Working
    <3> QED
      BY <2>4, <3>1, PassCancelInv
  <2> QED
    BY <1>3, <2>1, <2>2, <2>3, <2>4 DEF OptNext
<1>4. CASE Bind \/ StartBlocks \/ TakeBlocks \/ Run
  BY <1>4, OtherCancelInv DEF Bind, StartBlocks, TakeBlocks, Run
<1>5. CASE DispatchPart \/ FuseBlocks \/ Finished \/ UNCHANGED vars
  BY <1>5, StutterCancelInv
  DEF DispatchPart, FuseBlocks, Finished, vars, transpileVars, optVars
<1> QED
  BY <1>1, <1>2, <1>3, <1>4, <1>5 DEF RunNext, Transpile, TranspileNext

\* An empty worklist leaves nothing to do.
LEMMA CancelInvFixpoint == CancelInv => CancelReachesFixpoint
<1> SUFFICES ASSUME CancelInv, phase = "passes", Head(passes) = "cancel",
                    top.region = 0, top.work = <<>>
             PROVE  \A id \in top.graph.live : ~ Ripe(top.graph, id)
  BY DEF CancelReachesFixpoint, Ripe
<1>1. Call(top)
  BY Below DEF CancelInv
<1>2. Range(top.work) = {}
  BY NothingShaped
<1> QED
  BY <1>1, <1>2 DEF Call, Covers

\* cancel_wire_adjacent stops at a fixpoint of its own rules in every graph it
\* works on, however deep in the branch regions, for every stream and target.
THEOREM CancelStopsAtFixpoint == Spec => []CancelReachesFixpoint
<1>1. RunInit => CancelInv
  BY InitCancelInv
<1>2. CancelInv /\ [RunNext]_vars => CancelInv'
  BY RunCancelInv
<1> QED
  BY <1>1, <1>2, CancelInvFixpoint, PTL DEF Spec

-----------------------------------------------------------------------------
(* Folds over a sequence                                                    *)

\* One step of the two folds of the fusion: a command taken, or a qubit flushed.
FoldStep(kind, st, e) ==
  IF kind = "fuse" THEN FuseCommand(st, e)
  ELSE [accs |-> [st.accs EXCEPT ![e] = <<>>], out |-> st.out \o Flushed(st.accs[e], e)]

\* The function that a fold of the first n elements is the value of.
Folding(F, kind, st, es, n) ==
  F = [S \in SUBSET (1 .. n) |->
         IF S = {} THEN st ELSE FoldStep(kind, F[S \ {Max(S)}], es[Max(S)])]

LEMMA GreatestIs ==
  ASSUME NEW n \in Nat, NEW S \in SUBSET (1 .. n)
  PROVE  /\ n \in S => Max(S) = n
         /\ S # {} => Max(S) \in S
<1>1. ASSUME n \in S PROVE Max(S) = n
  <2>1. \A y \in S : n >= y
    OBVIOUS
  <2>2. \A x \in S : (\A y \in S : x >= y) => x = n
    BY <1>1
  <2> QED
    BY <1>1, <2>1, <2>2 DEF Max
<1>2. ASSUME S # {} PROVE Max(S) \in S
  <2>1. IsFiniteSet(S)
    <3>1. IsFiniteSet(1 .. n)
      BY FS_Interval
    <3> QED
      BY <3>1, FS_Subset
  <2>2. PICK x \in S : \A y \in S : y =< x
    BY <1>2, <2>1, GreatestExists
  <2>3. \A y \in S : x >= y
    BY <2>2
  <2> QED
    BY <2>3 DEF Max
<1> QED
  BY <1>1, <1>2

LEMMA FoldsExist ==
  ASSUME NEW kind, NEW st, NEW es, NEW n \in Nat
  PROVE  \E F : Folding(F, kind, st, es, n)
<1> DEFINE Bad == {m \in Nat : ~ \E F : Folding(F, kind, st, es, m)}
<1> SUFFICES ASSUME Bad # {} PROVE FALSE
  OBVIOUS
<1>1. PICK m \in Bad : \A j \in Bad : m =< j
  <2>1. Bad \in SUBSET Nat
    OBVIOUS
  <2> HIDE DEF Bad
  <2> QED
    BY <2>1, LeastExists
<1>2. m \in Nat /\ ~ \E F : Folding(F, kind, st, es, m)
  BY <1>1
<1>3. CASE m = 0
  <2> DEFINE B(F, S) == IF S = {} THEN st ELSE FoldStep(kind, F[S \ {Max(S)}], es[Max(S)])
             G == [S \in SUBSET (1 .. m) |-> st]
  <2>1. \A S \in SUBSET (1 .. m) : S = {}
    BY <1>3
  <2>2. \A S \in SUBSET (1 .. m) : B(G, S) = st
    BY <2>1
  <2>3. G = [S \in SUBSET (1 .. m) |-> B(G, S)]
    <3> HIDE DEF B
    <3> QED
      BY <2>2
  <2> HIDE DEF G
  <2>4. Folding(G, kind, st, es, m)
    BY <2>3 DEF Folding
  <2> QED
    BY <1>2, <2>4
<1>4. CASE m # 0
  <2>1. m - 1 \in Nat /\ m - 1 \notin Bad
    BY <1>1, <1>4
  <2>2. PICK G : Folding(G, kind, st, es, m - 1)
    BY <2>1
  <2> DEFINE Next(T, e) == FoldStep(kind, T, e)
             B(F, S) == IF S = {} THEN st ELSE Next(F[S \ {Max(S)}], es[Max(S)])
             LastStep(S) == Next(G[S \ {m}], es[m])
             H == [S \in SUBSET (1 .. m) |-> IF m \in S THEN LastStep(S) ELSE G[S]]
  <2>3. G = [S \in SUBSET (1 .. m - 1) |-> B(G, S)]
    BY <2>2 DEF Folding
  <2>4. \A S \in SUBSET (1 .. m) : m \notin S => S \in SUBSET (1 .. m - 1)
    BY <1>2
  <2>5. \A S \in SUBSET (1 .. m) : S \ {m} \in SUBSET (1 .. m) /\ S \ {m} \in SUBSET (1 .. m - 1)
    BY <1>2
  <2> HIDE DEF Next
  <2>6. ASSUME NEW S \in SUBSET (1 .. m) PROVE H[S] = B(H, S)
    <3>1. CASE m \in S
      <4>1. Max(S) = m
        BY <1>2, <3>1, GreatestIs
      <4>2. H[S] = LastStep(S)
        BY <3>1
      <4>3. H[S \ {m}] = G[S \ {m}]
        BY <2>5
      <4> HIDE DEF H
      <4> QED
        BY <3>1, <4>1, <4>2, <4>3
    <3>2. CASE m \notin S
      <4>1. H[S] = G[S] /\ S \in SUBSET (1 .. m - 1)
        BY <2>4, <3>2
      <4>2. G[S] = B(G, S)
        BY <2>3, <4>1
      <4>3. ASSUME S # {} PROVE H[S \ {Max(S)}] = G[S \ {Max(S)}]
        <5>1. S \ {Max(S)} \in SUBSET (1 .. m) /\ m \notin S \ {Max(S)}
          BY <3>2
        <5> HIDE DEF LastStep
        <5> QED
          BY <5>1
      <4> HIDE DEF H
      <4> QED
        BY <4>1, <4>2, <4>3
    <3> QED
      BY <3>1, <3>2
  <2>7. H = [S \in SUBSET (1 .. m) |-> H[S]]
    <3> HIDE DEF LastStep
    <3> QED
      OBVIOUS
  <2> HIDE DEF H
  <2>8. H = [S \in SUBSET (1 .. m) |-> B(H, S)]
    <3> HIDE DEF B
    <3>1. \A S \in SUBSET (1 .. m) : H[S] = B(H, S)
      BY <2>6
    <3> QED
      BY <2>7, <3>1
  <2>9. Folding(H, kind, st, es, m)
    BY <2>8 DEF Folding, Next
  <2> QED
    BY <1>2, <2>9
<1> QED
  BY <1>3, <1>4

\* The states a fold goes through, and where it ends.
FoldStates(H, kind, st, es, n) ==
  H[0] = st /\ \A k \in 1 .. n : H[k] = FoldStep(kind, H[k - 1], es[k])

LEMMA FoldRuns ==
  ASSUME NEW kind, NEW st, NEW es, NEW n \in Nat,
         NEW F, Folding(F, kind, st, es, n)
  PROVE  \E H : FoldStates(H, kind, st, es, n) /\ H[n] = F[1 .. n]
<1> DEFINE H == [k \in 0 .. n |-> F[1 .. k]]
           B(T, S) == IF S = {} THEN st ELSE FoldStep(kind, T[S \ {Max(S)}], es[Max(S)])
<1>2. F = [S \in SUBSET (1 .. n) |-> B(F, S)]
  BY DEF Folding
<1>3. H[0] = st
  <2>1. 1 .. 0 = {} /\ 0 \in 0 .. n
    OBVIOUS
  <2>2. F[{}] = B(F, {})
    <3> HIDE DEF B
    <3>1. {} \in SUBSET (1 .. n)
      OBVIOUS
    <3> QED
      BY <1>2, <3>1
  <2> QED
    BY <2>1, <2>2
<1>4. ASSUME NEW k \in 1 .. n PROVE H[k] = FoldStep(kind, H[k - 1], es[k])
  <2>1. k \in Nat /\ k \in 0 .. n /\ k - 1 \in 0 .. n /\ k \in 1 .. k
    OBVIOUS
  <2>2. (1 .. k) \ {k} = 1 .. k - 1 /\ 1 .. k \in SUBSET (1 .. n) /\ 1 .. k # {}
    BY <2>1
  <2>3. Max(1 .. k) = k
    BY <2>1, GreatestIs
  <2>4. F[1 .. k] = B(F, 1 .. k)
    <3> HIDE DEF B
    <3> QED
      BY <1>2, <2>2
  <2>5. H[k] = F[1 .. k] /\ H[k - 1] = F[1 .. k - 1]
    BY <2>1
  <2> HIDE DEF H
  <2> QED
    BY <2>2, <2>3, <2>4, <2>5
<1>5. H[n] = F[1 .. n]
  OBVIOUS
<1> HIDE DEF H
<1>6. FoldStates(H, kind, st, es, n)
  BY <1>3, <1>4 DEF FoldStates
<1> QED
  BY <1>5, <1>6

\* The folds of the fusion are such runs.
LEMMA FlushRuns ==
  ASSUME NEW st, NEW qs, NEW n \in Nat, DOMAIN qs = 1 .. n
  PROVE  \E H : FoldStates(H, "flush", st, qs, n) /\ H[n] = FlushQubits(st, qs)
<1> DEFINE F == CHOOSE F : Folding(F, "flush", st, qs, n)
<1>1. FlushQubits(st, qs) = F[1 .. n]
  <2>1. FlushQubits(st, qs) =
          LET F1 == CHOOSE F1 : F1 = [S \in SUBSET (1 .. n) |->
                IF S = {} THEN st ELSE FoldStep("flush", F1[S \ {Max(S)}], qs[Max(S)])]
          IN F1[1 .. n]
    BY DEF FlushQubits, FoldLeft, MapThenFoldSet, FoldStep
  <2> QED
    BY <2>1 DEF Folding
<1>2. Folding(F, "flush", st, qs, n)
  BY FoldsExist
<1> HIDE DEF F
<1>3. \E H : FoldStates(H, "flush", st, qs, n) /\ H[n] = F[1 .. n]
  BY <1>2, FoldRuns
<1> QED
  BY <1>1, <1>3

LEMMA FuseRuns ==
  ASSUME NEW st, NEW s, NEW n \in Nat, DOMAIN s = 1 .. n
  PROVE  \E H : FoldStates(H, "fuse", st, s, n) /\ H[n] = FoldLeft(FuseCommand, st, s)
<1> DEFINE F == CHOOSE F : Folding(F, "fuse", st, s, n)
<1>1. FoldLeft(FuseCommand, st, s) = F[1 .. n]
  <2>1. FoldLeft(FuseCommand, st, s) =
          LET F1 == CHOOSE F1 : F1 = [S \in SUBSET (1 .. n) |->
                IF S = {} THEN st ELSE FoldStep("fuse", F1[S \ {Max(S)}], s[Max(S)])]
          IN F1[1 .. n]
    BY DEF FoldLeft, MapThenFoldSet, FoldStep
  <2> QED
    BY <2>1 DEF Folding
<1>2. Folding(F, "fuse", st, s, n)
  BY FoldsExist
<1> HIDE DEF F
<1>3. \E H : FoldStates(H, "fuse", st, s, n) /\ H[n] = F[1 .. n]
  BY <1>2, FoldRuns
<1> QED
  BY <1>1, <1>3

-----------------------------------------------------------------------------
(* The fusion stays in a target that admits Custom                          *)

\* A list of commands of the target.
Admitted(t, s) == Listed(s) /\ InTarget(t, s)

\* The accumulators, one per qubit of Q, and what has been emitted.
Fusing(t, Q, st) ==
  /\ st = [accs |-> st.accs, out |-> st.out]
  /\ DOMAIN st.accs = Q /\ \A q \in Q : Admitted(t, st.accs[q])
  /\ Admitted(t, st.out)

LEMMA NoneAdmitted ==
  ASSUME NEW t
  PROVE  Admitted(t, <<>>)
<1>1. Listed(<<>>) /\ DOMAIN <<>> = {}
  BY ListedTuples
<1> QED
  BY <1>1 DEF Admitted, InTarget

LEMMA JoinAdmitted ==
  ASSUME NEW t, NEW a, Admitted(t, a), NEW b, Admitted(t, b)
  PROVE  Admitted(t, a \o b)
<1>1. /\ Listed(a) /\ Listed(b) /\ \A i \in DOMAIN a : StaysAsIs(t, a[i])
      /\ \A i \in DOMAIN b : StaysAsIs(t, b[i])
  BY DEF Admitted, InTarget
<1> DEFINE c == a \o b
<1>2. /\ Listed(c) /\ Len(c) = Len(a) + Len(b)
      /\ \A i \in 1 .. Len(c) : c[i] = IF i =< Len(a) THEN a[i] ELSE b[i - Len(a)]
  BY <1>1, ListedJoin
<1>3. /\ Len(a) \in Nat /\ DOMAIN a = 1 .. Len(a) /\ Len(b) \in Nat /\ DOMAIN b = 1 .. Len(b)
      /\ Len(c) \in Nat /\ DOMAIN c = 1 .. Len(c)
  BY <1>1, <1>2, ListedLen
<1> HIDE DEF c
<1>4. ASSUME NEW i \in DOMAIN c PROVE StaysAsIs(t, c[i])
  <2>1. CASE i =< Len(a)
    <3>1. i \in DOMAIN a /\ c[i] = a[i]
      BY <1>2, <1>3, <2>1
    <3> QED
      BY <1>1, <3>1
  <2>2. CASE ~ (i =< Len(a))
    <3>1. i - Len(a) \in DOMAIN b /\ c[i] = b[i - Len(a)]
      BY <1>2, <1>3, <2>2
    <3> QED
      BY <1>1, <3>1
  <2> QED
    BY <2>1, <2>2
<1> QED
  BY <1>2, <1>4 DEF c, Admitted, InTarget

LEMMA OneAdmitted ==
  ASSUME NEW t, NEW c, StaysAsIs(t, c)
  PROVE  Admitted(t, <<c>>)
<1>1. Listed(<<c>>) /\ DOMAIN <<c>> = {1} /\ <<c>>[1] = c
  BY OneListed
<1> DEFINE s == <<c>>
<1>2. Listed(s) /\ DOMAIN s = {1} /\ s[1] = c
  BY <1>1
<1> HIDE DEF s
<1>3. Admitted(t, s)
  BY <1>2 DEF Admitted, InTarget
<1> QED
  BY <1>3 DEF s

\* Append as a join.
LEMMA AppendAdmitted ==
  ASSUME NEW t, NEW s, Admitted(t, s), NEW c, StaysAsIs(t, c)
  PROVE  Admitted(t, Append(s, c))
<1>1. Append(s, c) = s \o <<c>>
  BY DEF Admitted, Listed
<1>2. Admitted(t, s \o <<c>>)
  BY OneAdmitted, JoinAdmitted
<1> QED
  BY <1>1, <1>2

LEMMA FlushedAdmitted ==
  ASSUME NEW t, "Custom" \in t.allowed, NEW acc, Admitted(t, acc), NEW q
  PROVE  Admitted(t, Flushed(acc, q))
<1>1. Len(acc) \in Nat
  BY ListedLen DEF Admitted
<1>2. CASE Len(acc) < 2
  BY <1>1, <1>2 DEF Flushed
<1>3. CASE Len(acc) >= 2 /\ ProductIsIdentity(acc, q)
  <2>1. Flushed(acc, q) = <<>>
    BY <1>1, <1>3 DEF Flushed
  <2> QED
    BY <2>1, NoneAdmitted
<1>4. CASE Len(acc) >= 2 /\ ~ ProductIsIdentity(acc, q)
  <2>1. Flushed(acc, q) = <<FusedCustom(acc, <<q>>)>>
    BY <1>1, <1>4 DEF Flushed
  <2>2. FusedCustom(acc, <<q>>).gate = "Custom"
    BY Fields DEF FusedCustom
  <2>3. StaysAsIs(t, FusedCustom(acc, <<q>>))
    BY <2>2 DEF StaysAsIs
  <2> QED
    BY <2>1, <2>3, OneAdmitted
<1> QED
  BY <1>1, <1>2, <1>3, <1>4

\* States put together.
StateOf(accs, out) == [accs |-> accs, out |-> out]

LEMMA StateFields ==
  ASSUME NEW accs, NEW out
  PROVE  /\ StateOf(accs, out).accs = accs /\ StateOf(accs, out).out = out
         /\ StateOf(accs, out) = [accs |-> StateOf(accs, out).accs, out |-> StateOf(accs, out).out]
BY DEF StateOf

LEMMA StateFusing ==
  ASSUME NEW t, NEW Q, NEW accs, DOMAIN accs = Q, \A q \in Q : Admitted(t, accs[q]),
         NEW out, Admitted(t, out)
  PROVE  Fusing(t, Q, StateOf(accs, out))
BY StateFields DEF Fusing

LEMMA FlushStep ==
  ASSUME NEW t, "Custom" \in t.allowed, NEW Q, NEW st, Fusing(t, Q, st), NEW q \in Q
  PROVE  Fusing(t, Q, FoldStep("flush", st, q))
<1> DEFINE accs == [st.accs EXCEPT ![q] = <<>>]
           out == st.out \o Flushed(st.accs[q], q)
<1>1. FoldStep("flush", st, q) = StateOf(accs, out)
  BY DEF FoldStep, StateOf
<1>2. DOMAIN accs = Q /\ \A p \in Q : accs[p] = IF p = q THEN <<>> ELSE st.accs[p]
  BY DEF Fusing
<1> HIDE DEF accs
<1>3. \A p \in Q : Admitted(t, accs[p])
  BY <1>2, NoneAdmitted DEF Fusing
<1>4. Admitted(t, st.out) /\ Admitted(t, st.accs[q])
  BY DEF Fusing
<1>5. Admitted(t, out)
  BY <1>4, FlushedAdmitted, JoinAdmitted
<1> HIDE DEF out
<1> QED
  BY <1>1, <1>2, <1>3, <1>5, StateFusing

\* A fold that keeps a set of states.
LEMMA StatesKept ==
  ASSUME NEW kind, NEW st, NEW es, NEW n \in Nat, NEW H, FoldStates(H, kind, st, es, n),
         NEW P, 0 \in P, \A k \in 1 .. n : k - 1 \in P => k \in P
  PROVE  n \in P
<1> DEFINE Bad == {k \in 0 .. n : k \notin P}
<1> SUFFICES ASSUME n \notin P PROVE FALSE
  OBVIOUS
<1>1. PICK m \in Bad : \A j \in Bad : m =< j
  <2>1. Bad \in SUBSET Nat /\ Bad # {}
    OBVIOUS
  <2> HIDE DEF Bad
  <2> QED
    BY <2>1, LeastExists
<1>2. m \in 1 .. n /\ m \notin P
  BY <1>1
<1>3. m - 1 \in 0 .. n /\ m - 1 \notin Bad
  BY <1>1, <1>2
<1> QED
  BY <1>2, <1>3

LEMMA FlushFusing ==
  ASSUME NEW t, "Custom" \in t.allowed, NEW Q, NEW st, Fusing(t, Q, st),
         NEW qs, Listed(qs), Range(qs) \subseteq Q
  PROVE  Fusing(t, Q, FlushQubits(st, qs))
<1>1. Len(qs) \in Nat /\ DOMAIN qs = 1 .. Len(qs)
  BY ListedLen
<1>2. PICK H : FoldStates(H, "flush", st, qs, Len(qs)) /\ H[Len(qs)] = FlushQubits(st, qs)
  BY <1>1, FlushRuns
<1> DEFINE P == {k \in 0 .. Len(qs) : Fusing(t, Q, H[k])}
<1>3. 0 \in P
  BY <1>1, <1>2 DEF FoldStates
<1>4. ASSUME NEW k \in 1 .. Len(qs), k - 1 \in P PROVE k \in P
  <2>1. Fusing(t, Q, H[k - 1]) /\ k \in 0 .. Len(qs)
    BY <1>1, <1>4
  <2>2. qs[k] \in Q
    BY <1>1 DEF Range
  <2>3. H[k] = FoldStep("flush", H[k - 1], qs[k])
    BY <1>2 DEF FoldStates
  <2>4. Fusing(t, Q, H[k])
    BY <2>1, <2>2, <2>3, FlushStep
  <2> QED
    BY <2>1, <2>4
<1>5. Len(qs) \in P
  <2> HIDE DEF P
  <2> QED
    BY <1>1, <1>2, <1>3, <1>4, StatesKept
<1> QED
  BY <1>2, <1>5

LEMMA FlushedByIn ==
  ASSUME NEW c, Listed(c.qubits), NEW accs, DOMAIN accs \in SUBSET Nat, IsFiniteSet(DOMAIN accs),
         Operands(c) \subseteq DOMAIN accs
  PROVE  Listed(FlushedBy(c, accs)) /\ Range(FlushedBy(c, accs)) \subseteq DOMAIN accs
<1> DEFINE O == {q \in DOMAIN accs :
                  /\ c.gate = "Measure" /\ accs[q] # <<>>
                  /\ Range(c.cbits) \cap accs[q][1].bits # {}}
<1>1. O \in SUBSET Nat /\ IsFiniteSet(O) /\ O \subseteq DOMAIN accs
  BY FS_Subset
<1>2. FlushedBy(c, accs) = IF c.gate \in Markers \/ IsFence(c) THEN InOrder(DOMAIN accs)
                           ELSE c.qubits \o InOrder(O)
  BY DEF FlushedBy
<1> HIDE DEF O
<1>3. Listed(InOrder(DOMAIN accs)) /\ Range(InOrder(DOMAIN accs)) = DOMAIN accs
  BY InOrderHolds
<1>4. Listed(InOrder(O)) /\ Range(InOrder(O)) = O
  BY <1>1, InOrderHolds
<1>5. Listed(c.qubits \o InOrder(O)) /\ Range(c.qubits \o InOrder(O)) = Range(c.qubits) \cup O
  BY <1>4, JoinRange
<1>6. Range(c.qubits) \subseteq DOMAIN accs
  BY DEF Operands, Range
<1> QED
  BY <1>1, <1>2, <1>3, <1>5, <1>6

LEMMA FuseStep ==
  ASSUME NEW t, "Custom" \in t.allowed, NEW Q \in SUBSET Nat, IsFiniteSet(Q), NEW st, Fusing(t, Q, st),
         NEW c, StaysAsIs(t, c), Listed(c.qubits), Operands(c) \subseteq Q
  PROVE  Fusing(t, Q, FoldStep("fuse", st, c))
<1>1. FoldStep("fuse", st, c) = FuseCommand(st, c)
  BY DEF FoldStep
<1>2. CASE IsFusible1Q(c)
  <2> DEFINE q == c.qubits[1]
             ready == IF st.accs[q] # <<>> /\ st.accs[q][1].cond # c.cond
                     THEN FlushQubits(st, <<q>>) ELSE st
             accs == [ready.accs EXCEPT ![q] = Append(@, c)]
  <2>1. q \in Q
    BY <1>2, ListedLen DEF IsFusible1Q, Operands
  <2>2. Listed(<<q>>) /\ Range(<<q>>) \subseteq Q
    <3> HIDE DEF q
    <3>1. Listed(<<q>>) /\ DOMAIN <<q>> = {1} /\ <<q>>[1] = q
      BY OneListed
    <3> QED
      BY <2>1, <3>1 DEF Range
  <2>3. FuseCommand(st, c) = [ready EXCEPT !.accs[q] = Append(@, c)]
    BY <1>2 DEF FuseCommand
  <2> HIDE DEF q
  <2>4. Fusing(t, Q, FlushQubits(st, <<q>>))
    BY <2>2, FlushFusing
  <2>5. Fusing(t, Q, ready)
    BY <2>4
  <2> HIDE DEF ready
  <2>6. [ready EXCEPT !.accs[q] = Append(@, c)] = StateOf(accs, ready.out)
    <3>1. ready = [accs |-> ready.accs, out |-> ready.out]
      BY <2>5 DEF Fusing
    <3> QED
      BY <3>1 DEF StateOf
  <2>7. DOMAIN accs = Q /\ \A p \in Q : accs[p] = IF p = q THEN Append(ready.accs[q], c) ELSE ready.accs[p]
    BY <2>1, <2>5 DEF Fusing
  <2> HIDE DEF accs
  <2>8. Admitted(t, Append(ready.accs[q], c))
    BY <2>1, <2>5, AppendAdmitted DEF Fusing
  <2>9. \A p \in Q : Admitted(t, accs[p])
    BY <2>5, <2>7, <2>8 DEF Fusing
  <2>10. Admitted(t, ready.out)
    BY <2>5 DEF Fusing
  <2>11. Fusing(t, Q, StateOf(accs, ready.out))
    BY <2>7, <2>9, <2>10, StateFusing
  <2> QED
    BY <1>1, <2>3, <2>6, <2>11
<1>3. CASE ~ IsFusible1Q(c)
  <2> DEFINE flushed == FlushQubits(st, FlushedBy(c, st.accs))
  <2>1. FuseCommand(st, c) = [flushed EXCEPT !.out = Append(@, c)]
    BY <1>3 DEF FuseCommand
  <2>2. Listed(FlushedBy(c, st.accs)) /\ Range(FlushedBy(c, st.accs)) \subseteq Q
    BY FlushedByIn DEF Fusing
  <2>3. Fusing(t, Q, flushed)
    BY <2>2, FlushFusing
  <2> HIDE DEF flushed
  <2>4. [flushed EXCEPT !.out = Append(@, c)] = StateOf(flushed.accs, Append(flushed.out, c))
    <3>1. flushed = [accs |-> flushed.accs, out |-> flushed.out]
      BY <2>3 DEF Fusing
    <3> QED
      BY <3>1 DEF StateOf
  <2>5. Fusing(t, Q, StateOf(flushed.accs, Append(flushed.out, c)))
    BY <2>3, AppendAdmitted, StateFusing DEF Fusing
  <2> QED
    BY <1>1, <2>1, <2>4, <2>5
<1> QED
  BY <1>2, <1>3

\* What fuse_single_qubit_gates is given, and what it must return.
LEMMA FusionAdmitted ==
  ASSUME NEW t, "Custom" \in t.allowed, NEW s, Admitted(t, s),
         \A i \in DOMAIN s : s[i].qubits \in Seq(Nat)
  PROVE  InTarget(t, FuseSingleQubitGates(s))
<1> DEFINE Q == UNION {Operands(s[i]) : i \in DOMAIN s}
           init == [accs |-> [q \in Q |-> <<>>], out |-> <<>>]
           last == FoldLeft(FuseCommand, init, s)
<1>1. Len(s) \in Nat /\ DOMAIN s = 1 .. Len(s)
  BY ListedLen DEF Admitted
<1>2. Q \in SUBSET Nat /\ IsFiniteSet(Q)
  <2> DEFINE O(i) == Operands(s[i])
             ops == [i \in DOMAIN s |-> O(i)]
  <2>1. \A i \in DOMAIN s : O(i) \in SUBSET Nat /\ IsFiniteSet(O(i))
    <3> SUFFICES ASSUME NEW i \in DOMAIN s PROVE O(i) \in SUBSET Nat /\ IsFiniteSet(O(i))
      OBVIOUS
    <3>1. s[i].qubits \in Seq(Nat)
      OBVIOUS
    <3>2. IsFiniteSet(1 .. Len(s[i].qubits)) /\ DOMAIN s[i].qubits = 1 .. Len(s[i].qubits)
      BY <3>1, FS_Interval
    <3>3. IsFiniteSet({s[i].qubits[k] : k \in DOMAIN s[i].qubits})
      BY <3>2, ImageFinite
    <3> QED
      BY <3>1, <3>3 DEF Operands
  <2>2. IsFiniteSet({ops[i] : i \in DOMAIN s})
    <3>1. IsFiniteSet(DOMAIN s)
      BY <1>1, FS_Interval
    <3> HIDE DEF ops
    <3> QED
      BY <3>1, ImageFinite
  <2>3. {ops[i] : i \in DOMAIN s} = {O(i) : i \in DOMAIN s}
    <3> HIDE DEF O
    <3> QED
      OBVIOUS
  <2>4. IsFiniteSet(UNION {O(i) : i \in DOMAIN s})
    <3> HIDE DEF O, ops
    <3> QED
      BY <2>1, <2>2, <2>3, FS_UNION
  <2>5. \A q \in Q : q \in Nat
    BY <2>1
  <2> QED
    BY <2>4, <2>5
<1>3. FuseSingleQubitGates(s) = FlushQubits(last, InOrder(Q)).out
  BY DEF FuseSingleQubitGates
<1>4. \A i \in DOMAIN s : Operands(s[i]) \subseteq Q
  OBVIOUS
<1>5. Fusing(t, Q, init)
  <2>1. init = StateOf([q \in Q |-> <<>>], <<>>)
    BY DEF StateOf
  <2> HIDE DEF init, Q
  <2> QED
    BY <2>1, NoneAdmitted, StateFusing
<1> HIDE DEF Q, init
<1>6. PICK H : FoldStates(H, "fuse", init, s, Len(s)) /\ H[Len(s)] = last
  BY <1>1, FuseRuns
<1> DEFINE P == {k \in 0 .. Len(s) : Fusing(t, Q, H[k])}
<1>7. 0 \in P
  BY <1>1, <1>5, <1>6 DEF FoldStates
<1>8. ASSUME NEW k \in 1 .. Len(s), k - 1 \in P PROVE k \in P
  <2>1. Fusing(t, Q, H[k - 1]) /\ k \in 0 .. Len(s)
    BY <1>1, <1>8
  <2>2. StaysAsIs(t, s[k]) /\ Listed(s[k].qubits) /\ Operands(s[k]) \subseteq Q
    BY <1>1, <1>4 DEF Admitted, InTarget, Listed
  <2>3. H[k] = FoldStep("fuse", H[k - 1], s[k])
    BY <1>6 DEF FoldStates
  <2>4. Fusing(t, Q, H[k])
    BY <1>2, <2>1, <2>2, <2>3, FuseStep
  <2> QED
    BY <2>1, <2>4
<1>9. Len(s) \in P
  <2> HIDE DEF P
  <2> QED
    BY <1>1, <1>6, <1>7, <1>8, StatesKept
<1>10. Fusing(t, Q, last)
  BY <1>6, <1>9
<1> HIDE DEF last
<1>11. Listed(InOrder(Q)) /\ Range(InOrder(Q)) \subseteq Q
  BY <1>2, InOrderHolds
<1>12. Fusing(t, Q, FlushQubits(last, InOrder(Q)))
  BY <1>10, <1>11, FlushFusing
<1> QED
  BY <1>3, <1>12 DEF Fusing, Admitted

-----------------------------------------------------------------------------
(* Branch regions, taken apart and put together                             *)

\* Streams that nest are those without misplaced markers.
LEMMA NestedIs ==
  ASSUME NEW s, Listed(s)
  PROVE  Nested(s) <=> ~ Misnested(s)
<1>1. Len(s) \in Nat /\ DOMAIN s = 1 .. Len(s)
  BY ListedLen
<1>2. \A k \in 0 .. Len(s) : Depth(s, k) \in Int
  BY <1>1, DepthType
<1>3. ASSUME NEW i \in DOMAIN s, NEW j \in DOMAIN s, NEW k \in i .. j
      PROVE  Depth(s, k) \in Int /\ Depth(s, i) \in Int
  BY <1>1, <1>2, <1>3
<1>4. ASSUME Nested(s) PROVE ~ Misnested(s)
  <2>1. WellFormed(s)
    <3> SUFFICES ASSUME NEW i \in 1 .. Len(s), Depth(s, i - 1) = 0,
                        s[i].gate \in {"BranchElse", "BranchEnd"}
                 PROVE  FALSE
      BY <1>4 DEF Nested, Balanced, WellFormed
    <3>1. Depth(s, i) = Deepens(s[i]) /\ Deepens(s[i]) \in {-1, 0, 1}
      BY DepthDeepens
    <3>2. CASE s[i].gate = "BranchElse"
      <4>1. Depth(s, i) = 0
        BY <3>1, <3>2 DEF Deepens
      <4> QED
        BY <1>1, <1>4, <3>2, <4>1 DEF Nested, ElseInside
    <3>3. CASE s[i].gate = "BranchEnd"
      <4>1. Depth(s, i) = -1
        BY <3>1, <3>3 DEF Deepens
      <4>2. i \in 0 .. Len(s)
        BY <1>1
      <4> QED
        BY <1>4, <4>1, <4>2 DEF Nested, Balanced
    <3> QED
      BY <3>2, <3>3
  <2>2. ASSUME NEW i \in DOMAIN s, NEW j \in DOMAIN s,
               i < j, s[i].gate = "BranchElse", s[j].gate = "BranchElse", Depth(s, i) = Depth(s, j),
               \A k \in i .. j : Depth(s, k) >= Depth(s, i)
        PROVE  FALSE
    <3>1. PICK k \in i .. j : Depth(s, k) < Depth(s, i)
      BY <1>4, <2>2 DEF Nested, Balanced, SingleElse
    <3> QED
      BY <1>3, <2>2, <3>1
  <2> QED
    BY <2>1, <2>2 DEF Misnested
<1>5. ASSUME ~ Misnested(s) PROVE Nested(s)
  <2>1. WellFormed(s)
    BY <1>5 DEF Misnested
  <2>2. \A k \in 0 .. Len(s) : Depth(s, k) >= 0
    <3> DEFINE Bad == {k \in 0 .. Len(s) : Depth(s, k) < 0}
    <3>1. ASSUME Bad # {} PROVE FALSE
      <4>1. PICK k \in Bad : \A j \in Bad : k =< j
        <5>1. Bad \in SUBSET Nat
          BY <1>1
        <5> HIDE DEF Bad
        <5> QED
          BY <3>1, <5>1, LeastExists
      <4>2. k \in 1 .. Len(s)
        BY <1>1, <4>1, DepthZero
      <4>3. k - 1 \in 0 .. Len(s) /\ k - 1 \notin Bad
        BY <1>1, <4>1, <4>2
      <4>4. Depth(s, k) = Depth(s, k - 1) + Deepens(s[k]) /\ Deepens(s[k]) \in {-1, 0, 1}
        BY <4>2, DepthDeepens
      <4>5. Depth(s, k - 1) = 0 /\ Deepens(s[k]) = -1
        BY <1>2, <4>1, <4>3, <4>4
      <4>6. s[k].gate = "BranchEnd"
        BY <4>5 DEF Deepens
      <4> QED
        BY <2>1, <4>2, <4>5, <4>6 DEF WellFormed
    <3> QED
      BY <1>2, <3>1
  <2>3. SingleElse(s)
    <3> SUFFICES ASSUME NEW i \in DOMAIN s, NEW j \in DOMAIN s,
                        i < j, s[i].gate = "BranchElse", s[j].gate = "BranchElse",
                        Depth(s, i) = Depth(s, j), ~ \E k \in i .. j : Depth(s, k) < Depth(s, i)
                 PROVE  FALSE
      BY DEF SingleElse
    <3>1. \A k \in i .. j : Depth(s, k) >= Depth(s, i)
      BY <1>3
    <3> QED
      BY <1>5, <3>1 DEF Misnested
  <2>4. ElseInside(s)
    <3> SUFFICES ASSUME NEW i \in DOMAIN s, s[i].gate = "BranchElse", Depth(s, i) = 0 PROVE FALSE
      BY DEF ElseInside
    <3>1. Depth(s, i) = Depth(s, i - 1) + Deepens(s[i]) /\ Depth(s, i - 1) \in Int
      BY <1>1, DepthDeepens
    <3>2. Depth(s, i - 1) = 0
      BY <3>1 DEF Deepens
    <3> QED
      BY <1>1, <2>1, <3>2 DEF WellFormed
  <2> QED
    BY <2>1, <2>2, <2>3, <2>4 DEF Nested, Balanced, WellFormed
<1> QED
  BY <1>4, <1>5

\* The first else of a region.
IsElse(s, e) == e \in ElseAt(s) /\ \A j \in ElseAt(s) : e =< j

LEMMA ElseFound ==
  ASSUME NEW s, ElseAt(s) # {}
  PROVE  IsElse(s, CHOOSE i \in ElseAt(s) : \A j \in ElseAt(s) : i =< j)
<1>1. ElseAt(s) \in SUBSET Nat
  BY DEF ElseAt
<1>2. \E i \in ElseAt(s) : \A j \in ElseAt(s) : i =< j
  BY <1>1, LeastExists
<1> QED
  BY <1>2 DEF IsElse

\* The bodies of a region are streams of their own.
LEMMA BodiesNested ==
  ASSUME NEW s, Region(s)
  PROVE  \A k \in DOMAIN Bodies(s) : Nested(Bodies(s)[k])
<1> DEFINE n == Len(s) - 1
<1>1. /\ Listed(s) /\ SingleElse(s) /\ Len(s) \in Nat /\ Len(s) >= 2 /\ DOMAIN s = 1 .. Len(s)
      /\ Depth(s, 1) = 1 /\ Depth(s, n) = 1
      /\ \A k \in 1 .. n : Depth(s, k) > 0
  BY RegionForm DEF Region, Balanced
<1>2. \A k \in Int : Depth(s, k) \in Int
  BY DepthType
<1>3. n \in Nat /\ 1 =< n /\ n =< Len(s) /\ n + 1 = Len(s)
  BY <1>1
<1>4. \A k \in 1 .. n : Depth(s, k) >= 1
  <2> SUFFICES ASSUME NEW k \in 1 .. n PROVE Depth(s, k) >= 1
    OBVIOUS
  <2>1. Depth(s, k) > 0
    BY <1>1
  <2>2. Depth(s, k) \in Int
    BY <1>2, <1>3
  <2> QED
    BY <2>1, <2>2
<1>5. ElseAt(s) = {i \in 2 .. n : s[i].gate = "BranchElse" /\ Depth(s, i) = 1}
  BY DEF ElseAt
<1> HIDE DEF n
<1>6. CASE ElseAt(s) = {}
  <2> DEFINE t == SubSeq(s, 2, n)
  <2>1. Nested(t)
    <3>1. t = SubSeq(s, 1 + 1, n)
      BY DEF n
    <3>2. Depth(s, n) = Depth(s, 1)
      BY <1>1
    <3>3. \A k \in 1 .. n : Depth(s, k) >= Depth(s, 1)
      BY <1>1, <1>4
    <3>4. \A k \in 1 + 1 .. n : s[k].gate = "BranchElse" => Depth(s, k) # Depth(s, 1)
      BY <1>1, <1>5, <1>6
    <3> HIDE DEF t
    <3> QED
      BY <1>1, <1>3, <3>1, <3>2, <3>3, <3>4, PartNested
  <2>2. Bodies(s) = <<t>>
    BY <1>6 DEF Bodies, n
  <2> HIDE DEF t
  <2>3. DOMAIN <<t>> = {1} /\ <<t>>[1] = t
    BY OneListed
  <2> QED
    BY <2>1, <2>2, <2>3
<1>7. CASE ElseAt(s) # {}
  <2> DEFINE e == CHOOSE i \in ElseAt(s) : \A j \in ElseAt(s) : i =< j
             b == SubSeq(s, 2, e - 1)
             c == SubSeq(s, e + 1, n)
  <2>1. Bodies(s) = <<b, c>>
    BY <1>7 DEF Bodies, n
  <2>2. IsElse(s, e)
    BY <1>7, ElseFound
  <2> HIDE DEF e
  <2>3. e \in 2 .. n /\ s[e].gate = "BranchElse" /\ Depth(s, e) = 1 /\ e \in Nat
    BY <1>3, <1>5, <2>2 DEF IsElse
  <2>4. Depth(s, e - 1) = 1 /\ e - 1 \in Nat /\ 1 =< e - 1 /\ e - 1 =< Len(s) /\ e =< n
    <3>1. e \in 1 .. Len(s)
      BY <1>3, <2>3
    <3>2. Depth(s, e) = Depth(s, e - 1) + Deepens(s[e]) /\ Depth(s, e - 1) \in Int
      BY <1>1, <3>1, DepthDeepens
    <3>3. Deepens(s[e]) = 0
      BY <2>3 DEF Deepens
    <3> QED
      BY <1>3, <2>3, <3>2, <3>3
  <2>5. ASSUME NEW k \in 2 .. n, s[k].gate = "BranchElse", Depth(s, k) = 1
        PROVE  k = e
    <3>1. k \in ElseAt(s)
      BY <1>5, <2>5
    <3>2. e =< k
      BY <2>2, <3>1 DEF IsElse
    <3> SUFFICES ASSUME e < k PROVE FALSE
      BY <1>3, <2>3, <3>2
    <3>3. e \in DOMAIN s /\ k \in DOMAIN s /\ Depth(s, e) = Depth(s, k)
      BY <1>1, <1>3, <2>3, <2>5
    <3>4. PICK x \in e .. k : Depth(s, x) < Depth(s, e)
      BY <1>1, <2>3, <2>5, <3>3 DEF SingleElse
    <3>5. x \in 1 .. n /\ x \in Int
      BY <1>3, <2>3
    <3>6. Depth(s, x) >= 1 /\ Depth(s, x) \in Int
      BY <1>2, <1>4, <3>5
    <3> QED
      BY <2>3, <3>4, <3>6
  <2>6. Nested(b)
    <3> DEFINE m == e - 1
    <3>1. b = SubSeq(s, 1 + 1, m)
      BY DEF n
    <3>2. Depth(s, m) = Depth(s, 1) /\ m \in Nat /\ 1 =< m /\ m =< Len(s)
      BY <1>1, <2>4
    <3>3. \A k \in 1 .. m : k \in 1 .. n
      BY <1>3, <2>3
    <3>4. \A k \in 1 .. m : Depth(s, k) >= Depth(s, 1)
      BY <1>1, <1>4, <3>3
    <3>5. \A k \in 1 + 1 .. m : s[k].gate = "BranchElse" => Depth(s, k) # Depth(s, 1)
      <4>1. \A k \in 1 + 1 .. m : k \in 2 .. n /\ k # e
        BY <1>3, <2>3
      <4> QED
        BY <1>1, <2>5, <4>1
    <3> HIDE DEF b, m
    <3> QED
      BY <1>1, <3>1, <3>2, <3>4, <3>5, PartNested
  <2>7. Nested(c)
    <3>1. c = SubSeq(s, e + 1, n)
      OBVIOUS
    <3>2. Depth(s, n) = Depth(s, e)
      BY <1>1, <2>3 DEF n
    <3>3. \A k \in e .. n : k \in 1 .. n
      BY <1>3, <2>3
    <3>4. \A k \in e .. n : Depth(s, k) >= Depth(s, e)
      BY <2>3, <1>4, <3>3
    <3>5. \A k \in e + 1 .. n : s[k].gate = "BranchElse" => Depth(s, k) # Depth(s, e)
      <4>1. \A k \in e + 1 .. n : k \in 2 .. n /\ k # e
        BY <1>3, <2>3
      <4> QED
        BY <2>3, <2>5, <4>1
    <3> HIDE DEF c
    <3> QED
      BY <1>1, <1>3, <2>3, <2>4, <3>1, <3>2, <3>4, <3>5, PartNested
  <2> HIDE DEF b, c
  <2>8. DOMAIN <<b, c>> = {1, 2}
    OBVIOUS
  <2> QED
    BY <2>1, <2>6, <2>7, <2>8
<1> QED
  BY <1>6, <1>7

\* And a region put together of such bodies is one again.
LEMMA RebuiltRegion ==
  ASSUME NEW s, ShapedStream(s), Region(s), NEW bodies, Listed(bodies),
         \A k \in DOMAIN bodies : Nested(bodies[k]), Len(bodies) = Len(Bodies(s))
  PROVE  Region(Rebuilt(s, bodies))
<1>1. /\ Listed(s) /\ Len(s) \in Nat /\ Len(s) >= 2 /\ DOMAIN s = 1 .. Len(s)
      /\ s[1].gate = "BranchBegin" /\ s[Len(s)].gate = "BranchEnd"
  BY RegionForm DEF Region, Balanced
<1>2. DOMAIN bodies = 1 .. Len(bodies)
  BY ListedLen
<1>3. CASE ElseAt(s) = {}
  <2>1. Len(bodies) = 1
    BY <1>3, BodiesShaped
  <2>2. Balanced(bodies[1])
    <3>1. 1 \in DOMAIN bodies
      BY <1>2, <2>1
    <3> QED
      BY <3>1 DEF Nested
  <2> DEFINE a == <<s[1]>> \o bodies[1]
             t == a \o <<s[Len(s)]>>
  <2>3. Rebuilt(s, bodies) = t
    BY <2>1 DEF Rebuilt
  <2>4. IsJoin(a, <<s[1]>>, bodies[1]) /\ IsJoin(t, a, <<s[Len(s)]>>)
    BY DEF IsJoin
  <2> HIDE DEF a, t
  <2> QED
    BY <1>1, <2>2, <2>3, <2>4, RegionWraps
<1>4. CASE ElseAt(s) # {}
  <2> DEFINE e == CHOOSE i \in ElseAt(s) : \A j \in ElseAt(s) : i =< j
  <2>1. IsElse(s, e)
    BY <1>4, ElseFound
  <2> DEFINE u == <<s[1]>>
             v == <<s[e]>>
             w == <<s[Len(s)]>>
             b == bodies[1]
             c == bodies[2]
  <2>2. Len(bodies) = 2
    BY <1>4, BodiesShaped
  <2>3. Rebuilt(s, bodies) = u \o b \o v \o c \o w
    BY <2>2 DEF Rebuilt
  <2>4. Nested(b) /\ Nested(c)
    <3>1. 1 \in DOMAIN bodies /\ 2 \in DOMAIN bodies
      BY <1>2, <2>2
    <3> QED
      BY <3>1
  <2> HIDE DEF e
  <2>5. s[e].gate = "BranchElse"
    BY <2>1 DEF IsElse, ElseAt
  <2>6. Balanced(v)
    BY <2>5, OneNested
  <2>7. Listed(u) /\ Listed(v) /\ Listed(b) /\ Listed(c)
    BY <2>4, <2>6, OneListed DEF Nested, Balanced
  <2> DEFINE bv == b \o v
             bvc == bv \o c
             a == u \o bvc
             t == a \o w
  <2> HIDE DEF u, v, w, b, c
  <2>8. IsJoin(bv, b, v) /\ IsJoin(bvc, bv, c)
    BY DEF IsJoin
  <2>9. u \o b \o v \o c = a
    <3>1. PICK B : b \in Seq(B)
      BY <2>7 DEF Listed
    <3>2. PICK C : c \in Seq(C)
      BY <2>7 DEF Listed
    <3>3. PICK U : u \in Seq(U)
      BY <2>7 DEF Listed
    <3>4. PICK V : v \in Seq(V)
      BY <2>7 DEF Listed
    <3> DEFINE S == B \cup C \cup U \cup V
    <3>5. b \in Seq(S) /\ c \in Seq(S) /\ u \in Seq(S) /\ v \in Seq(S)
      <4>1. b \in Seq(S)
        BY <3>1
      <4>2. c \in Seq(S)
        BY <3>2
      <4>3. u \in Seq(S)
        BY <3>3
      <4>4. v \in Seq(S)
        BY <3>4
      <4> QED
        BY <4>1, <4>2, <4>3, <4>4
    <3> HIDE DEF S
    <3>6. u \o b \o v = u \o bv /\ bv \in Seq(S)
      BY <3>5, Associates
    <3> HIDE DEF bv
    <3>7. (u \o bv) \o c = u \o (bv \o c)
      BY <3>5, <3>6, Associates
    <3> QED
      BY <3>6, <3>7
  <2> HIDE DEF bv, bvc
  <2>10. Balanced(bv)
    BY <2>4, <2>6, <2>8, JoinBalanced DEF Nested
  <2>11. Balanced(bvc)
    BY <2>4, <2>8, <2>10, JoinBalanced DEF Nested
  <2>12. IsJoin(a, u, bvc) /\ IsJoin(t, a, w) /\ t = Rebuilt(s, bodies)
    <3>1. t = Rebuilt(s, bodies)
      BY <2>3, <2>9
    <3> QED
      BY <3>1 DEF IsJoin
  <2> HIDE DEF a, t
  <2> QED
    BY <1>1, <2>11, <2>12, RegionWraps DEF u, w
<1> QED
  BY <1>3, <1>4

\* Nested pieces, one after the other.
LEMMA FlattenNested ==
  ASSUME NEW ss, Listed(ss), \A i \in DOMAIN ss : Nested(ss[i])
  PROVE  Nested(FlattenSeq(ss))
<1>1. Len(ss) \in Nat /\ DOMAIN ss = 1 .. Len(ss)
  BY ListedLen
<1>2. \A i \in DOMAIN ss : Listed(ss[i])
  BY DEF Nested, Balanced
<1>3. PICK S : ss \in Seq(Seq(S))
  BY <1>2, PiecesIn
<1>4. CASE ss = <<>>
  <2>1. FlattenSeq(ss) = <<>>
    BY <1>4, FlattenNone
  <2> QED
    BY <2>1, NothingNested
<1>5. CASE ss # <<>>
  <2>1. PICK F \in [1 .. Len(ss) -> Seq(S)] :
          /\ FlattenSeq(ss) = F[Len(ss)] /\ F[1] = ss[1]
          /\ \A i \in 2 .. Len(ss) : F[i] = F[i - 1] \o ss[i]
    BY <1>3, <1>5, FlattenForm
  <2>2. Len(ss) # 0
    BY <1>3, <1>5
  <2> DEFINE Bad == {i \in 1 .. Len(ss) : ~ Nested(F[i])}
  <2>3. Bad = {}
    <3> SUFFICES ASSUME Bad # {} PROVE FALSE
      OBVIOUS
    <3>1. PICK i \in Bad : \A j \in Bad : i =< j
      <4>1. Bad \in SUBSET Nat
        BY <1>1
      <4> HIDE DEF Bad
      <4> QED
        BY <4>1, LeastExists
    <3>2. i \in 1 .. Len(ss) /\ ~ Nested(F[i])
      BY <3>1
    <3>3. i # 1
      <4>1. 1 \in DOMAIN ss
        BY <1>1, <2>2
      <4> QED
        BY <2>1, <3>2, <4>1
    <3>4. i \in 2 .. Len(ss) /\ i - 1 \in 1 .. Len(ss) /\ i - 1 \notin Bad
      BY <1>1, <3>1, <3>2, <3>3
    <3>5. Nested(F[i - 1]) /\ Nested(ss[i])
      BY <1>1, <3>2, <3>4
    <3>6. IsJoin(F[i], F[i - 1], ss[i])
      BY <2>1, <3>4 DEF IsJoin
    <3>7. Nested(F[i])
      BY <3>5, <3>6, JoinBalanced DEF Nested
    <3> QED
      BY <3>2, <3>7
  <2>4. Len(ss) \in 1 .. Len(ss)
    BY <1>1, <2>2
  <2> QED
    BY <2>1, <2>3, <2>4
<1> QED
  BY <1>4, <1>5

-----------------------------------------------------------------------------
(* What a pass keeps of the commands it works on                            *)

\* A command the target admits, on qubits.
Settled(t, c) == StaysAsIs(t, c) /\ c.qubits \in Seq(Nat)

AllSettled(t, s) == \A x \in Range(s) : Settled(t, x)

\* A stream on target t, nested when the stream p it comes from is.
SoundStream(t, p, s) ==
  ShapedStream(s) /\ AllSettled(t, s) /\ (~ Misnested(p) => Nested(s))

\* A region of such a stream.
SoundRegion(t, p, s) ==
  ShapedStream(s) /\ AllSettled(t, s) /\ (~ Misnested(p) => Region(s))

SoundGraph(t, p, g) ==
  \A i \in g.live :
    /\ Settled(t, g.cmd[i])
    /\ IsRegionNode(g, i) => SoundRegion(t, p, g.span[i])
    /\ ~ IsRegionNode(g, i) /\ ~ Misnested(p) => g.cmd[i].gate \notin Markers

LEMMA PartRange ==
  ASSUME NEW s, Listed(s), NEW m \in Nat \ {0}, NEW n \in Int, n =< Len(s)
  PROVE  Range(SubSeq(s, m, n)) \subseteq Range(s)
<1>1. PICK S : s \in Seq(S)
  BY DEF Listed
<1>2. Len(s) \in Nat /\ DOMAIN s = 1 .. Len(s)
  BY <1>1
<1> DEFINE t == SubSeq(s, m, n)
<1>3. CASE m =< n
  <2>1. Len(t) = n - m + 1 /\ DOMAIN t = 1 .. n - m + 1
    BY <1>1, <1>2, <1>3
  <2>2. \A k \in 1 .. n - m + 1 : t[k] = s[m + k - 1] /\ m + k - 1 \in DOMAIN s
    BY <1>1, <1>2, <1>3
  <2> HIDE DEF t
  <2>3. Range(t) \subseteq Range(s)
    BY <2>1, <2>2 DEF Range
  <2> QED
    BY <2>3 DEF t
<1>4. CASE ~ (m =< n)
  <2>1. t = <<>>
    BY <1>1, <1>2, <1>4
  <2>2. DOMAIN <<>> = {}
    OBVIOUS
  <2> HIDE DEF t
  <2>3. Range(t) \subseteq Range(s)
    BY <2>1, <2>2 DEF Range
  <2> QED
    BY <2>3 DEF t
<1> QED
  BY <1>3, <1>4

LEMMA OneRange ==
  ASSUME NEW a
  PROVE  Listed(<<a>>) /\ Range(<<a>>) = {a}
<1> DEFINE s == <<a>>
<1>1. Listed(s) /\ DOMAIN s = {1} /\ s[1] = a
  BY OneListed
<1> HIDE DEF s
<1>2. Range(s) = {a}
  BY <1>1 DEF Range
<1> QED
  BY <1>1, <1>2 DEF s

\* The bodies of a region hold nothing else than the region does.
LEMMA BodiesRange ==
  ASSUME NEW s, Listed(s)
  PROVE  \A k \in DOMAIN Bodies(s) : Range(Bodies(s)[k]) \subseteq Range(s)
<1>1. Len(s) \in Nat
  BY ListedLen
<1>2. CASE ElseAt(s) = {}
  <2> DEFINE b == SubSeq(s, 2, Len(s) - 1)
  <2>1. Range(b) \subseteq Range(s)
    BY <1>1, PartRange
  <2>2. Bodies(s) = <<b>>
    BY <1>2 DEF Bodies
  <2> HIDE DEF b
  <2>3. DOMAIN <<b>> = {1} /\ <<b>>[1] = b
    BY OneListed
  <2> QED
    BY <2>1, <2>2, <2>3
<1>3. CASE ElseAt(s) # {}
  <2> DEFINE e == CHOOSE i \in ElseAt(s) : \A j \in ElseAt(s) : i =< j
             b == SubSeq(s, 2, e - 1)
             c == SubSeq(s, e + 1, Len(s) - 1)
  <2>1. IsElse(s, e)
    BY <1>3, ElseFound
  <2>2. Bodies(s) = <<b, c>>
    BY <1>3 DEF Bodies
  <2> HIDE DEF e
  <2>3. e \in 2 .. Len(s) - 1
    BY <2>1 DEF IsElse, ElseAt
  <2>4. Range(b) \subseteq Range(s)
    <3>1. 2 \in Nat \ {0} /\ e - 1 \in Int /\ e - 1 =< Len(s)
      BY <1>1, <2>3
    <3> QED
      BY <3>1, PartRange
  <2>5. Range(c) \subseteq Range(s)
    <3>1. e + 1 \in Nat \ {0} /\ Len(s) - 1 \in Int /\ Len(s) - 1 =< Len(s)
      BY <1>1, <2>3
    <3> QED
      BY <3>1, PartRange
  <2> HIDE DEF b, c
  <2>6. DOMAIN <<b, c>> = {1, 2}
    OBVIOUS
  <2> QED
    BY <2>2, <2>4, <2>5, <2>6
<1> QED
  BY <1>2, <1>3

LEMMA RebuiltRange ==
  ASSUME NEW s, ShapedStream(s), s # <<>>, NEW bodies, Listed(bodies),
         \A k \in DOMAIN bodies : Listed(bodies[k]), Len(bodies) = Len(Bodies(s)),
         NEW x \in Range(Rebuilt(s, bodies))
  PROVE  x \in Range(s) \/ \E k \in DOMAIN bodies : x \in Range(bodies[k])
<1>1. /\ Listed(s) /\ Len(s) \in Nat /\ DOMAIN s = 1 .. Len(s)
      /\ 1 \in DOMAIN s /\ Len(s) \in DOMAIN s /\ DOMAIN bodies = 1 .. Len(bodies)
  BY ListedLen DEF ShapedStream, Listed
<1>2. s[1] \in Range(s) /\ s[Len(s)] \in Range(s)
  BY <1>1 DEF Range
<1> DEFINE u == <<s[1]>>
           w == <<s[Len(s)]>>
<1>3. Listed(u) /\ Range(u) = {s[1]} /\ Listed(w) /\ Range(w) = {s[Len(s)]}
  BY OneRange
<1>4. CASE ElseAt(s) = {}
  <2>1. Len(bodies) = 1 /\ 1 \in DOMAIN bodies
    <3>1. Len(bodies) = 1
      BY <1>4, BodiesShaped
    <3> QED
      BY <1>1, <3>1
  <2> DEFINE b == bodies[1]
  <2>2. Rebuilt(s, bodies) = (u \o b) \o w
    BY <2>1 DEF Rebuilt
  <2>3. Listed(b)
    BY <2>1
  <2> HIDE DEF u, w
  <2>4. Listed(u \o b) /\ Range(u \o b) = Range(u) \cup Range(b)
    BY <1>3, <2>3, JoinRange
  <2>5. Range((u \o b) \o w) = Range(u \o b) \cup Range(w)
    BY <1>3, <2>4, JoinRange
  <2>6. x \in Range(u) \cup Range(b) \cup Range(w)
    BY <2>2, <2>4, <2>5
  <2> QED
    BY <1>2, <1>3, <2>1, <2>6
<1>5. CASE ElseAt(s) # {}
  <2> DEFINE e == CHOOSE i \in ElseAt(s) : \A j \in ElseAt(s) : i =< j
             v == <<s[e]>>
             b == bodies[1]
             c == bodies[2]
  <2>1. IsElse(s, e)
    BY <1>5, ElseFound
  <2>2. Len(bodies) = 2 /\ 1 \in DOMAIN bodies /\ 2 \in DOMAIN bodies
    <3>1. Len(bodies) = 2
      BY <1>5, BodiesShaped
    <3> QED
      BY <1>1, <3>1
  <2>3. Rebuilt(s, bodies) = u \o b \o v \o c \o w
    BY <2>2 DEF Rebuilt
  <2> HIDE DEF e
  <2>4. s[e] \in Range(s)
    <3>1. e \in 2 .. Len(s) - 1
      BY <2>1 DEF IsElse, ElseAt
    <3>2. e \in DOMAIN s
      BY <1>1, <3>1
    <3> QED
      BY <3>2 DEF Range
  <2>5. Listed(v) /\ Range(v) = {s[e]}
    BY OneRange
  <2>6. Listed(b) /\ Listed(c)
    BY <2>2
  <2> HIDE DEF u, v, w
  <2> DEFINE p == u \o b
             q == p \o v
             r == q \o c
             z == r \o w
  <2>7. Listed(p) /\ Range(p) = Range(u) \cup Range(b)
    BY <1>3, <2>6, JoinRange
  <2> HIDE DEF p
  <2>8. Listed(q) /\ Range(q) = Range(p) \cup Range(v)
    BY <2>5, <2>7, JoinRange
  <2> HIDE DEF q
  <2>9. Listed(r) /\ Range(r) = Range(q) \cup Range(c)
    BY <2>6, <2>8, JoinRange
  <2> HIDE DEF r
  <2>10. Range(z) = Range(r) \cup Range(w)
    BY <1>3, <2>9, JoinRange
  <2>11. Rebuilt(s, bodies) = z
    BY <2>3 DEF p, q, r
  <2> HIDE DEF z
  <2>12. x \in Range(u) \cup Range(b) \cup Range(v) \cup Range(c) \cup Range(w)
    BY <2>7, <2>8, <2>9, <2>10, <2>11
  <2> QED
    BY <1>2, <1>3, <2>2, <2>4, <2>5, <2>12
<1> QED
  BY <1>4, <1>5

LEMMA BodiesSound ==
  ASSUME NEW t, NEW p, NEW s, SoundRegion(t, p, s)
  PROVE  \A k \in DOMAIN Bodies(s) : SoundStream(t, p, Bodies(s)[k])
<1> SUFFICES ASSUME NEW k \in DOMAIN Bodies(s) PROVE SoundStream(t, p, Bodies(s)[k])
  OBVIOUS
<1>1. ShapedStream(s) /\ AllSettled(t, s) /\ Listed(s)
  BY DEF SoundRegion, ShapedStream
<1>2. ShapedStream(Bodies(s)[k])
  BY <1>1, BodiesShaped
<1>3. AllSettled(t, Bodies(s)[k])
  BY <1>1, BodiesRange DEF AllSettled
<1>4. ~ Misnested(p) => Nested(Bodies(s)[k])
  BY BodiesNested DEF SoundRegion
<1> QED
  BY <1>2, <1>3, <1>4 DEF SoundStream

LEMMA RebuiltSound ==
  ASSUME NEW t, NEW p, NEW s, SoundRegion(t, p, s), s # <<>>, NEW bodies, Listed(bodies),
         \A k \in DOMAIN bodies : SoundStream(t, p, bodies[k]), Len(bodies) = Len(Bodies(s))
  PROVE  SoundRegion(t, p, Rebuilt(s, bodies)) /\ Rebuilt(s, bodies) # <<>>
<1>1. ShapedStream(s) /\ AllSettled(t, s)
  BY DEF SoundRegion
<1>2. \A k \in DOMAIN bodies : ShapedStream(bodies[k]) /\ Listed(bodies[k]) /\ AllSettled(t, bodies[k])
  BY DEF SoundStream, ShapedStream
<1>3. ShapedStream(Rebuilt(s, bodies)) /\ Rebuilt(s, bodies) # <<>>
  BY <1>1, <1>2, RebuiltShaped
<1>4. AllSettled(t, Rebuilt(s, bodies))
  <2> SUFFICES ASSUME NEW x \in Range(Rebuilt(s, bodies)) PROVE Settled(t, x)
    BY DEF AllSettled
  <2>1. x \in Range(s) \/ \E k \in DOMAIN bodies : x \in Range(bodies[k])
    BY <1>1, <1>2, RebuiltRange
  <2> QED
    BY <1>1, <1>2, <2>1 DEF AllSettled
<1>5. ASSUME ~ Misnested(p) PROVE Region(Rebuilt(s, bodies))
  <2>1. Region(s)
    BY <1>5 DEF SoundRegion
  <2>2. \A k \in DOMAIN bodies : Nested(bodies[k])
    BY <1>5 DEF SoundStream
  <2> QED
    BY <1>1, <2>1, <2>2, RebuiltRegion
<1> QED
  BY <1>3, <1>4, <1>5 DEF SoundRegion

\* A part that opens a branch and ends where it closes.
Opens(s, t, i, o, n) ==
  /\ i \in 1 .. Len(s) /\ s[i].gate = "BranchBegin" /\ o \in Nat /\ o + 1 = i /\ Depth(s, o) = 0
  /\ n \in Nat /\ i =< n /\ n =< Len(s) /\ Depth(s, n) = 0
  /\ \A k \in i .. n - 1 : Depth(s, k) > 0
  /\ IsPart(t, s, o) /\ Len(t) = n - o

LEMMA OuterRegion ==
  ASSUME NEW s, NEW t, NEW i, NEW o, NEW n, Nested(s), Opens(s, t, i, o, n)
  PROVE  Region(t)
<1>0. /\ i \in 1 .. Len(s) /\ s[i].gate = "BranchBegin" /\ o \in Nat /\ o + 1 = i /\ Depth(s, o) = 0
      /\ n \in Nat /\ i =< n /\ n =< Len(s) /\ Depth(s, n) = 0
      /\ \A k \in i .. n - 1 : Depth(s, k) > 0
      /\ IsPart(t, s, o) /\ Len(t) = n - o
  BY DEF Opens
<1>1. /\ Listed(s) /\ SingleElse(s) /\ Len(s) \in Nat /\ Listed(t) /\ DOMAIN t = 1 .. Len(t)
      /\ \A k \in 0 .. Len(s) : Depth(s, k) >= 0
  BY <1>0, ListedLen DEF Nested, Balanced, IsPart
<1>2. o + Len(t) = n /\ Len(t) \in Nat /\ 1 \in 1 .. Len(t) /\ Len(t) # 0
  <2>1. i \in Nat
    BY <1>0, <1>1
  <2> QED
    BY <1>0, <2>1
<1>3. Balanced(t)
  <2>1. \A k \in o .. o + Len(t) : Depth(s, k) >= Depth(s, o)
    <3>1. \A k \in o .. o + Len(t) : k \in 0 .. Len(s)
      BY <1>0, <1>1, <1>2
    <3> QED
      BY <1>0, <1>1, <3>1
  <2> QED
    BY <1>0, <1>1, <1>2, <2>1, PartBalanced
<1>4. t[1].gate = "BranchBegin"
  BY <1>0, <1>2 DEF IsPart
<1>5. ASSUME NEW k \in 1 .. Len(t) - 1 PROVE Depth(t, k) > 0
  <2>1. k \in 0 .. Len(t) /\ o + k \in i .. n - 1 /\ o + k \in Int
    BY <1>0, <1>2
  <2>2. Depth(t, k) = Depth(s, o + k) - Depth(s, o)
    BY <1>0, <2>1, DepthShift
  <2>3. Depth(s, o + k) > 0 /\ Depth(s, o + k) \in Int
    BY <1>0, <2>1, DepthType
  <2> QED
    BY <1>0, <2>2, <2>3
<1>6. t # <<>>
  BY <1>2
<1> QED
  BY <1>3, <1>4, <1>5, <1>6 DEF Region

\* The region that starts at a node of a nested stream.
LEMMA NodeRegion ==
  ASSUME NEW s, Nested(s), WellFormed(s), NEW i \in Nodes(s), IsRegion(s, i)
  PROVE  Region(SubSeq(s, i, NodeEnd(s, i)))
<1> DEFINE t == SubSeq(s, i, NodeEnd(s, i))
<1> DEFINE o == i - 1
           n == NodeEnd(s, i)
<1>1. Listed(s) /\ SingleElse(s) /\ Len(s) \in Nat /\ DOMAIN s = 1 .. Len(s)
  BY ListedLen DEF Nested, Balanced
<1>2. /\ i \in 1 .. Len(s) /\ n \in i .. Len(s) /\ Depth(s, n) = 0
      /\ \A k \in i .. n - 1 : Depth(s, k) > 0
  BY <1>1, NodeEndsIn
<1>3. Depth(s, o) = 0 /\ s[i].gate = "BranchBegin"
  BY DEF Nodes, IsRegion
<1>4. o \in Nat /\ n \in Nat /\ o =< n /\ n =< Len(s) /\ o + 1 = i
  BY <1>1, <1>2
<1>5. t = SubSeq(s, o + 1, n)
  BY <1>4
<1> HIDE DEF o, n, t
<1>6. IsPart(t, s, o) /\ Len(t) = n - o
  BY <1>1, <1>4, <1>5, PartOf
<1>7. o + Len(t) = n /\ Len(t) \in Nat
  BY <1>4, <1>6
<1>8. Opens(s, t, i, o, n)
  <2>1. i =< n
    BY <1>2
  <2> QED
    BY <1>1, <1>2, <1>3, <1>4, <1>6, <1>7, <2>1 DEF Opens
<1>9. Region(t)
  BY <1>8, OuterRegion
<1> QED
  BY <1>9 DEF t, n

LEMMA GraphOf ==
  ASSUME NEW s
  PROVE  /\ FromCommands(s).live = Nodes(s)
         /\ \A i \in Nodes(s) :
              /\ FromCommands(s).cmd[i] = s[i]
              /\ FromCommands(s).span[i] =
                   IF IsRegion(s, i) THEN SubSeq(s, i, NodeEnd(s, i)) ELSE <<>>
<1> DEFINE g == FromCommands(s)
           b == Bare(s)
           P == [i \in b.live |-> [w \in b.wires[i] |-> TailBefore(b, i, w)]]
           N == [i \in b.live |-> [w \in b.wires[i] |-> HeadAfter(b, i, w)]]
<1>1. /\ b.live = Nodes(s)
      /\ b.cmd = [i \in Nodes(s) |-> s[i]]
      /\ b.span = [i \in Nodes(s) |->
                     IF IsRegion(s, i) THEN SubSeq(s, i, NodeEnd(s, i)) ELSE <<>>]
  BY DEF Bare
<1>2. b = [live |-> b.live, wires |-> b.wires, cmd |-> b.cmd, span |-> b.span,
           prev |-> b.prev, next |-> b.next]
  BY DEF Bare
<1>3. g = [b EXCEPT !.prev = P, !.next = N]
  BY DEF FromCommands
<1> HIDE DEF P, N, g, b
<1>4. g.live = b.live /\ g.cmd = b.cmd /\ g.span = b.span
  BY <1>2, <1>3
<1> QED
  BY <1>1, <1>4 DEF g

LEMMA FromCommandsSound ==
  ASSUME NEW t, NEW p, NEW s, SoundStream(t, p, s), WellFormed(s)
  PROVE  SoundGraph(t, p, FromCommands(s))
<1> DEFINE g == FromCommands(s)
<1>1. /\ ShapedStream(s) /\ Listed(s) /\ AllSettled(t, s) /\ Len(s) \in Nat /\ DOMAIN s = 1 .. Len(s)
  BY ListedLen DEF SoundStream, ShapedStream
<1>2. g.live = Nodes(s)
  BY GraphOf
<1> SUFFICES ASSUME NEW i \in Nodes(s)
             PROVE  /\ Settled(t, g.cmd[i])
                    /\ IsRegionNode(g, i) => SoundRegion(t, p, g.span[i])
                    /\ ~ IsRegionNode(g, i) /\ ~ Misnested(p) => g.cmd[i].gate \notin Markers
  BY <1>2 DEF SoundGraph
<1>3. /\ g.cmd[i] = s[i]
      /\ g.span[i] = IF IsRegion(s, i) THEN SubSeq(s, i, NodeEnd(s, i)) ELSE <<>>
  BY GraphOf
<1> HIDE DEF g
<1>4. /\ i \in 1 .. Len(s) /\ NodeEnd(s, i) \in i .. Len(s)
      /\ ~ IsRegion(s, i) => s[i].gate \notin Markers
  BY <1>1, NodeEndsIn
<1>5. Settled(t, s[i])
  <2>1. s[i] \in Range(s)
    BY <1>1, <1>4 DEF Range
  <2> QED
    BY <1>1, <2>1 DEF AllSettled
<1>6. CASE IsRegion(s, i)
  <2> DEFINE b == SubSeq(s, i, NodeEnd(s, i))
  <2>1. i \in Nat \ {0} /\ NodeEnd(s, i) \in Int /\ NodeEnd(s, i) =< Len(s) /\ i =< NodeEnd(s, i)
    BY <1>1, <1>4
  <2>2. ShapedStream(b) /\ b # <<>> /\ Range(b) \subseteq Range(s)
    BY <1>1, <2>1, PartShaped, PartRange
  <2>3. ~ Misnested(p) => Region(b)
    BY <1>6, NodeRegion DEF SoundStream
  <2>4. AllSettled(t, b)
    BY <1>1, <2>2 DEF AllSettled
  <2>5. SoundRegion(t, p, b)
    BY <2>2, <2>3, <2>4 DEF SoundRegion
  <2>6. g.span[i] = b
    BY <1>3, <1>6
  <2> HIDE DEF b
  <2> QED
    BY <1>3, <1>5, <2>2, <2>5, <2>6 DEF IsRegionNode
<1>7. CASE ~ IsRegion(s, i)
  <2>1. g.span[i] = <<>>
    BY <1>3, <1>7
  <2> QED
    BY <1>3, <1>4, <1>5, <1>7, <2>1 DEF IsRegionNode
<1> QED
  BY <1>6, <1>7

LEMMA ToCommandsSound ==
  ASSUME NEW t, NEW p, NEW g, IsExact(g), ShapedGraph(g), SoundGraph(t, p, g)
  PROVE  SoundStream(t, p, ToCommands(g))
<1> DEFINE order == EmissionOrder(g)
           ss == [k \in DOMAIN order |-> Written(g, order[k])]
<1>1. Listed(order) /\ Range(order) = g.live
  BY AllEmitted DEF ShapedGraph
<1>2. ToCommands(g) = FlattenSeq(ss)
  BY DEF ToCommands
<1>3. ss = [k \in DOMAIN order |-> ss[k]] /\ \A k \in DOMAIN order : ss[k] = Written(g, order[k])
  OBVIOUS
<1>0. ShapedStream(ToCommands(g))
  BY ToCommandsShaped
<1> HIDE DEF ss, order
<1>4. Listed(ss) /\ DOMAIN ss = DOMAIN order
  BY <1>1, <1>3, MappedListed
<1>5. ASSUME NEW k \in DOMAIN ss
      PROVE  AllSettled(t, ss[k]) /\ Listed(ss[k]) /\ (~ Misnested(p) => Nested(ss[k]))
  <2> DEFINE i == order[k]
  <2>1. i \in g.live
    BY <1>1, <1>4 DEF Range
  <2>2. ss[k] = IF IsRegionNode(g, i) THEN g.span[i] ELSE <<g.cmd[i]>>
    BY <1>3, <1>4 DEF Written
  <2> HIDE DEF i
  <2>3. /\ Settled(t, g.cmd[i])
        /\ IsRegionNode(g, i) => SoundRegion(t, p, g.span[i])
        /\ ~ IsRegionNode(g, i) /\ ~ Misnested(p) => g.cmd[i].gate \notin Markers
    BY <2>1 DEF SoundGraph
  <2>4. CASE IsRegionNode(g, i)
    <3>1. ss[k] = g.span[i] /\ SoundRegion(t, p, g.span[i])
      BY <2>2, <2>3, <2>4
    <3> QED
      BY <3>1, RegionForm DEF SoundRegion, ShapedStream
  <2>5. CASE ~ IsRegionNode(g, i)
    <3> DEFINE c == g.cmd[i]
    <3>1. ss[k] = <<c>>
      BY <2>2, <2>5
    <3>2. Settled(t, c) /\ (~ Misnested(p) => c.gate \notin Markers)
      BY <2>3, <2>5
    <3> HIDE DEF c
    <3>3. Listed(<<c>>) /\ Range(<<c>>) = {c}
      BY OneRange
    <3>4. ~ Misnested(p) => Nested(<<c>>)
      BY <3>2, OneNested DEF Markers
    <3> QED
      BY <3>1, <3>2, <3>3, <3>4 DEF AllSettled
  <2> QED
    BY <2>4, <2>5
<1>6. \A k \in DOMAIN ss : Listed(ss[k])
  BY <1>5
<1>7. AllSettled(t, FlattenSeq(ss))
  <2> SUFFICES ASSUME NEW m \in DOMAIN FlattenSeq(ss) PROVE Settled(t, FlattenSeq(ss)[m])
    BY DEF AllSettled, Range
  <2>1. PICK i \in DOMAIN ss : \E j \in DOMAIN ss[i] : FlattenSeq(ss)[m] = ss[i][j]
    BY <1>4, <1>6, FlattenElements
  <2>2. FlattenSeq(ss)[m] \in Range(ss[i])
    BY <2>1 DEF Range
  <2> QED
    BY <1>5, <2>2 DEF AllSettled
<1>8. ~ Misnested(p) => Nested(FlattenSeq(ss))
  BY <1>4, <1>5, FlattenNested
<1> QED
  BY <1>0, <1>2, <1>7, <1>8 DEF SoundStream

LEMMA RemoveSound ==
  ASSUME NEW t, NEW p, NEW g, IsExact(g), ShapedGraph(g), SoundGraph(t, p, g),
         NEW id \in g.live, NEW h, h = RemoveNode(g, id)
  PROVE  IsExact(h) /\ ShapedGraph(h) /\ SoundGraph(t, p, h)
<1>1. /\ IsExact(h) /\ ShapedGraph(h)
      /\ h.live = g.live \ {id} /\ h.cmd = g.cmd /\ h.span = g.span
  BY RemoveKeepsShape
<1> HIDE DEF RemoveNode
<1> QED
  BY <1>1 DEF SoundGraph, IsRegionNode

LEMMA ReplaceSound ==
  ASSUME NEW t, NEW p, NEW g, IsExact(g), ShapedGraph(g), SoundGraph(t, p, g),
         NEW id \in g.live, NEW c, Shaped(c),
         c.gate = g.cmd[id].gate, c.qubits = g.cmd[id].qubits,
         c.cbits = g.cmd[id].cbits, c.cond = g.cmd[id].cond,
         NEW h, h = ReplaceCommand(g, id, c)
  PROVE  IsExact(h) /\ ShapedGraph(h) /\ SoundGraph(t, p, h)
<1>1. /\ IsExact(h) /\ ShapedGraph(h)
      /\ h.live = g.live /\ h.span = g.span
      /\ h.cmd[id] = c /\ \A i \in g.live : i # id => h.cmd[i] = g.cmd[i]
  BY ReplaceKeepsShape
<1>2. ASSUME NEW i \in g.live
      PROVE  /\ Settled(t, h.cmd[i]) /\ h.cmd[i].gate = g.cmd[i].gate
             /\ (IsRegionNode(h, i) <=> IsRegionNode(g, i))
  <2>1. h.cmd[i].gate = g.cmd[i].gate /\ h.cmd[i].qubits = g.cmd[i].qubits
    BY <1>1
  <2>2. Settled(t, g.cmd[i])
    BY DEF SoundGraph
  <2> QED
    BY <1>1, <2>1, <2>2 DEF Settled, StaysAsIs, IsRegionNode
<1>3. SoundGraph(t, p, h)
  BY <1>1, <1>2 DEF SoundGraph
<1> QED
  BY <1>1, <1>3

LEMMA ReplaceSpanSound ==
  ASSUME NEW t, NEW p, NEW g, IsExact(g), ShapedGraph(g), SoundGraph(t, p, g),
         NEW id \in g.live, IsRegionNode(g, id),
         NEW s, SoundRegion(t, p, s), s # <<>>, NEW h, h = ReplaceSpan(g, id, s)
  PROVE  IsExact(h) /\ ShapedGraph(h) /\ SoundGraph(t, p, h)
<1>1. IsExact(h) /\ ShapedGraph(h)
  BY ReplaceSpanKeepsShape DEF SoundRegion
<1>2. h.live = g.live /\ h.cmd = g.cmd /\ h.span = [g.span EXCEPT ![id] = s]
  <2>1. g = [live |-> g.live, wires |-> g.wires, cmd |-> g.cmd, span |-> g.span,
             prev |-> g.prev, next |-> g.next]
    BY DEF IsExact, IsGraph
  <2>2. h = [g EXCEPT !.span = [g.span EXCEPT ![id] = s]]
    BY <2>1 DEF ReplaceSpan
  <2> DEFINE n == [g.span EXCEPT ![id] = s]
  <2> HIDE DEF n
  <2>3. h = [g EXCEPT !.span = n]
    BY <2>2 DEF n
  <2>4. h.live = g.live /\ h.cmd = g.cmd /\ h.span = n
    BY <2>1, <2>3
  <2> QED
    BY <2>4 DEF n
<1>3. g.live \subseteq DOMAIN g.span
  BY DEF ShapedGraph
<1>4. ASSUME NEW i \in g.live
      PROVE  /\ IsRegionNode(h, i) => SoundRegion(t, p, h.span[i])
             /\ IsRegionNode(h, i) <=> IsRegionNode(g, i)
  <2>1. CASE i = id
    <3>1. h.span[i] = s
      BY <1>2, <1>3, <2>1
    <3> QED
      BY <2>1, <3>1 DEF IsRegionNode
  <2>2. CASE i # id
    <3>1. h.span[i] = g.span[i]
      BY <1>2, <1>3, <2>2
    <3>2. IsRegionNode(g, i) => SoundRegion(t, p, g.span[i])
      BY DEF SoundGraph
    <3> QED
      BY <3>1, <3>2 DEF IsRegionNode
  <2> QED
    BY <2>1, <2>2
<1>5. SoundGraph(t, p, h)
  BY <1>2, <1>4 DEF SoundGraph
<1> QED
  BY <1>1, <1>5

-----------------------------------------------------------------------------
(* The calls of both passes                                                 *)

SoundBodies(t, p, b) == Listed(b) /\ \A k \in DOMAIN b : SoundStream(t, p, b[k])

\* A call on target t, in a pass over stream p.
Held(t, p, f) ==
  /\ IsFrame(f) /\ ShapedGraph(f.graph) /\ SoundGraph(t, p, f.graph)
  /\ SoundBodies(t, p, f.bodies)
  /\ f.region = 0 => f.bodies = <<>>
  /\ f.region # 0 => Waits(f)

AllHeld(t, p, fs) == Listed(fs) /\ \A k \in DOMAIN fs : Held(t, p, fs[k]) /\ fs[k].region # 0

SoundStack(t, p, fs) ==
  /\ Listed(fs) /\ fs # <<>>
  /\ \A k \in DOMAIN fs : Held(t, p, fs[k]) /\ (fs[k].region = 0 <=> k = 1)

LEMMA NoBodies ==
  ASSUME NEW t, NEW p
  PROVE  SoundBodies(t, p, <<>>) /\ Len(<<>>) = 0 /\ AllHeld(t, p, <<>>)
<1> DEFINE n == <<>>
<1>1. n \in Seq({}) /\ DOMAIN n = {} /\ Len(n) = 0
  OBVIOUS
<1> HIDE DEF n
<1>2. SoundBodies(t, p, n) /\ AllHeld(t, p, n)
  BY <1>1 DEF SoundBodies, AllHeld, Listed
<1> QED
  BY <1>1, <1>2 DEF n

LEMMA FrameHeld ==
  ASSUME NEW t, NEW p, NEW g, IsExact(g), ShapedGraph(g), SoundGraph(t, p, g)
  PROVE  Held(t, p, Frame(g)) /\ Frame(g).region = 0
<1> DEFINE f == Frame(g)
           work == InOrder(g.live)
           none == <<>>
<1>1. f = FrameOf(g, work, 0, none)
  BY DEF Frame, FrameOf, InOrderNodes
<1>2. SoundBodies(t, p, none)
  BY NoBodies
<1> HIDE DEF f, work, none
<1>3. f.graph = g /\ f.region = 0 /\ f.bodies = none /\ IsFrame(f)
  BY <1>1, FrameFields DEF IsFrame
<1> QED
  BY <1>2, <1>3 DEF Held, f, none

LEMMA StackedSound ==
  ASSUME NEW t, NEW p, NEW f, Held(t, p, f), f.region = 0, NEW rest, AllHeld(t, p, rest),
         NEW fs, fs = <<f>> \o rest
  PROVE  SoundStack(t, p, fs)
<1>1. PICK S : rest \in Seq(S)
  BY DEF AllHeld, Listed
<1>2. rest \in Seq(S \cup {f}) /\ <<f>> \in Seq(S \cup {f})
  BY <1>1
<1>3. /\ fs \in Seq(S \cup {f}) /\ Len(fs) = Len(rest) + 1 /\ Len(rest) \in Nat
      /\ DOMAIN fs = 1 .. Len(rest) + 1 /\ DOMAIN rest = 1 .. Len(rest)
      /\ fs[1] = f /\ \A k \in 2 .. Len(rest) + 1 : fs[k] = rest[k - 1]
  BY <1>2
<1>4. fs # <<>>
  BY <1>3
<1>5. ASSUME NEW k \in DOMAIN fs PROVE Held(t, p, fs[k]) /\ (fs[k].region = 0 <=> k = 1)
  <2>1. CASE k = 1
    BY <1>3, <2>1
  <2>2. CASE k # 1
    <3>1. k \in 2 .. Len(rest) + 1 /\ k - 1 \in DOMAIN rest
      BY <1>3, <2>2
    <3>2. fs[k] = rest[k - 1]
      BY <1>3, <3>1
    <3> QED
      BY <2>2, <3>1, <3>2 DEF AllHeld
  <2> QED
    BY <2>1, <2>2
<1> QED
  BY <1>3, <1>4, <1>5 DEF SoundStack, Listed

LEMMA OneMoreHeld ==
  ASSUME NEW t, NEW p, NEW f, Held(t, p, f), f.region # 0, NEW rest, AllHeld(t, p, rest)
  PROVE  AllHeld(t, p, <<f>> \o rest)
<1> DEFINE one == <<f>>
           fs == one \o rest
<1>1. Listed(one) /\ Range(one) = {f} /\ Listed(rest)
  BY OneRange DEF AllHeld
<1> HIDE DEF one
<1>2. Listed(fs) /\ Range(fs) = Range(one) \cup Range(rest)
  BY <1>1, JoinRange
<1>3. \A x \in Range(one) \cup Range(rest) : Held(t, p, x) /\ x.region # 0
  BY <1>1 DEF Range, AllHeld
<1> HIDE DEF fs
<1>4. AllHeld(t, p, fs)
  BY <1>2, <1>3 DEF Range, AllHeld
<1> QED
  BY <1>4 DEF fs, one

LEMMA BelowSound ==
  ASSUME NEW t, NEW p, SoundStack(t, p, frames)
  PROVE  /\ Held(t, p, top) /\ top.region = 0 /\ AllHeld(t, p, Tail(frames))
         /\ IsExact(top.graph) /\ ShapedGraph(top.graph) /\ SoundGraph(t, p, top.graph)
<1>1. PICK S : frames \in Seq(S) /\ frames # <<>>
  BY DEF SoundStack, Listed
<1> DEFINE r == Tail(frames)
<1>2. /\ 1 \in DOMAIN frames /\ top = frames[1]
      /\ r \in Seq(S) /\ DOMAIN r = 1 .. Len(frames) - 1 /\ Len(frames) \in Nat
      /\ DOMAIN frames = 1 .. Len(frames)
      /\ \A k \in 1 .. Len(frames) - 1 : r[k] = frames[k + 1]
  BY <1>1 DEF top
<1> HIDE DEF r
<1>3. Held(t, p, top) /\ top.region = 0
  BY <1>2 DEF SoundStack
<1>4. ASSUME NEW k \in DOMAIN r PROVE Held(t, p, r[k]) /\ r[k].region # 0
  <2>1. k + 1 \in DOMAIN frames /\ k + 1 # 1 /\ r[k] = frames[k + 1]
    BY <1>2
  <2> QED
    BY <2>1 DEF SoundStack
<1>5. AllHeld(t, p, r)
  BY <1>2, <1>4 DEF AllHeld, Listed
<1> QED
  BY <1>3, <1>5 DEF r, Held, IsFrame

LEMMA FurtherBelowSound ==
  ASSUME NEW t, NEW p, SoundStack(t, p, frames), Len(frames) > 1
  PROVE  /\ Held(t, p, frames[2]) /\ frames[2].region # 0
         /\ AllHeld(t, p, SubSeq(frames, 3, Len(frames)))
<1>1. PICK S : frames \in Seq(S)
  BY DEF SoundStack, Listed
<1> DEFINE r == SubSeq(frames, 3, Len(frames))
<1>2. Len(frames) \in Nat /\ DOMAIN frames = 1 .. Len(frames)
  BY <1>1
<1>3. /\ r \in Seq(S) /\ DOMAIN r = 1 .. Len(r) /\ Len(r) \in Nat
      /\ Len(r) = Len(frames) - 2
      /\ \A k \in 1 .. Len(r) : r[k] = frames[k + 2]
  <2>1. \A i \in 3 .. Len(frames) : frames[i] \in S
    BY <1>1
  <2> QED
    BY <1>1, <1>2, <2>1
<1> HIDE DEF r
<1>4. ASSUME NEW k \in DOMAIN r PROVE Held(t, p, r[k]) /\ r[k].region # 0
  <2>1. k + 2 \in DOMAIN frames /\ k + 2 # 1 /\ r[k] = frames[k + 2]
    BY <1>2, <1>3
  <2> QED
    BY <2>1 DEF SoundStack
<1>5. AllHeld(t, p, r)
  BY <1>3, <1>4 DEF AllHeld, Listed
<1>6. 2 \in DOMAIN frames
  BY <1>2
<1> QED
  BY <1>5, <1>6 DEF SoundStack, r

LEMMA ContinueSound ==
  ASSUME NEW t, NEW p, SoundStack(t, p, frames), NEW g, IsExact(g), ShapedGraph(g), SoundGraph(t, p, g),
         NEW ids, Continue(g, ids)
  PROVE  SoundStack(t, p, frames')
<1> DEFINE work == Enqueue(g, Tail(top.work), ids)
           r == top.region
           b == top.bodies
           A == [top EXCEPT !.graph = g, !.work = work]
           f == FrameOf(g, work, r, b)
<1>1. Held(t, p, top) /\ r = 0 /\ AllHeld(t, p, Tail(frames))
  BY BelowSound
<1>2. frames' = <<A>> \o Tail(frames)
  BY Zenon DEF Continue
<1>3. A = f
  <2> HIDE DEF work
  <2> QED
    BY <1>1, FrameForms DEF Held
<1>4. SoundBodies(t, p, b) /\ b = <<>>
  BY <1>1 DEF Held
<1> HIDE DEF work, r, b, f, A
<1>5. /\ f.graph = g /\ f.work = work /\ f.region = r /\ f.bodies = b
      /\ f = [graph |-> f.graph, work |-> f.work, region |-> f.region, bodies |-> f.bodies]
  BY FrameFields DEF f
<1>6. IsFrame(f)
  BY <1>5 DEF IsFrame
<1>7. Held(t, p, f) /\ f.region = 0
  BY <1>1, <1>4, <1>5, <1>6 DEF Held
<1> QED
  BY <1>1, <1>2, <1>3, <1>7, StackedSound

\* A call of the pass on a stream: from_commands throws only where the
\* stream of the whole run was not nested.
LEMMA OptimiseSound ==
  ASSUME NEW t, NEW p, NEW callers, AllHeld(t, p, callers), NEW s, SoundStream(t, p, s),
         Optimise(s, callers)
  PROVE  \/ phase' = "passes" /\ SoundStack(t, p, frames')
         \/ phase' = "refused" /\ Misnested(p)
<1> DEFINE g == FromCommands(s)
           F == Frame(g)
<1>1. CASE WellFormed(s)
  <2>1. frames' = <<F>> \o callers /\ phase' = "passes"
    BY <1>1 DEF Optimise
  <2>2. IsExact(g) /\ ShapedGraph(g) /\ SoundGraph(t, p, g)
    BY <1>1, FromCommandsExact, FromCommandsShaped, FromCommandsSound DEF SoundStream
  <2>3. Held(t, p, F) /\ F.region = 0
    BY <2>2, FrameHeld
  <2> HIDE DEF F
  <2> QED
    BY <2>1, <2>3, StackedSound
<1>2. CASE ~ WellFormed(s)
  <2>1. Misnested(s) /\ Listed(s)
    BY <1>2 DEF Misnested, SoundStream, ShapedStream
  <2>2. ~ Nested(s)
    BY <2>1, NestedIs
  <2> QED
    BY <1>2, <2>2 DEF Optimise, SoundStream
<1> QED
  BY <1>1, <1>2

LEMMA RemoveBothSound ==
  ASSUME NEW t, NEW p, SoundStack(t, p, frames), NEW id, NEW b, RemoveBoth(top.graph, id, b)
  PROVE  SoundStack(t, p, frames')
<1> DEFINE g == top.graph
           k == RemoveNode(g, b)
           h == RemoveNode(k, id)
           ids == Neighbours(g, id) \o Neighbours(g, b)
<1>1. b \in g.live /\ id \in k.live /\ Continue(h, ids)
  BY DEF RemoveBoth
<1>2. IsExact(g) /\ ShapedGraph(g) /\ SoundGraph(t, p, g)
  BY BelowSound
<1>3. IsExact(k) /\ ShapedGraph(k) /\ SoundGraph(t, p, k)
  BY <1>1, <1>2, RemoveSound
<1> HIDE DEF k
<1>4. IsExact(h) /\ ShapedGraph(h) /\ SoundGraph(t, p, h)
  BY <1>1, <1>3, RemoveSound
<1> HIDE DEF h, ids
<1> QED
  BY <1>1, <1>4, ContinueSound

\* The combined rotation has the gate and the operands of the one it replaces.
LEMMA MergedOnto ==
  ASSUME NEW c, Shaped(c), NEW a, NEW e
  PROVE  /\ Shaped(Merged(a, e, c))
         /\ Merged(a, e, c).gate = c.gate /\ Merged(a, e, c).qubits = c.qubits
         /\ Merged(a, e, c).cbits = c.cbits /\ Merged(a, e, c).cond = c.cond
<1> DEFINE p == <<SumParam(a.params[1], e.params[1])>>
           o == a.origin \cup e.origin
           d == Merged(a, e, c)
<1>1. d = [c EXCEPT !.params = p, !.origin = o]
  BY DEF Merged
<1> HIDE DEF p, o, d
<1>2. d = CommandOf(c.gate, c.qubits, p, c.cbits, c.cond, c.factors, o)
  BY <1>1, MergeForm
<1>3. Shaped(d) /\ d.gate = c.gate /\ d.qubits = c.qubits /\ d.cbits = c.cbits /\ d.cond = c.cond
  BY <1>2, OfShaped, Fields DEF Shaped, HasOperands
<1> QED
  BY <1>3 DEF d

LEMMA MergeIntoSound ==
  ASSUME NEW t, NEW p, SoundStack(t, p, frames), NEW keep, NEW gone, NEW a, NEW e, NEW ids,
         MergeInto(top.graph, keep, gone, Merged(a, e, top.graph.cmd[keep]), ids)
  PROVE  SoundStack(t, p, frames')
<1> DEFINE g == top.graph
           k == RemoveNode(g, gone)
           m == Merged(a, e, g.cmd[keep])
           h == ReplaceCommand(k, keep, m)
           all == <<keep>> \o ids
<1>1. gone \in g.live /\ keep \in k.live /\ Continue(h, all)
  BY DEF MergeInto
<1>2. IsExact(g) /\ ShapedGraph(g) /\ SoundGraph(t, p, g)
  BY BelowSound
<1>3. /\ IsExact(k) /\ ShapedGraph(k) /\ SoundGraph(t, p, k)
      /\ k.live = g.live \ {gone} /\ k.cmd = g.cmd
  BY <1>1, <1>2, RemoveSound, RemoveKeepsShape
<1>4. Shaped(g.cmd[keep])
  BY <1>1, <1>2, <1>3 DEF ShapedGraph
<1>5. /\ Shaped(m) /\ m.gate = k.cmd[keep].gate /\ m.qubits = k.cmd[keep].qubits
      /\ m.cbits = k.cmd[keep].cbits /\ m.cond = k.cmd[keep].cond
  BY <1>3, <1>4, MergedOnto
<1> HIDE DEF k, m
<1>6. IsExact(h) /\ ShapedGraph(h) /\ SoundGraph(t, p, h)
  BY <1>1, <1>3, <1>5, ReplaceSound
<1> HIDE DEF h, all
<1> QED
  BY <1>1, <1>6, ContinueSound

\* A step that neither enters nor leaves a region.
LEMMA RewriteSound ==
  ASSUME NEW t, NEW p, SoundStack(t, p, frames),
         SkipRemoved \/ DropZero \/ CombineAdjacent \/ KeepAdjacent \/ CombineAcross \/ KeepAcross
  PROVE  SoundStack(t, p, frames')
<1> DEFINE g == top.graph
           none == <<>>
           h == RemoveNode(g, Node)
           ids == Neighbours(g, Node)
<1>1. IsExact(g) /\ ShapedGraph(g) /\ SoundGraph(t, p, g)
  BY BelowSound
<1>2. CASE SkipRemoved \/ KeepAdjacent \/ KeepAcross
  <2>1. Continue(g, none)
    BY <1>2 DEF SkipRemoved, KeepAdjacent, KeepAcross
  <2> HIDE DEF none
  <2> QED
    BY <1>1, <2>1, ContinueSound
<1>3. CASE DropZero
  <2>1. Node \in g.live /\ Continue(h, ids)
    BY <1>3 DEF DropZero, Rewritable
  <2>2. IsExact(h) /\ ShapedGraph(h) /\ SoundGraph(t, p, h)
    BY <1>1, <2>1, RemoveSound
  <2> HIDE DEF h, ids
  <2> QED
    BY <2>1, <2>2, ContinueSound
<1>4. CASE CombineAdjacent
  <2> DEFINE b == Follower(g, Node)
             near == Neighbours(g, Node) \o Neighbours(g, b)
  <2>1. \/ RemoveBoth(g, Node, b)
        \/ MergeInto(g, Node, b, Merged(g.cmd[Node], g.cmd[b], g.cmd[Node]), near)
    BY <1>4 DEF CombineAdjacent
  <2> HIDE DEF b, near
  <2> QED
    BY <2>1, RemoveBothSound, MergeIntoSound
<1>5. CASE CombineAcross
  <2>1. PICK b \in Partners(g, Node) :
          \/ RemoveBoth(g, Node, b)
          \/ MergeInto(g, b, Node, Merged(g.cmd[Node], g.cmd[b], g.cmd[b]),
                       Neighbours(g, Node) \o Neighbours(g, b))
    BY <1>5 DEF CombineAcross
  <2> DEFINE near == Neighbours(g, Node) \o Neighbours(g, b)
  <2>2. \/ RemoveBoth(g, Node, b)
        \/ MergeInto(g, b, Node, Merged(g.cmd[Node], g.cmd[b], g.cmd[b]), near)
    BY <2>1
  <2> HIDE DEF near
  <2> QED
    BY <2>2, RemoveBothSound, MergeIntoSound
<1> QED
  BY <1>2, <1>3, <1>4, <1>5

LEMMA EnterSound ==
  ASSUME NEW t, NEW p, SoundStack(t, p, frames), EnterRegion
  PROVE  \/ phase' = "passes" /\ SoundStack(t, p, frames')
         \/ phase' = "refused" /\ Misnested(p)
<1> DEFINE g == top.graph
           span == g.span[Node]
           work == Tail(top.work)
           none == <<>>
           n == Node
           A == [top EXCEPT !.work = work, !.region = n]
           f == FrameOf(g, work, n, none)
           callers == <<A>> \o Tail(frames)
<1>1. /\ n \in g.live /\ IsRegionNode(g, n)
      /\ Optimise(Bodies(span)[1], callers)
  BY DEF EnterRegion
<1>2. /\ Held(t, p, top) /\ top.region = 0 /\ AllHeld(t, p, Tail(frames))
      /\ IsExact(g) /\ ShapedGraph(g) /\ SoundGraph(t, p, g)
  BY BelowSound
<1>3. IsFrame(top) /\ top.bodies = none
  BY <1>2 DEF Held
<1>4. A = f
  <2> HIDE DEF work, n, none
  <2> QED
    BY <1>3, FrameForms
<1>5. SoundRegion(t, p, span) /\ n # 0
  BY <1>1, <1>2 DEF SoundGraph, IsExact, IsGraph
<1>6. /\ 1 \in DOMAIN Bodies(span) /\ 0 < Len(Bodies(span))
  BY <1>5, BodiesShaped DEF SoundRegion
<1>7. SoundStream(t, p, Bodies(span)[1])
  BY <1>5, <1>6, BodiesSound
<1>8. SoundBodies(t, p, none) /\ Len(none) = 0
  BY NoBodies
<1> HIDE DEF work, A, none, n, f
<1>9. /\ f.graph = g /\ f.work = work /\ f.region = n /\ f.bodies = none
      /\ f = [graph |-> f.graph, work |-> f.work, region |-> f.region, bodies |-> f.bodies]
  BY FrameFields DEF f
<1>10. Waits(f)
  <2>1. span = g.span[n]
    BY DEF n
  <2> QED
    BY <1>1, <1>6, <1>8, <1>9, <2>1 DEF Waits
<1>11. Held(t, p, f) /\ f.region # 0
  BY <1>2, <1>5, <1>8, <1>9, <1>10 DEF Held, IsFrame
<1>12. AllHeld(t, p, callers)
  BY <1>2, <1>4, <1>11, OneMoreHeld
<1> HIDE DEF callers, span
<1> QED
  BY <1>1, <1>7, <1>12, OptimiseSound

LEMMA LeaveSound ==
  ASSUME NEW t, NEW p, SoundStack(t, p, frames), phase = "passes", LeaveBody
  PROVE  \/ phase' = "passes" /\ SoundStack(t, p, frames')
         \/ phase' = "refused" /\ Misnested(p)
<1> DEFINE c == frames[2]
           g == c.graph
           r == c.region
           span == g.span[r]
           e == ToCommands(top.graph)
           d == Append(c.bodies, e)
           rest == SubSeq(frames, 3, Len(frames))
<1>1. Len(frames) > 1
  BY DEF LeaveBody
<1>2. Held(t, p, c) /\ r # 0 /\ AllHeld(t, p, rest)
  BY <1>1, FurtherBelowSound
<1>3. IsExact(top.graph) /\ ShapedGraph(top.graph) /\ SoundGraph(t, p, top.graph)
  BY BelowSound
<1>4. /\ IsFrame(c) /\ IsExact(g) /\ ShapedGraph(g) /\ SoundGraph(t, p, g)
      /\ SoundBodies(t, p, c.bodies) /\ Waits(c)
  BY <1>2 DEF Held, IsFrame
<1>5. SoundStream(t, p, e)
  BY <1>3, ToCommandsSound
<1>6. /\ SoundRegion(t, p, span) /\ span # <<>> /\ r \in g.live /\ IsRegionNode(g, r)
      /\ Len(c.bodies) < Len(Bodies(span))
  BY <1>4 DEF Waits, SoundGraph, IsRegionNode
<1>7. /\ Listed(Bodies(span)) /\ Len(Bodies(span)) \in Nat /\ DOMAIN Bodies(span) = 1 .. Len(Bodies(span))
  BY <1>6, BodiesShaped DEF Listed, SoundRegion
<1>8. SoundBodies(t, p, d) /\ Len(d) = Len(c.bodies) + 1 /\ Len(c.bodies) \in Nat
  <2> DEFINE b == c.bodies
  <2>1. Listed(b) /\ \A k \in DOMAIN b : SoundStream(t, p, b[k])
    BY <1>4 DEF SoundBodies
  <2> HIDE DEF b, e
  <2>2. /\ Listed(Append(b, e)) /\ Len(Append(b, e)) = Len(b) + 1 /\ Len(b) \in Nat
        /\ \A k \in DOMAIN Append(b, e) :
             Append(b, e)[k] = e \/ (k \in DOMAIN b /\ Append(b, e)[k] = b[k])
    BY <2>1, OneMoreListed
  <2> DEFINE a == Append(b, e)
  <2>3. /\ Listed(a) /\ Len(a) = Len(b) + 1 /\ Len(b) \in Nat
        /\ \A k \in DOMAIN a : a[k] = e \/ (k \in DOMAIN b /\ a[k] = b[k])
    BY <2>2
  <2> HIDE DEF a
  <2>4. SoundBodies(t, p, a) /\ Len(a) = Len(b) + 1 /\ Len(b) \in Nat
    BY <1>5, <2>1, <2>3 DEF SoundBodies
  <2> QED
    BY <2>4 DEF a, b
<1> HIDE DEF d, e, rest
<1>9. CASE Len(d) < Len(Bodies(span))
  <2> DEFINE A == [c EXCEPT !.bodies = d]
             f == FrameOf(g, c.work, r, d)
             callers == <<A>> \o rest
             i == Len(d) + 1
  <2>1. Optimise(Bodies(span)[i], callers)
    BY <1>9 DEF LeaveBody, d, e, rest
  <2>2. A = f
    BY <1>4, FrameForms
  <2> HIDE DEF A, f
  <2>3. /\ f.graph = g /\ f.work = c.work /\ f.region = r /\ f.bodies = d
        /\ f = [graph |-> f.graph, work |-> f.work, region |-> f.region, bodies |-> f.bodies]
    BY FrameFields DEF f
  <2>4. Waits(f)
    BY <1>4, <1>9, <2>3 DEF Waits
  <2>5. Held(t, p, f) /\ f.region # 0
    BY <1>2, <1>4, <1>8, <2>3, <2>4 DEF Held, IsFrame
  <2>6. AllHeld(t, p, callers)
    BY <1>2, <2>2, <2>5, OneMoreHeld
  <2>7. i \in DOMAIN Bodies(span)
    BY <1>7, <1>8, <1>9
  <2>8. SoundStream(t, p, Bodies(span)[i])
    BY <1>6, <2>7, BodiesSound
  <2> HIDE DEF callers, span, i
  <2> QED
    BY <2>1, <2>6, <2>8, OptimiseSound
<1>10. CASE ~ (Len(d) < Len(Bodies(span)))
  <2> DEFINE s == Rebuilt(span, d)
             h == ReplaceSpan(g, r, s)
             none == <<>>
             A == [c EXCEPT !.graph = h, !.region = 0, !.bodies = none]
             f == FrameOf(h, c.work, 0, none)
  <2>1. frames' = <<A>> \o rest /\ phase' = phase
    BY <1>10 DEF LeaveBody, d, e, rest
  <2>2. Len(d) = Len(Bodies(span))
    BY <1>6, <1>7, <1>8, <1>10
  <2>3. Listed(d) /\ \A k \in DOMAIN d : SoundStream(t, p, d[k])
    BY <1>8 DEF SoundBodies
  <2>4. SoundRegion(t, p, s) /\ s # <<>>
    BY <1>6, <2>2, <2>3, RebuiltSound
  <2> HIDE DEF s
  <2>5. IsExact(h) /\ ShapedGraph(h) /\ SoundGraph(t, p, h)
    BY <1>4, <1>6, <2>4, ReplaceSpanSound
  <2> HIDE DEF h, none
  <2>6. A = f
    <3>1. A = [c EXCEPT !.graph = h, !.region = 0, !.bodies = none]
      OBVIOUS
    <3> HIDE DEF A
    <3> QED
      BY <1>4, <3>1, LeftForm
  <2> HIDE DEF A, f
  <2>7. /\ f.graph = h /\ f.work = c.work /\ f.region = 0 /\ f.bodies = none
        /\ f = [graph |-> f.graph, work |-> f.work, region |-> f.region, bodies |-> f.bodies]
    BY FrameFields DEF f
  <2>8. SoundBodies(t, p, none) /\ none = <<>>
    BY NoBodies DEF none
  <2>9. Held(t, p, f) /\ f.region = 0
    BY <2>5, <2>7, <2>8 DEF Held, IsFrame
  <2> QED
    BY <1>2, <2>1, <2>6, <2>9, StackedSound
<1> QED
  BY <1>9, <1>10

-----------------------------------------------------------------------------
(* No refusal without a cause                                               *)

\* A Custom on several qubits that the target does not admit.
WideCustom(t, p) ==
  /\ "Custom" \notin t.allowed
  /\ \E i \in DOMAIN p : p[i].gate = "Custom" /\ Len(p[i].qubits) > 1

\* Nothing keeps the stream p out of target t.
Spared(t, p) == Covered(t) /\ ~ WideCustom(t, p)

Cause(t, p, ps) == ~ Spared(t, p) \/ (ps # <<>> /\ Misnested(p))

LEMMA CauseIs ==
  RefusalHasCause <=> (phase = "refused" => Cause(target, input, passes))
BY DEF RefusalHasCause, Cause, Spared, Covered, RulesLeave, WideCustom

\* Every phase hands the next one commands it can take: the rules what they have
\* rules for, the passes what the target admits, in regions that nest.
RefInv ==
  /\ phase = "rebase" =>
       /\ FedStream(stream) /\ depth \in Nat
       /\ Spared(target, input) => OnTheWay(target, stream, depth)
  /\ phase = "rebased" => FedStream(stream) /\ InTarget(target, stream)
  /\ phase = "passes" => SoundStack(target, input, frames)
  /\ phase = "fuse" => ShapedStream(stream) /\ AllSettled(target, stream)
  /\ phase = "refused" => Cause(target, input, passes)

LEMMA TaggedFields ==
  ASSUME NEW s, ShapedStream(s)
  PROVE  /\ Listed(Tagged(s)) /\ DOMAIN Tagged(s) = DOMAIN s
         /\ \A i \in DOMAIN s :
              /\ Tagged(s)[i].gate = s[i].gate /\ Tagged(s)[i].qubits = s[i].qubits
              /\ Tagged(s)[i].params = s[i].params /\ Tagged(s)[i].factors = s[i].factors
<1> DEFINE f == [i \in DOMAIN s |-> [s[i] EXCEPT !.origin = {i}]]
<1>1. f = [i \in DOMAIN s |-> f[i]] /\ \A i \in DOMAIN s : f[i] = [s[i] EXCEPT !.origin = {i}]
  OBVIOUS
<1>2. Tagged(s) = f
  BY DEF Tagged
<1> HIDE DEF f
<1>3. Listed(s) /\ \A i \in DOMAIN s : Shaped(s[i])
  BY DEF ShapedStream
<1>4. Listed(f) /\ DOMAIN f = DOMAIN s
  BY <1>1, <1>3, MappedListed
<1>5. ASSUME NEW i \in DOMAIN s
      PROVE  /\ f[i].gate = s[i].gate /\ f[i].qubits = s[i].qubits
             /\ f[i].params = s[i].params /\ f[i].factors = s[i].factors
  <2> DEFINE c == s[i]
             d == f[i]
             o == {i}
  <2>1. Shaped(c) /\ d = [c EXCEPT !.origin = o]
    BY <1>1, <1>3
  <2> HIDE DEF c, d, o
  <2>2. d.gate = c.gate /\ d.qubits = c.qubits /\ d.params = c.params /\ d.factors = c.factors
    BY <2>1, ShapedOrigin
  <2> QED
    BY <2>2 DEF c, d
<1> QED
  BY <1>2, <1>4, <1>5

\* The rules can take every command of a program.
LEMMA CommandFed ==
  ASSUME NEW c, IsCommand(c), \A f \in Range(c.factors) : c.gate = "Custom" /\ f.gate \in ZyzGates
  PROVE  Fed(c)
<1>1. c.params \in Seq(Range(c.params)) /\ \A p \in Range(c.params) : IsLinear(p)
  BY DEF IsCommand
<1>2. c.factors \in Seq(Range(c.factors)) /\ \A f \in Range(c.factors) : IsPlain(f)
  BY DEF IsCommand
<1>3. Listed(c.params) /\ \A i \in 1 .. Len(c.params) : IsLinear(c.params[i])
  BY <1>1 DEF Listed
<1>4. Listed(c.factors)
  BY <1>2 DEF Listed
<1>5. \A i \in 1 .. Len(c.factors) : c.factors[i] \in Range(c.factors)
  BY <1>2
<1> QED
  BY <1>2, <1>3, <1>4, <1>5 DEF Fed, IsCommand

LEMMA ProgramFed ==
  ASSUME NEW s, IsProgram(s), NEW t
  PROVE  /\ FedStream(Tagged(s))
         /\ Spared(t, Tagged(s)) => OnTheWay(t, Tagged(s), 0)
<1> DEFINE u == Tagged(s)
<1>1. ShapedStream(s)
  BY StreamShaped DEF IsProgram
<1>2. /\ Listed(u) /\ DOMAIN u = DOMAIN s
      /\ \A i \in DOMAIN s : /\ u[i].gate = s[i].gate /\ u[i].qubits = s[i].qubits
                             /\ u[i].params = s[i].params /\ u[i].factors = s[i].factors
  BY <1>1, TaggedFields
<1> HIDE DEF u
<1>3. ASSUME NEW i \in DOMAIN s PROVE Fed(u[i]) /\ u[i].gate \in AllGates \cup Opaque
  <2>1. IsCommand(s[i]) /\ s[i].gate \in AllGates \cup Opaque
    BY DEF IsProgram, IsStream
  <2>2. \A f \in Range(s[i].factors) : s[i].gate = "Custom" /\ f.gate \in ZyzGates
    BY DEF IsProgram, ZyzGates
  <2>3. Fed(s[i])
    BY <2>1, <2>2, CommandFed
  <2> QED
    BY <1>2, <2>1, <2>3 DEF Fed, HasShape, HasOperands
<1>4. FedStream(u)
  BY <1>2, <1>3 DEF FedStream
<1>5. ASSUME Spared(t, u), NEW i \in DOMAIN u PROVE OnItsWay(t, u[i], 0)
  <2> SUFFICES ASSUME ~ StaysAsIs(t, u[i])
               PROVE  /\ u[i].gate \in AllGates /\ Rank(t, u[i].gate) + 0 =< 6
                      /\ u[i].gate = "Custom" => Len(u[i].qubits) =< 1
    BY DEF OnItsWay
  <2>1. Fed(u[i]) /\ u[i].gate \in AllGates \cup Opaque
    BY <1>2, <1>3
  <2>2. u[i].gate \in AllGates
    BY <2>1 DEF StaysAsIs, AllGates, OneQubitRules
  <2>3. Rank(t, u[i].gate) + 0 =< 6
    BY RankRange
  <2>4. ASSUME u[i].gate = "Custom" PROVE Len(u[i].qubits) =< 1
    <3>1. "Custom" \notin t.allowed
      BY <2>4 DEF StaysAsIs
    <3>2. ~ (Len(u[i].qubits) > 1)
      BY <1>5, <2>4, <3>1 DEF Spared, WideCustom
    <3>3. Len(u[i].qubits) \in Nat
      BY <2>1 DEF Fed
    <3> QED
      BY <3>2, <3>3
  <2> QED
    BY <2>2, <2>3, <2>4
<1> QED
  BY <1>4, <1>5 DEF OnTheWay, u

LEMMA InitRefInv == RunInit => RefInv
<1> SUFFICES ASSUME RunInit PROVE RefInv
  OBVIOUS
<1>1. PICK r \in Requests :
        input = Tagged(r.stream) /\ target = r.target /\ passes = PassesOf(r.level)
  BY DEF RunInit, TranspileInit
<1>2. IsProgram(r.stream)
  BY RequestAssumption
<1>3. phase = "rebase" /\ stream = input /\ depth = 0
  BY DEF RunInit, TranspileInit
<1>4. FedStream(input) /\ (Spared(target, input) => OnTheWay(target, input, 0))
  BY <1>1, <1>2, ProgramFed
<1> QED
  BY <1>3, <1>4 DEF RefInv

LEMMA RebaseRefInv == ASSUME CancelInv, RefInv, RebaseOnce PROVE RefInv'
<1>1. /\ phase = "rebase" /\ target' = target /\ passes' = passes /\ input' = input
      /\ stream' = RebasePass(target, stream) /\ depth' = depth + 1
      /\ phase' = IF ~ InTarget(target, stream) /\ depth' < MaxDecomposeDepth THEN "rebase"
                  ELSE IF InTarget(target, stream') THEN "rebased" ELSE "refused"
  BY DEF RebaseOnce
<1>2. \A i \in DOMAIN stream : ~ Refused(target, stream[i])
  BY DEF RebaseOnce, Refusal
<1>3. IsTarget(target) /\ FedStream(stream) /\ depth \in Nat
  BY <1>1 DEF CancelInv, RefInv
<1>4. FedStream(stream')
  BY <1>1, <1>2, <1>3, PassFed
<1>5. Spared(target, input) => OnTheWay(target, stream', depth')
  BY <1>1, <1>2, <1>3, PassOnTheWay DEF RefInv, Spared
<1>6. InTarget(target, stream) => InTarget(target, stream')
  BY <1>1, <1>3, PassStays
<1>7. ASSUME phase' = "refused" PROVE ~ Spared(target, input)
  <2>1. ~ (depth' < MaxDecomposeDepth) /\ ~ InTarget(target, stream')
    BY <1>1, <1>6, <1>7
  <2>2. PICK i \in DOMAIN stream' : ~ StaysAsIs(target, stream'[i])
    BY <2>1 DEF InTarget
  <2> SUFFICES ASSUME Spared(target, input) PROVE FALSE
    OBVIOUS
  <2>3. Rank(target, stream'[i].gate) + depth' =< 6
    BY <1>5, <2>2 DEF OnTheWay, OnItsWay
  <2>4. Rank(target, stream'[i].gate) \in 1 .. 6
    BY RankRange
  <2>5. depth' \in Nat /\ depth' >= 10
    BY <1>1, <1>3, <2>1 DEF MaxDecomposeDepth
  <2> QED
    BY <2>3, <2>4, <2>5
<1> QED
  BY <1>1, <1>3, <1>4, <1>5, <1>7 DEF RefInv, Cause

LEMMA RefuseRefInv == ASSUME CancelInv, RefInv, Refuse PROVE RefInv'
<1>1. /\ phase = "rebase" /\ phase' = "refused"
      /\ target' = target /\ passes' = passes /\ input' = input
  BY DEF Refuse
<1>2. PICK i \in DOMAIN stream : Refused(target, stream[i])
  BY DEF Refuse, Refusal
<1>3. Fed(stream[i]) /\ (Spared(target, input) => OnItsWay(target, stream[i], depth))
  BY <1>1 DEF RefInv, FedStream, OnTheWay
<1>4. ~ Spared(target, input)
  BY <1>2, <1>3, OnItsWayTaken DEF Spared
<1> QED
  BY <1>1, <1>4 DEF RefInv, Cause

\* The passes start on the rebased stream, which is the input from then on.
LEMMA StartRefInv == ASSUME CancelInv, RefInv, OptStart PROVE RefInv'
<1> DEFINE s == Tagged(stream)
           none == <<>>
<1>1. phase = "rebased" /\ target' = target /\ passes' = passes /\ input' = s
  BY DEF OptStart
<1>2. CASE passes = <<>>
  BY <1>1, <1>2 DEF OptStart, RefInv
<1>3. CASE passes # <<>>
  <2>1. Optimise(s, none)
    BY <1>3 DEF OptStart
  <2>2. ShapedStream(stream) /\ FedStream(stream) /\ InTarget(target, stream)
    BY <1>1 DEF CancelInv, RefInv
  <2>3. ShapedStream(s) /\ Listed(s) /\ DOMAIN s = DOMAIN stream
    BY <2>2, TaggedShaped, TaggedFields
  <2>4. \A i \in DOMAIN s : s[i].gate = stream[i].gate /\ s[i].qubits = stream[i].qubits
    BY <2>2, <2>3, TaggedFields
  <2>5. \A i \in DOMAIN s : Settled(target, s[i])
    <3> HIDE DEF s
    <3>1. \A i \in DOMAIN stream : StaysAsIs(target, stream[i]) /\ stream[i].qubits \in Seq(Nat)
      BY <2>2 DEF InTarget, FedStream, Fed
    <3> QED
      BY <2>3, <2>4, <3>1 DEF Settled, StaysAsIs
  <2> HIDE DEF s
  <2>6. AllSettled(target, s)
    BY <2>5 DEF AllSettled, Range
  <2>7. SoundStream(target, s, s)
    BY <2>3, <2>6, NestedIs DEF SoundStream
  <2>8. AllHeld(target, s, none)
    BY NoBodies
  <2> HIDE DEF none
  <2>9. \/ phase' = "passes" /\ SoundStack(target, s, frames')
        \/ phase' = "refused" /\ Misnested(s)
    BY <2>1, <2>7, <2>8, OptimiseSound
  <2> QED
    BY <1>1, <1>3, <2>9 DEF RefInv, Cause
<1> QED
  BY <1>2, <1>3

\* A step of a pass.
LEMMA PassRefInv ==
  ASSUME CancelInv, RefInv, phase = "passes",
         SkipRemoved \/ EnterRegion \/ LeaveBody \/ DropZero \/ CombineAdjacent \/ KeepAdjacent
           \/ CombineAcross \/ KeepAcross
  PROVE  RefInv'
<1>1. target' = target /\ passes' = passes /\ input' = input /\ passes # <<>>
  BY DEF SkipRemoved, EnterRegion, LeaveBody, DropZero, CombineAdjacent, KeepAdjacent, CombineAcross,
         KeepAcross, Unchanging, Steady, CancelInv
<1>2. SoundStack(target, input, frames)
  BY DEF RefInv
<1>3. \/ phase' = "passes" /\ SoundStack(target, input, frames')
      \/ phase' = "refused" /\ Misnested(input)
  <2>1. CASE EnterRegion
    BY <1>2, <2>1, EnterSound
  <2>2. CASE LeaveBody
    BY <1>2, <2>2, LeaveSound
  <2>3. CASE SkipRemoved \/ DropZero \/ CombineAdjacent \/ KeepAdjacent \/ CombineAcross \/ KeepAcross
    <3>1. phase' = phase
      BY <2>3 DEF SkipRemoved, DropZero, CombineAdjacent, KeepAdjacent, CombineAcross, KeepAcross, Unchanging
    <3>2. SoundStack(target, input, frames')
      BY <1>2, <2>3, RewriteSound
    <3> QED
      BY <3>1, <3>2
  <2> QED
    BY <2>1, <2>2, <2>3
<1> QED
  BY <1>1, <1>3 DEF RefInv, Cause

LEMMA FinishRefInv == ASSUME RefInv, FinishPass PROVE RefInv'
<1> DEFINE g == top.graph
           F == Frame(g)
           none == <<>>
<1>1. /\ phase = "passes" /\ target' = target /\ input' = input
      /\ Len(passes) > 1 => frames' = <<F>> /\ phase' = "passes"
      /\ ~ (Len(passes) > 1) => stream' = ToCommands(g) /\ phase' = "fuse"
  BY DEF FinishPass
<1>2. IsExact(g) /\ ShapedGraph(g) /\ SoundGraph(target, input, g)
  BY <1>1, BelowSound DEF RefInv
<1> HIDE DEF g
<1>3. CASE Len(passes) > 1
  <2>1. Held(target, input, F) /\ F.region = 0
    BY <1>2, FrameHeld
  <2>2. <<F>> = <<F>> \o none
    OBVIOUS
  <2>3. AllHeld(target, input, none)
    BY NoBodies
  <2> HIDE DEF F, none
  <2>4. frames' = <<F>> \o none
    BY <1>1, <1>3, <2>2
  <2>5. SoundStack(target, input, frames')
    BY <2>1, <2>3, <2>4, StackedSound
  <2> QED
    BY <1>1, <1>3, <2>5 DEF RefInv
<1>4. CASE ~ (Len(passes) > 1)
  <2>1. SoundStream(target, input, ToCommands(g))
    BY <1>2, ToCommandsSound
  <2> QED
    BY <1>1, <1>4, <2>1 DEF RefInv, SoundStream
<1> QED
  BY <1>3, <1>4

\* The fused stream is in the target whenever the unfused one is.
LEMMA FuseRefInv == ASSUME RefInv, Fuse PROVE RefInv'
<1>1. /\ phase = "fuse" /\ stream' = FusedFor(stream) /\ target' = target
      /\ phase' = IF InTarget(target, stream') THEN "optimized" ELSE "refused"
  BY DEF Fuse
<1>2. Listed(stream) /\ AllSettled(target, stream)
  BY <1>1 DEF RefInv, ShapedStream
<1>3. \A i \in DOMAIN stream : Settled(target, stream[i])
  BY <1>2 DEF AllSettled, Range
<1>4. InTarget(target, stream) /\ \A i \in DOMAIN stream : stream[i].qubits \in Seq(Nat)
  BY <1>3 DEF InTarget, Settled
<1>5. CASE "Custom" \in target.allowed
  <2>1. InTarget(target, FuseSingleQubitGates(stream))
    BY <1>2, <1>4, <1>5, FusionAdmitted DEF Admitted
  <2>2. phase' = "optimized"
    BY <1>1, <1>5, <2>1 DEF FusedFor
  <2> QED
    BY <2>2 DEF RefInv
<1>6. CASE "Custom" \notin target.allowed
  <2>1. phase' = "optimized"
    BY <1>1, <1>4, <1>6 DEF FusedFor
  <2> QED
    BY <2>1 DEF RefInv
<1> QED
  BY <1>5, <1>6

LEMMA OtherRefInv ==
  ASSUME RefInv, phase' \notin {"rebase", "rebased", "passes", "fuse", "refused"}
  PROVE  RefInv'
BY DEF RefInv

LEMMA StutterRefInv ==
  ASSUME RefInv, UNCHANGED <<target, passes, phase, stream, frames, input, depth>>
  PROVE  RefInv'
BY DEF RefInv

LEMMA RunRefInv == CancelInv /\ RefInv /\ [RunNext]_vars => RefInv'
<1> SUFFICES ASSUME CancelInv, RefInv, [RunNext]_vars PROVE RefInv'
  OBVIOUS
<1>1. CASE RebaseOnce
  BY <1>1, RebaseRefInv
<1>2. CASE Refuse
  BY <1>2, RefuseRefInv
<1>3. CASE OptNext
  <2>1. CASE OptStart
    BY <2>1, StartRefInv
  <2>2. CASE FinishPass
    BY <2>2, FinishRefInv
  <2>3. CASE Fuse
    BY <2>3, FuseRefInv
  <2>4. CASE SkipRemoved \/ EnterRegion \/ LeaveBody \/ DropZero \/ CombineAdjacent \/ KeepAdjacent
               \/ CombineAcross \/ KeepAcross
    <3>1. phase = "passes"
      BY <2>4 DEF SkipRemoved, EnterRegion, LeaveBody, DropZero, CombineAdjacent, KeepAdjacent,
                  CombineAcross, KeepAcross, Working
    <3> QED
      BY <2>4, <3>1, PassRefInv
  <2> QED
    BY <1>3, <2>1, <2>2, <2>3, <2>4 DEF OptNext
<1>4. CASE Bind \/ StartBlocks \/ TakeBlocks \/ Run
  BY <1>4, OtherRefInv DEF Bind, StartBlocks, TakeBlocks, Run
<1>5. CASE DispatchPart \/ FuseBlocks \/ Finished \/ UNCHANGED vars
  BY <1>5, StutterRefInv
  DEF DispatchPart, FuseBlocks, Finished, vars, transpileVars, optVars
<1> QED
  BY <1>1, <1>2, <1>3, <1>4, <1>5 DEF RunNext, Transpile, TranspileNext

\* A stream is refused only for a gap of the target, a Custom on several qubits
\* it does not admit, a caller's rule that leaves it, or markers out of place:
\* ten passes are enough for every cascade of the built-in rules, and neither
\* the optimiser nor the fusion takes a command out of the target.
THEOREM RefusalsHaveCause == Spec => []RefusalHasCause
<1>1. RunInit => CancelInv /\ RefInv
  BY InitCancelInv, InitRefInv
<1>2. (CancelInv /\ RefInv) /\ [RunNext]_vars => (CancelInv /\ RefInv)'
  BY RunCancelInv, RunRefInv
<1>3. CancelInv /\ RefInv => RefusalHasCause
  BY CauseIs DEF RefInv
<1> QED
  BY <1>1, <1>2, <1>3, PTL DEF Spec

-----------------------------------------------------------------------------
(* The order of the program                                                 *)

\* What a command from input position p may precede: one from position q,
\* unless q came first and the two neither share a wire nor commute.
MayPrecede(I, p, q) == q < p /\ Conflict(I[p], I[q]) => Commute(I[p], I[q])

\* Nothing from P is sent ahead of what must come before it in Q.
SetFit(I, P, Q) == \A p \in P, q \in Q : MayPrecede(I, p, q)

\* The commands of s come in an order that I allows.
KeptIn(I, s) == \A i, j \in DOMAIN s : i < j => SetFit(I, s[i].origin, s[j].origin)

\* OrderKept, over these.
LEMMA OrderKeptIs ==
  OrderKept <=> /\ phase = "optimized" => KeptIn(input, stream)
                /\ phase = "ran" => KeptIn(input, kernels)
<1>1. \A s : InputOrderKept(s) <=> KeptIn(input, s)
  BY DEF InputOrderKept, KeptIn, SetFit, MayPrecede
<1> QED
  BY <1>1 DEF OrderKept

\* Only a Measure writes bits, and a global phase has no qubits.
Factory(c) ==
  /\ c.gate # "Measure" => c.cbits = <<>>
  /\ c.gate = "GPhase" => c.qubits = <<>>

\* Two commands that conflict and commute with the same ones.
Resembles(a, c) ==
  /\ a.gate = c.gate /\ a.bits = c.bits /\ a.cbits = c.cbits
  /\ Listed(a.qubits) /\ Listed(c.qubits)
  /\ \/ a.qubits = c.qubits
     \/ a.gate \in QubitSymmetric /\ Operands(a) = Operands(c)

\* The qubits of a command, each with the Pauli it keeps there.
Touch(c) == {<<c.qubits[i], Basis(c, i)>> : i \in DOMAIN c.qubits}

\* A qubit-symmetric gate meets all its qubits in one basis.
LEMMA SymmetricBasis ==
  ASSUME NEW c, c.gate \in QubitSymmetric, Listed(c.qubits), NEW i \in DOMAIN c.qubits
  PROVE  Basis(c, i) = Axis(c.gate)
<1>1. i \in 1 .. Len(c.qubits) /\ Len(c.qubits) \in Nat
  BY ListedLen
<1>2. Controls(c.gate) = 0
  BY DEF Controls, QubitSymmetric
<1>3. ~ (i =< 0)
  BY <1>1
<1> QED
  BY <1>2, <1>3 DEF Basis

\* Commands that resemble each other touch the same qubits in the same bases.
LEMMA TouchSame ==
  ASSUME NEW a, NEW c, Resembles(a, c)
  PROVE  Touch(a) = Touch(c) /\ Operands(a) = Operands(c)
<1>1. CASE a.qubits = c.qubits
  <2>1. \A i : Basis(a, i) = Basis(c, i)
    BY DEF Basis, Resembles
  <2> QED
    BY <1>1, <2>1 DEF Touch, Operands
<1>2. CASE a.gate \in QubitSymmetric /\ Operands(a) = Operands(c)
  <2>1. \A i \in DOMAIN a.qubits : Basis(a, i) = Axis(a.gate)
    BY <1>2, SymmetricBasis DEF Resembles
  <2>2. \A i \in DOMAIN c.qubits : Basis(c, i) = Axis(a.gate)
    BY <1>2, SymmetricBasis DEF Resembles
  <2>3. Touch(a) = {<<q, Axis(a.gate)>> : q \in Operands(a)}
    BY <2>1 DEF Touch, Operands
  <2>4. Touch(c) = {<<q, Axis(a.gate)>> : q \in Operands(c)}
    BY <2>2 DEF Touch, Operands
  <2> QED
    BY <1>2, <2>3, <2>4
<1> QED
  BY <1>1, <1>2 DEF Resembles

\* commutes, over what the two commands touch.
LEMMA CommuteIs ==
  ASSUME NEW a, NEW b
  PROVE  Commute(a, b) <=>
           /\ a.gate \notin Opaque /\ b.gate \notin Opaque
           /\ a.bits \cap b.bits = {}
           /\ \A x \in Touch(a), y \in Touch(b) : x[1] = y[1] => x[2] # None /\ x[2] = y[2]
<1>1. CASE Commute(a, b)
  <2>1. ASSUME NEW x \in Touch(a), NEW y \in Touch(b), x[1] = y[1]
        PROVE  x[2] # None /\ x[2] = y[2]
    <3>1. PICK i \in DOMAIN a.qubits : x = <<a.qubits[i], Basis(a, i)>>
      BY DEF Touch
    <3>2. PICK j \in DOMAIN b.qubits : y = <<b.qubits[j], Basis(b, j)>>
      BY DEF Touch
    <3>3. a.qubits[i] = b.qubits[j]
      BY <2>1, <3>1, <3>2
    <3>4. Basis(a, i) # None /\ Basis(a, i) = Basis(b, j)
      BY <1>1, <3>3 DEF Commute
    <3> QED
      BY <3>1, <3>2, <3>4
  <2> QED
    BY <1>1, <2>1 DEF Commute
<1>2. ASSUME a.gate \notin Opaque, b.gate \notin Opaque, a.bits \cap b.bits = {},
             \A x \in Touch(a), y \in Touch(b) : x[1] = y[1] => x[2] # None /\ x[2] = y[2]
      PROVE  Commute(a, b)
  <2>1. ASSUME NEW i \in DOMAIN a.qubits, NEW j \in DOMAIN b.qubits, a.qubits[i] = b.qubits[j]
        PROVE  Basis(a, i) # None /\ Basis(a, i) = Basis(b, j)
    <3> DEFINE x == <<a.qubits[i], Basis(a, i)>>
               y == <<b.qubits[j], Basis(b, j)>>
    <3>1. x \in Touch(a) /\ y \in Touch(b)
      BY DEF Touch
    <3>2. x[1] = y[1] /\ x[2] = Basis(a, i) /\ y[2] = Basis(b, j)
      BY <2>1
    <3> HIDE DEF x, y
    <3>3. x[2] # None /\ x[2] = y[2]
      BY <1>2, <3>1, <3>2
    <3> QED
      BY <3>2, <3>3
  <2> QED
    BY <1>2, <2>1 DEF Commute
<1> QED
  BY <1>1, <1>2

LEMMA ResembleItself ==
  ASSUME NEW a, Listed(a.qubits)
  PROVE  Resembles(a, a)
BY DEF Resembles

LEMMA ResembleBack ==
  ASSUME NEW a, NEW b, Resembles(a, b)
  PROVE  Resembles(b, a)
BY DEF Resembles

LEMMA ResembleOn ==
  ASSUME NEW a, NEW b, NEW c, Resembles(a, b), Resembles(b, c)
  PROVE  Resembles(a, c)
<1>1. Operands(a) = Operands(b) /\ Operands(b) = Operands(c)
  BY TouchSame
<1> QED
  BY <1>1 DEF Resembles

\* Resemblance carries over what commutes and what conflicts, either way round.
LEMMA CommuteAlike ==
  ASSUME NEW a, NEW b, NEW c, NEW d, Resembles(a, c), Resembles(b, d), Commute(a, b)
  PROVE  Commute(c, d)
<1>1. Touch(a) = Touch(c) /\ Touch(b) = Touch(d)
  BY TouchSame
<1>2. a.gate = c.gate /\ b.gate = d.gate /\ a.bits = c.bits /\ b.bits = d.bits
  BY DEF Resembles
<1>3. /\ a.gate \notin Opaque /\ b.gate \notin Opaque
      /\ a.bits \cap b.bits = {}
      /\ \A x \in Touch(a), y \in Touch(b) : x[1] = y[1] => x[2] # None /\ x[2] = y[2]
  BY CommuteIs
<1>4. /\ c.gate \notin Opaque /\ d.gate \notin Opaque
      /\ c.bits \cap d.bits = {}
      /\ \A x \in Touch(c), y \in Touch(d) : x[1] = y[1] => x[2] # None /\ x[2] = y[2]
  BY <1>1, <1>2, <1>3
<1> QED
  BY <1>4, CommuteIs

LEMMA CommuteBack ==
  ASSUME NEW a, NEW b, Commute(a, b)
  PROVE  Commute(b, a)
BY DEF Commute

LEMMA ConflictAlike ==
  ASSUME NEW a, NEW b, NEW c, NEW d, Resembles(a, c), Resembles(b, d), Conflict(a, b)
  PROVE  Conflict(c, d)
<1>1. Operands(a) = Operands(c) /\ Operands(b) = Operands(d)
  BY TouchSame
<1>2. /\ a.gate = c.gate /\ b.gate = d.gate /\ a.bits = c.bits /\ b.bits = d.bits
      /\ a.cbits = c.cbits /\ b.cbits = d.cbits
  BY DEF Resembles
<1>3. IsFence(a) => IsFence(c)
  BY DEF Resembles, IsFence, QubitSymmetric
<1>4. IsFence(b) => IsFence(d)
  BY DEF Resembles, IsFence, QubitSymmetric
<1> QED
  BY <1>1, <1>2, <1>3, <1>4 DEF Conflict, FencesAll

LEMMA ConflictBack ==
  ASSUME NEW a, NEW b, Conflict(a, b)
  PROVE  Conflict(b, a)
BY DEF Conflict

\* Rotations that merge have the same wires.
LEMMA MergeResembles ==
  ASSUME NEW a, Shaped(a), Factory(a), NEW b, Shaped(b), Factory(b), CanMerge(a, b)
  PROVE  Resembles(a, b)
<1>1. a.gate = b.gate /\ a.gate \in Additive /\ a.cond = b.cond
  BY DEF CanMerge
<1>2. a.cbits = <<>> /\ b.cbits = <<>>
  BY <1>1 DEF Factory, Additive
<1>3. a.bits = b.bits
  <2>1. /\ a.bits = Range(a.cbits) \cup {a.cond[i][1] : i \in DOMAIN a.cond}
        /\ b.bits = Range(b.cbits) \cup {b.cond[i][1] : i \in DOMAIN b.cond}
    BY ShapedBits
  <2>2. a.cond = b.cond /\ a.cbits = b.cbits
    BY <1>1, <1>2
  <2> QED
    BY <2>1, <2>2
<1> QED
  BY <1>1, <1>2, <1>3 DEF CanMerge, Resembles, Shaped

-----------------------------------------------------------------------------
\* A command that stands for the input commands it is from.
Traced(I, c) == Shaped(c) /\ Factory(c) /\ \A p \in c.origin : Resembles(I[p], c)

\* Two commands that do not conflict, or commute, may go in either order.
LEMMA SlideFit ==
  ASSUME NEW I, NEW a, NEW b, Traced(I, a), Traced(I, b), ~ Conflict(a, b) \/ Commute(a, b)
  PROVE  SetFit(I, a.origin, b.origin) /\ SetFit(I, b.origin, a.origin)
<1>1. ASSUME NEW p \in a.origin, NEW q \in b.origin
      PROVE  MayPrecede(I, p, q) /\ MayPrecede(I, q, p)
  <2>1. Resembles(I[p], a) /\ Resembles(I[q], b) /\ Resembles(a, I[p]) /\ Resembles(b, I[q])
    BY ResembleBack DEF Traced
  <2>2. CASE ~ Conflict(a, b)
    <3>1. ~ Conflict(I[p], I[q])
      BY <2>1, <2>2, ConflictAlike
    <3>2. ~ Conflict(I[q], I[p])
      BY <3>1, ConflictBack
    <3> QED
      BY <3>1, <3>2 DEF MayPrecede
  <2>3. CASE Commute(a, b)
    <3>1. Commute(I[p], I[q])
      BY <2>1, <2>3, CommuteAlike
    <3>2. Commute(I[q], I[p])
      BY <3>1, CommuteBack
    <3> QED
      BY <3>1, <3>2 DEF MayPrecede
  <2> QED
    BY <2>2, <2>3
<1> QED
  BY <1>1 DEF SetFit

\* A part of what fits does; what fits two sets fits both together.
LEMMA FitParts ==
  ASSUME NEW I, NEW P, NEW Q, SetFit(I, P, Q), NEW R, R \subseteq P, NEW S, S \subseteq Q
  PROVE  SetFit(I, R, S)
BY DEF SetFit

LEMMA FitUnions ==
  ASSUME NEW I, NEW P, NEW Q, NEW R
  PROVE  /\ SetFit(I, P, R) /\ SetFit(I, Q, R) => SetFit(I, P \cup Q, R)
         /\ SetFit(I, R, P) /\ SetFit(I, R, Q) => SetFit(I, R, P \cup Q)
BY DEF SetFit

-----------------------------------------------------------------------------
(* Sequences in order                                                       *)

\* The input positions a sequence stands for.
OriginsOf(s) == UNION {x.origin : x \in Range(s)}

\* A sequence in an order that I allows.
Keeps(I, s) == Listed(s) /\ KeptIn(I, s)

\* t holds commands that s has at the positions from m to n.
From(s, t, m, n) ==
  Listed(t) /\ \A x \in Range(t) : \E k \in DOMAIN s : m =< k /\ k =< n /\ x = s[k]

LEMMA OriginAt ==
  ASSUME NEW s, NEW i \in DOMAIN s
  PROVE  s[i].origin \subseteq OriginsOf(s)
BY DEF OriginsOf, Range

LEMMA OriginsWithin ==
  ASSUME NEW s, NEW t, Range(t) \subseteq Range(s)
  PROVE  OriginsOf(t) \subseteq OriginsOf(s)
BY DEF OriginsOf

LEMMA NothingKept ==
  ASSUME NEW I
  PROVE  Keeps(I, <<>>) /\ OriginsOf(<<>>) = {}
<1>1. Listed(<<>>) /\ DOMAIN <<>> = {}
  BY ListedTuples
<1> QED
  BY <1>1 DEF Keeps, KeptIn, OriginsOf, Range

LEMMA OneKept ==
  ASSUME NEW I, NEW c
  PROVE  Keeps(I, <<c>>) /\ OriginsOf(<<c>>) = c.origin
<1> DEFINE s == <<c>>
<1>1. Listed(s) /\ DOMAIN s = {1} /\ Range(s) = {c}
  BY OneListed, OneRange
<1> HIDE DEF s
<1>2. Keeps(I, s) /\ OriginsOf(s) = c.origin
  BY <1>1 DEF Keeps, KeptIn, OriginsOf
<1> QED
  BY <1>2 DEF s

\* Two such sequences can be joined when the first may precede the second.
LEMMA JoinKept ==
  ASSUME NEW I, NEW a, Keeps(I, a), NEW b, Keeps(I, b), SetFit(I, OriginsOf(a), OriginsOf(b)),
         NEW c, IsJoin(c, a, b)
  PROVE  Keeps(I, c) /\ Range(c) = Range(a) \cup Range(b) /\ OriginsOf(c) = OriginsOf(a) \cup OriginsOf(b)
<1>1. c = a \o b /\ Listed(a) /\ Listed(b)
  BY DEF IsJoin, Keeps
<1>2. /\ Listed(c) /\ Len(c) = Len(a) + Len(b)
      /\ \A i \in 1 .. Len(c) : c[i] = IF i =< Len(a) THEN a[i] ELSE b[i - Len(a)]
      /\ Range(c) = Range(a) \cup Range(b)
  BY <1>1, ListedJoin, JoinRange
<1>3. /\ Len(a) \in Nat /\ Len(b) \in Nat /\ DOMAIN a = 1 .. Len(a) /\ DOMAIN b = 1 .. Len(b)
      /\ DOMAIN c = 1 .. Len(c)
  BY <1>1, <1>2, ListedLen
<1>4. ASSUME NEW i \in DOMAIN c, NEW j \in DOMAIN c, i < j
      PROVE  SetFit(I, c[i].origin, c[j].origin)
  <2>1. i \in 1 .. Len(c) /\ j \in 1 .. Len(c)
    BY <1>3
  <2>2. CASE j =< Len(a)
    <3>1. i \in DOMAIN a /\ j \in DOMAIN a /\ c[i] = a[i] /\ c[j] = a[j]
      BY <1>2, <1>3, <1>4, <2>1, <2>2
    <3> QED
      BY <1>4, <3>1 DEF Keeps, KeptIn
  <2>3. CASE ~ (i =< Len(a))
    <3> DEFINE k == i - Len(a)
               l == j - Len(a)
    <3>1. k \in DOMAIN b /\ l \in DOMAIN b /\ k < l /\ c[i] = b[k] /\ c[j] = b[l]
      BY <1>2, <1>3, <1>4, <2>1, <2>3
    <3> HIDE DEF k, l
    <3> QED
      BY <3>1 DEF Keeps, KeptIn
  <2>4. CASE i =< Len(a) /\ ~ (j =< Len(a))
    <3> DEFINE l == j - Len(a)
    <3>1. i \in DOMAIN a /\ l \in DOMAIN b /\ c[i] = a[i] /\ c[j] = b[l]
      BY <1>2, <1>3, <1>4, <2>1, <2>4
    <3> HIDE DEF l
    <3>2. c[i].origin \subseteq OriginsOf(a) /\ c[j].origin \subseteq OriginsOf(b)
      BY <3>1, OriginAt
    <3> QED
      BY <3>2, FitParts
  <2> QED
    BY <1>4, <1>3, <2>1, <2>2, <2>3, <2>4
<1>5. OriginsOf(c) = OriginsOf(a) \cup OriginsOf(b)
  BY <1>2 DEF OriginsOf
<1> QED
  BY <1>2, <1>4, <1>5 DEF Keeps, KeptIn

\* t is the part of s from m to n.
IsSub(t, s, m, n) == t = SubSeq(s, m, n)

\* Where the commands of a part come from, and that it keeps the order.
LEMMA PartPlaces ==
  ASSUME NEW s, Listed(s), NEW m \in Nat \ {0}, NEW n \in Int, n =< Len(s), NEW t, IsSub(t, s, m, n)
  PROVE  /\ Listed(t) /\ From(s, t, m, n) /\ Range(t) \subseteq Range(s)
         /\ \A i \in DOMAIN t : m + i - 1 \in DOMAIN s /\ t[i] = s[m + i - 1]
         /\ m =< n => Len(t) = n - m + 1
<1>1. PICK S : s \in Seq(S)
  BY DEF Listed
<1>2. Len(s) \in Nat /\ DOMAIN s = 1 .. Len(s)
  BY <1>1
<1>0. t = SubSeq(s, m, n)
  BY DEF IsSub
<1>3. CASE m =< n
  <2>1. Len(t) = n - m + 1 /\ DOMAIN t = 1 .. n - m + 1
    BY <1>0, <1>1, <1>2, <1>3
  <2>2. \A k \in 1 .. n - m + 1 : t[k] = s[m + k - 1] /\ m + k - 1 \in DOMAIN s /\ m + k - 1 =< n /\ m =< m + k - 1
    BY <1>0, <1>1, <1>2, <1>3
  <2>3. t \in Seq(S)
    <3>1. \A i \in m .. n : s[i] \in S
      BY <1>1, <1>2
    <3> QED
      BY <1>0, <1>1, <1>2, <1>3, <3>1
  <2>4. Listed(t)
    BY <2>3 DEF Listed
  <2>5. From(s, t, m, n) /\ Range(t) \subseteq Range(s)
    BY <2>1, <2>2, <2>4 DEF From, Range
  <2> QED
    BY <2>1, <2>2, <2>4, <2>5
<1>4. CASE ~ (m =< n)
  <2>1. t = <<>>
    BY <1>0, <1>1, <1>2, <1>4
  <2>2. DOMAIN <<>> = {} /\ Listed(<<>>)
    BY ListedTuples
  <2>3. DOMAIN t = {} /\ Listed(t)
    BY <2>1, <2>2
  <2> QED
    BY <1>4, <2>3 DEF From, Range
<1> QED
  BY <1>3, <1>4

LEMMA PartKept ==
  ASSUME NEW I, NEW s, Keeps(I, s), NEW m \in Nat \ {0}, NEW n \in Int, n =< Len(s), NEW t, IsSub(t, s, m, n)
  PROVE  Keeps(I, t) /\ Range(t) \subseteq Range(s) /\ From(s, t, m, n)
<1>1. /\ Listed(t) /\ From(s, t, m, n) /\ Range(t) \subseteq Range(s)
      /\ \A i \in DOMAIN t : m + i - 1 \in DOMAIN s /\ t[i] = s[m + i - 1]
  <2>1. Listed(s)
    BY DEF Keeps
  <2> QED
    BY <2>1, PartPlaces
<1>2. DOMAIN t \subseteq Nat /\ DOMAIN s \subseteq Nat
  <2>1. DOMAIN t = 1 .. Len(t) /\ DOMAIN s = 1 .. Len(s) /\ Len(s) \in Nat /\ Len(t) \in Nat
    BY <1>1, ListedLen DEF Keeps
  <2> QED
    BY <2>1
<1>3. ASSUME NEW i \in DOMAIN t, NEW j \in DOMAIN t, i < j
      PROVE  SetFit(I, t[i].origin, t[j].origin)
  <2> DEFINE k == m + i - 1
             l == m + j - 1
  <2>1. k < l
    BY <1>2, <1>3
  <2>2. k \in DOMAIN s /\ l \in DOMAIN s /\ t[i] = s[k] /\ t[j] = s[l]
    BY <1>1
  <2> HIDE DEF k, l
  <2> QED
    BY <2>1, <2>2 DEF Keeps, KeptIn
<1> QED
  BY <1>1, <1>3 DEF Keeps, KeptIn

LEMMA OneFrom ==
  ASSUME NEW s, Listed(s), NEW k \in DOMAIN s
  PROVE  From(s, <<s[k]>>, k, k)
<1> DEFINE c == s[k]
<1>1. Listed(<<c>>) /\ Range(<<c>>) = {c}
  BY OneRange
<1>2. k =< k
  BY ListedLen
<1> HIDE DEF c
<1>3. \A x \in Range(<<c>>) : x = c
  BY <1>1
<1> QED
  BY <1>1, <1>2, <1>3 DEF From, c

\* An earlier part of a sequence may precede a later one.
LEMMA FromFit ==
  ASSUME NEW I, NEW s, Keeps(I, s), NEW m, NEW n \in Int, NEW k \in Int, NEW l, n < k,
         NEW t, From(s, t, m, n), NEW u, From(s, u, k, l)
  PROVE  SetFit(I, OriginsOf(t), OriginsOf(u))
<1>1. DOMAIN s = 1 .. Len(s) /\ Len(s) \in Nat
  BY ListedLen DEF Keeps
<1>2. ASSUME NEW x \in Range(t), NEW y \in Range(u)
      PROVE  SetFit(I, x.origin, y.origin)
  <2>1. PICK a \in DOMAIN s : a =< n /\ x = s[a]
    BY DEF From
  <2>2. PICK b \in DOMAIN s : k =< b /\ y = s[b]
    BY DEF From
  <2>3. a < b
    BY <1>1, <2>1, <2>2
  <2> QED
    BY <2>1, <2>2, <2>3 DEF Keeps, KeptIn
<1> QED
  BY <1>2 DEF SetFit, OriginsOf

\* Pieces in order, each kept in itself, make a stream that is kept.
LEMMA FlattenKept ==
  ASSUME NEW I, NEW ss, Listed(ss), \A i \in DOMAIN ss : Keeps(I, ss[i]),
         \A i, j \in DOMAIN ss : i < j => SetFit(I, OriginsOf(ss[i]), OriginsOf(ss[j]))
  PROVE  /\ Keeps(I, FlattenSeq(ss))
         /\ \A x \in Range(FlattenSeq(ss)) : \E i \in DOMAIN ss : x \in Range(ss[i])
<1>1. Len(ss) \in Nat /\ DOMAIN ss = 1 .. Len(ss)
  BY ListedLen
<1>2. \A i \in DOMAIN ss : Listed(ss[i])
  BY DEF Keeps
<1>3. PICK S : ss \in Seq(Seq(S))
  BY <1>2, PiecesIn
<1>4. \A x \in Range(FlattenSeq(ss)) : \E i \in DOMAIN ss : x \in Range(ss[i])
  BY <1>2, FlattenElements DEF Range
<1>5. CASE ss = <<>>
  <2>1. FlattenSeq(ss) = <<>>
    BY <1>5, FlattenNone
  <2> QED
    BY <1>4, <2>1, NothingKept
<1>6. CASE ss # <<>>
  <2>1. PICK F \in [1 .. Len(ss) -> Seq(S)] :
          /\ FlattenSeq(ss) = F[Len(ss)] /\ F[1] = ss[1]
          /\ \A i \in 2 .. Len(ss) : F[i] = F[i - 1] \o ss[i]
    BY <1>3, <1>6, FlattenForm
  <2>2. Len(ss) # 0
    BY <1>3, <1>6
  <2> DEFINE Good(i) == Keeps(I, F[i]) /\ \A x \in Range(F[i]) : \E j \in 1 .. i : x \in Range(ss[j])
             Bad == {i \in 1 .. Len(ss) : ~ Good(i)}
  <2>3. Bad = {}
    <3> SUFFICES ASSUME Bad # {} PROVE FALSE
      OBVIOUS
    <3>1. PICK i \in Bad : \A j \in Bad : i =< j
      <4>1. Bad \in SUBSET Nat
        BY <1>1
      <4> HIDE DEF Bad
      <4> QED
        BY <4>1, LeastExists
    <3>2. i \in 1 .. Len(ss) /\ ~ Good(i)
      BY <3>1
    <3>3. i # 1
      <4>1. 1 \in DOMAIN ss /\ 1 \in 1 .. 1
        BY <1>1, <2>2
      <4>2. F[1] = ss[1] /\ Keeps(I, ss[1])
        BY <2>1, <4>1
      <4>3. Good(1)
        BY <4>1, <4>2
      <4> QED
        BY <3>2, <4>3
    <3>4. i \in 2 .. Len(ss) /\ i - 1 \in 1 .. Len(ss) /\ i - 1 \notin Bad
      BY <1>1, <3>1, <3>2, <3>3
    <3> DEFINE k == i - 1
    <3>5. Good(k) /\ Keeps(I, ss[i]) /\ k \in 1 .. Len(ss) /\ k < i
      BY <1>1, <3>2, <3>4
    <3>6. IsJoin(F[i], F[k], ss[i])
      BY <2>1, <3>4 DEF IsJoin
    <3>7. \A j \in 1 .. k : j \in 1 .. i /\ j \in DOMAIN ss /\ j < i
      BY <1>1, <3>2
    <3>8. i \in 1 .. i /\ i \in DOMAIN ss
      BY <1>1, <3>2
    <3> HIDE DEF k, Bad
    <3>9. SetFit(I, OriginsOf(F[k]), OriginsOf(ss[i]))
      <4>1. ASSUME NEW x \in Range(F[k])
            PROVE  SetFit(I, x.origin, OriginsOf(ss[i]))
        <5>1. PICK j \in 1 .. k : x \in Range(ss[j])
          BY <3>5
        <5>2. x.origin \subseteq OriginsOf(ss[j])
          BY <5>1 DEF OriginsOf
        <5>3. SetFit(I, OriginsOf(ss[j]), OriginsOf(ss[i]))
          BY <3>7, <3>8
        <5> QED
          BY <5>2, <5>3, FitParts
      <4> QED
        BY <4>1 DEF SetFit, OriginsOf
    <3>10. Keeps(I, F[i]) /\ Range(F[i]) = Range(F[k]) \cup Range(ss[i])
      BY <3>5, <3>6, <3>9, JoinKept
    <3>11. Good(i)
      BY <3>5, <3>7, <3>8, <3>10
    <3> QED
      BY <3>2, <3>11
  <2>4. Len(ss) \in 1 .. Len(ss)
    BY <1>1, <2>2
  <2>5. Good(Len(ss))
    BY <2>3, <2>4
  <2> QED
    BY <1>4, <2>1, <2>5
<1> QED
  BY <1>5, <1>6

\* What holds of every pair of commands holds of the two sequences.
LEMMA FitAcross ==
  ASSUME NEW I, NEW s, NEW t,
         \A x \in Range(s), y \in Range(t) : SetFit(I, x.origin, y.origin)
  PROVE  SetFit(I, OriginsOf(s), OriginsOf(t))
BY DEF SetFit, OriginsOf

-----------------------------------------------------------------------------
(* Graphs in order                                                          *)

\* Such a sequence of commands that all resemble what they stand for.
TracedStream(I, s) == Keeps(I, s) /\ \A x \in Range(s) : Traced(I, x)

\* A graph whose nodes hold traced commands, each node what may precede the
\* later ones.
OrderedGraph(I, g) ==
  /\ \A i \in g.live : TracedStream(I, Written(g, i))
  /\ \A i, j \in g.live : i < j => SetFit(I, OriginsOf(Written(g, i)), OriginsOf(Written(g, j)))

\* A node no rewrite slides past, and one that is on every wire of another.
Walls(g, i) == IsRegionNode(g, i) \/ IsFence(g.cmd[i])

Spans(g, i, j) == \A w \in g.wires[j] : w[1] = "cbit" \/ w \in g.wires[i]

\* Branch markers are inside region nodes, and a region or a fence is on every
\* quantum wire.
NodesWired(g) ==
  /\ \A i \in g.live : IsRegionNode(g, i) => Len(g.span[i]) >= 2
  /\ \A i \in g.live : ~ IsRegionNode(g, i) => g.cmd[i].gate \notin Markers
  /\ \A i, j \in g.live : Walls(g, i) => Spans(g, i, j)

\* The input positions a graph stands for.
GraphOrigins(g) == UNION {OriginsOf(Written(g, i)) : i \in g.live}

\* What from_commands makes of a stream: the wires of its nodes, where they end,
\* and which wires a fence or a region is on.
LEMMA GraphWires ==
  ASSUME NEW s
  PROVE  \A i \in Nodes(s) : FromCommands(s).wires[i] = Wires(s, i)
<1> DEFINE g == FromCommands(s)
           b == Bare(s)
           P == [i \in b.live |-> [w \in b.wires[i] |-> TailBefore(b, i, w)]]
           N == [i \in b.live |-> [w \in b.wires[i] |-> HeadAfter(b, i, w)]]
<1>1. b.wires = [i \in Nodes(s) |-> Wires(s, i)]
  BY DEF Bare
<1>2. b = [live |-> b.live, wires |-> b.wires, cmd |-> b.cmd, span |-> b.span,
           prev |-> b.prev, next |-> b.next]
  BY DEF Bare
<1>3. g = [b EXCEPT !.prev = P, !.next = N]
  BY DEF FromCommands
<1> HIDE DEF P, N, g, b
<1>4. g.wires = b.wires
  BY <1>2, <1>3
<1> QED
  BY <1>1, <1>4 DEF g

LEMMA NodesApart ==
  ASSUME NEW s, Len(s) \in Nat, WellFormed(s), NEW i \in Nodes(s), NEW j \in Nodes(s), i < j
  PROVE  NodeEnd(s, i) < j
<1>1. /\ i \in 1 .. Len(s) /\ NodeEnd(s, i) \in i .. Len(s)
      /\ \A k \in i .. NodeEnd(s, i) - 1 : Depth(s, k) > 0
  BY NodeEndsIn
<1>2. j \in 1 .. Len(s) /\ Depth(s, j - 1) = 0
  BY DEF Nodes
<1>3. ASSUME j =< NodeEnd(s, i) PROVE FALSE
  <2>1. j - 1 \in i .. NodeEnd(s, i) - 1
    BY <1>1, <1>2, <1>3
  <2>2. Depth(s, j - 1) > 0
    BY <1>1, <2>1
  <2> QED
    BY <1>2, <2>2
<1> QED
  BY <1>1, <1>2, <1>3

LEMMA WireKinds ==
  ASSUME NEW s, Listed(s), NEW i \in 1 .. Len(s)
  PROVE  /\ \A w \in Wires(s, i) : w[1] = "cbit" \/ w \in QubitWires(s) \cup {GlobalWire}
         /\ IsRegion(s, i) \/ IsFence(s[i]) => QubitWires(s) \cup {GlobalWire} \subseteq Wires(s, i)
<1> DEFINE q == {<<"qubit", x>> : x \in Operands(s[i])}
           b == {<<"cbit", x>> : x \in s[i].bits}
<1>1. /\ IsRegion(s, i) => Wires(s, i) = QubitWires(s) \cup CbitWires(s) \cup {GlobalWire}
      /\ ~ IsRegion(s, i) => /\ Wires(s, i) \subseteq q \cup b \cup {GlobalWire} \cup QubitWires(s)
                             /\ IsFence(s[i]) => QubitWires(s) \cup {GlobalWire} \subseteq Wires(s, i)
  BY Zenon DEF Wires
<1>2. \A w \in b \cup CbitWires(s) : w[1] = "cbit"
  BY DEF CbitWires
<1>3. CASE IsRegion(s, i)
  <2> HIDE DEF b
  <2> QED
    BY <1>1, <1>2, <1>3
<1>4. CASE ~ IsRegion(s, i)
  <2>1. i \in DOMAIN s
    BY ListedLen
  <2>2. \A w \in q : w \in QubitWires(s)
    BY <2>1 DEF QubitWires
  <2> HIDE DEF q, b
  <2> QED
    BY <1>1, <1>2, <1>4, <2>2
<1> QED
  BY <1>3, <1>4

\* from_commands keeps the order, and wires the fences to everything.
LEMMA FromCommandsOrdered ==
  ASSUME NEW I, NEW s, TracedStream(I, s), WellFormed(s), NEW g, g = FromCommands(s)
  PROVE  OrderedGraph(I, g) /\ NodesWired(g) /\ GraphOrigins(g) \subseteq OriginsOf(s)
<1>1. /\ Listed(s) /\ Len(s) \in Nat /\ DOMAIN s = 1 .. Len(s) /\ Keeps(I, s)
      /\ \A x \in Range(s) : Traced(I, x)
  BY ListedLen DEF TracedStream, Keeps
<1>2. /\ g.live = Nodes(s)
      /\ \A i \in Nodes(s) :
           /\ g.cmd[i] = s[i] /\ g.wires[i] = Wires(s, i)
           /\ g.span[i] = IF IsRegion(s, i) THEN SubSeq(s, i, NodeEnd(s, i)) ELSE <<>>
  BY GraphOf, GraphWires
<1>3. ASSUME NEW i \in Nodes(s)
      PROVE  /\ i \in 1 .. Len(s) /\ NodeEnd(s, i) \in i .. Len(s)
             /\ ~ IsRegion(s, i) => NodeEnd(s, i) = i /\ s[i].gate \notin Markers
  BY <1>1, NodeEndsIn
<1>4. ASSUME NEW i \in Nodes(s)
      PROVE  /\ IsRegionNode(g, i) <=> IsRegion(s, i)
             /\ IsRegion(s, i) => Len(g.span[i]) >= 2
             /\ From(s, Written(g, i), i, NodeEnd(s, i)) /\ TracedStream(I, Written(g, i))
             /\ Range(Written(g, i)) \subseteq Range(s)
  <2> DEFINE n == NodeEnd(s, i)
             t == g.span[i]
  <2>0. i \in 1 .. Len(s) /\ n \in i .. Len(s) /\ i \in Nat \ {0} /\ n \in Int /\ n =< Len(s) /\ i =< n
    BY <1>1, <1>3
  <2>1. CASE IsRegion(s, i)
    <3>1. t = SubSeq(s, i, n)
      BY <1>2, <2>1
    <3>2. IsSub(t, s, i, n)
      BY <3>1 DEF IsSub
    <3>3. n # i
      <4>1. Depth(s, i - 1) = 0 /\ Depth(s, n) = 0
        BY <1>1, NodeEndsIn DEF Nodes
      <4>2. Deepens(s[i]) = 1
        BY <2>1 DEF Deepens, IsRegion
      <4>3. Depth(s, i) = 1
        BY <1>1, <2>0, <4>1, <4>2, DepthDeepens
      <4> QED
        BY <4>1, <4>3
    <3> HIDE DEF n, t
    <3>4. Keeps(I, t) /\ From(s, t, i, n) /\ Range(t) \subseteq Range(s)
      BY <1>1, <2>0, <3>2, PartKept
    <3>5. Len(t) = n - i + 1
      BY <1>1, <2>0, <3>2, PartPlaces
    <3>6. Len(t) >= 2 /\ t # <<>>
      BY <2>0, <3>3, <3>5
    <3>7. IsRegionNode(g, i) /\ Written(g, i) = t
      BY <3>6 DEF IsRegionNode, Written, t
    <3> QED
      BY <1>1, <2>1, <3>4, <3>6, <3>7 DEF TracedStream, n, t
  <2>2. CASE ~ IsRegion(s, i)
    <3>1. ~ IsRegionNode(g, i) /\ g.cmd[i] = s[i] /\ n = i
      BY <1>2, <1>3, <2>2 DEF IsRegionNode
    <3>2. Written(g, i) = <<s[i]>>
      BY <3>1 DEF Written
    <3>3. i \in DOMAIN s
      BY <1>1, <2>0
    <3>4. From(s, <<s[i]>>, i, i)
      BY <1>1, <3>3, OneFrom
    <3> DEFINE c == s[i]
    <3>5. Keeps(I, <<c>>) /\ Range(<<c>>) = {c}
      BY OneKept, OneRange
    <3>6. c \in Range(s)
      BY <3>3 DEF Range
    <3>7. Written(g, i) = <<c>> /\ From(s, <<c>>, i, n)
      BY <3>1, <3>2, <3>4
    <3> HIDE DEF c
    <3> QED
      BY <1>1, <2>2, <3>1, <3>5, <3>6, <3>7 DEF TracedStream
  <2> QED
    BY <2>1, <2>2
<1>5. OrderedGraph(I, g)
  <2>1. ASSUME NEW i \in Nodes(s), NEW j \in Nodes(s), i < j
        PROVE  SetFit(I, OriginsOf(Written(g, i)), OriginsOf(Written(g, j)))
    <3>1. NodeEnd(s, i) < j /\ NodeEnd(s, i) \in Int /\ j \in Int
      BY <1>1, <1>3, <2>1, NodesApart
    <3>2. From(s, Written(g, i), i, NodeEnd(s, i)) /\ From(s, Written(g, j), j, NodeEnd(s, j))
      BY <1>4
    <3> QED
      BY <1>1, <3>1, <3>2, FromFit
  <2> QED
    BY <1>2, <1>4, <2>1 DEF OrderedGraph
<1>6. NodesWired(g)
  <2>1. ASSUME NEW i \in Nodes(s), NEW j \in Nodes(s), IsRegionNode(g, i) \/ IsFence(g.cmd[i]),
               NEW w \in g.wires[j]
        PROVE  w[1] = "cbit" \/ w \in g.wires[i]
    <3>1. i \in 1 .. Len(s) /\ j \in 1 .. Len(s)
      BY <1>3
    <3>2. IsRegion(s, i) \/ IsFence(s[i])
      BY <1>2, <1>4, <2>1
    <3>3. QubitWires(s) \cup {GlobalWire} \subseteq g.wires[i]
      BY <1>1, <1>2, <3>1, <3>2, WireKinds
    <3>4. w[1] = "cbit" \/ w \in QubitWires(s) \cup {GlobalWire}
      BY <1>1, <1>2, <3>1, WireKinds
    <3> QED
      BY <3>3, <3>4
  <2>2. \A i \in Nodes(s) :
          /\ IsRegionNode(g, i) => Len(g.span[i]) >= 2
          /\ ~ IsRegionNode(g, i) => g.cmd[i].gate \notin Markers
    BY <1>2, <1>3, <1>4
  <2>3. g.live = Nodes(s)
    BY <1>2
  <2>4. \A i, j \in Nodes(s) : Walls(g, i) => Spans(g, i, j)
    BY <2>1 DEF Walls, Spans
  <2> QED
    BY <2>2, <2>3, <2>4 DEF NodesWired
<1>7. GraphOrigins(g) \subseteq OriginsOf(s)
  BY <1>2, <1>4 DEF GraphOrigins, OriginsOf
<1> QED
  BY <1>5, <1>6, <1>7

\* What is written out stays in order.
LEMMA ToCommandsTraced ==
  ASSUME NEW I, NEW g, IsExact(g), IsFiniteSet(g.live), OrderedGraph(I, g)
  PROVE  TracedStream(I, ToCommands(g)) /\ OriginsOf(ToCommands(g)) \subseteq GraphOrigins(g)
<1> DEFINE order == EmissionOrder(g)
           ss == [k \in DOMAIN order |-> Written(g, order[k])]
<1>1. Listed(order) /\ Range(order) = g.live /\ Rising(order)
  BY AllEmitted
<1>2. ToCommands(g) = FlattenSeq(ss)
  BY DEF ToCommands
<1>3. ss = [k \in DOMAIN order |-> ss[k]] /\ \A k \in DOMAIN order : ss[k] = Written(g, order[k])
  OBVIOUS
<1> HIDE DEF ss, order
<1>4. Listed(ss) /\ DOMAIN ss = DOMAIN order
  BY <1>1, <1>3, MappedListed
<1>5. \A k \in DOMAIN ss : order[k] \in g.live /\ ss[k] = Written(g, order[k]) /\ TracedStream(I, ss[k])
  BY <1>1, <1>3, <1>4 DEF Range, OrderedGraph
<1>6. ASSUME NEW k \in DOMAIN ss, NEW l \in DOMAIN ss, k < l
      PROVE  SetFit(I, OriginsOf(ss[k]), OriginsOf(ss[l]))
  <2>1. order[k] < order[l]
    BY <1>1, <1>4, <1>6 DEF Rising
  <2> QED
    BY <1>5, <2>1 DEF OrderedGraph
<1>7. \A k \in DOMAIN ss : Keeps(I, ss[k])
  BY <1>5 DEF TracedStream
<1>8. /\ Keeps(I, FlattenSeq(ss))
      /\ \A x \in Range(FlattenSeq(ss)) : \E k \in DOMAIN ss : x \in Range(ss[k])
  BY <1>4, <1>6, <1>7, FlattenKept
<1>9. ASSUME NEW x \in Range(FlattenSeq(ss))
      PROVE  Traced(I, x) /\ x.origin \subseteq GraphOrigins(g)
  <2>1. PICK k \in DOMAIN ss : x \in Range(ss[k])
    BY <1>8
  <2>2. order[k] \in g.live /\ x \in Range(Written(g, order[k]))
    BY <1>5, <2>1
  <2> QED
    BY <1>5, <2>1, <2>2 DEF TracedStream, GraphOrigins, OriginsOf
<1>10. OriginsOf(FlattenSeq(ss)) \subseteq GraphOrigins(g)
  BY <1>9 DEF OriginsOf
<1> QED
  BY <1>2, <1>8, <1>9, <1>10 DEF TracedStream

-----------------------------------------------------------------------------
(* What the rewrites do to the order                                        *)

\* h is what a pass makes of g.
Fitted(I, g, h) ==
  OrderedGraph(I, h) /\ NodesWired(h) /\ GraphOrigins(h) \subseteq GraphOrigins(g)

\* Removing a node, merging two and replacing a region keep the order.
LEMMA RemoveFitted ==
  ASSUME NEW I, NEW g, IsExact(g), ShapedGraph(g), OrderedGraph(I, g), NodesWired(g),
         NEW id \in g.live, NEW h, h = RemoveNode(g, id)
  PROVE  Fitted(I, g, h)
<1>1. h.live = g.live \ {id} /\ h.cmd = g.cmd /\ h.span = g.span /\ h.wires = g.wires
  BY RemoveKeepsShape
<1>2. \A i : Written(h, i) = Written(g, i) /\ (Walls(h, i) <=> Walls(g, i)) /\ (IsRegionNode(h, i) <=> IsRegionNode(g, i))
  BY <1>1 DEF Written, Walls, IsRegionNode
<1>3. \A i, j : Spans(h, i, j) <=> Spans(g, i, j)
  BY <1>1 DEF Spans
<1>4. OrderedGraph(I, h)
  BY <1>1, <1>2 DEF OrderedGraph
<1>5. NodesWired(h)
  BY <1>1, <1>2, <1>3 DEF NodesWired
<1>6. GraphOrigins(h) \subseteq GraphOrigins(g)
  BY <1>1, <1>2 DEF GraphOrigins
<1> QED
  BY <1>4, <1>5, <1>6 DEF Fitted

\* Node keep takes the origins of node gone as well: nothing between them
\* keeps the two apart.
Apart(I, g, keep, gone) ==
  \A j \in g.live \ {keep, gone} :
    /\ j < keep => SetFit(I, OriginsOf(Written(g, j)), OriginsOf(Written(g, gone)))
    /\ keep < j => SetFit(I, OriginsOf(Written(g, gone)), OriginsOf(Written(g, j)))

LEMMA MergeFitted ==
  ASSUME NEW I, NEW g, IsExact(g), ShapedGraph(g), OrderedGraph(I, g), NodesWired(g),
         NEW keep \in g.live, NEW gone \in g.live, keep # gone, ~ IsRegionNode(g, keep),
         Apart(I, g, keep, gone),
         NEW c, Traced(I, c), c.gate = g.cmd[keep].gate, c.qubits = g.cmd[keep].qubits,
         c.cbits = g.cmd[keep].cbits, c.cond = g.cmd[keep].cond,
         c.origin \subseteq OriginsOf(Written(g, keep)) \cup OriginsOf(Written(g, gone)),
         NEW k, k = RemoveNode(g, gone), NEW h, h = ReplaceCommand(k, keep, c)
  PROVE  Fitted(I, g, h)
<1>1. /\ IsExact(k) /\ ShapedGraph(k)
      /\ k.live = g.live \ {gone} /\ k.cmd = g.cmd /\ k.span = g.span /\ k.wires = g.wires
  BY RemoveKeepsShape
<1>2. /\ h.live = k.live /\ h.wires = k.wires /\ h.span = k.span
      /\ h.cmd[keep] = c /\ \A i \in k.live : i # keep => h.cmd[i] = k.cmd[i]
  <2>1. keep \in k.live /\ Shaped(c)
    BY <1>1 DEF Traced
  <2>2. /\ c.gate = k.cmd[keep].gate /\ c.qubits = k.cmd[keep].qubits
        /\ c.cbits = k.cmd[keep].cbits /\ c.cond = k.cmd[keep].cond
    BY <1>1
  <2> QED
    BY <1>1, <2>1, <2>2, ReplaceKeepsShape
<1>3. \A i \in h.live : i \in g.live /\ i # gone
  BY <1>1, <1>2
<1>4. ASSUME NEW i \in h.live, i # keep
      PROVE  Written(h, i) = Written(g, i) /\ (Walls(h, i) <=> Walls(g, i)) /\ h.cmd[i].gate = g.cmd[i].gate
  BY <1>1, <1>2, <1>4 DEF Written, Walls, IsRegionNode
<1>5. Written(h, keep) = <<c>> /\ ~ IsRegionNode(h, keep)
  BY <1>1, <1>2 DEF Written, IsRegionNode
<1>6. (Walls(h, keep) <=> Walls(g, keep)) /\ h.cmd[keep].gate = g.cmd[keep].gate
  BY <1>1, <1>2, <1>5 DEF Walls, IsFence
<1>7. TracedStream(I, Written(h, keep)) /\ OriginsOf(Written(h, keep)) = c.origin
  <2>1. Keeps(I, <<c>>) /\ OriginsOf(<<c>>) = c.origin /\ Range(<<c>>) = {c}
    BY OneKept, OneRange
  <2> QED
    BY <1>5, <2>1 DEF TracedStream
<1>8. ASSUME NEW i \in h.live, NEW j \in h.live, i < j
      PROVE  SetFit(I, OriginsOf(Written(h, i)), OriginsOf(Written(h, j)))
  <2>0. i # j
    BY <1>1, <1>2, <1>8 DEF IsExact, IsGraph
  <2>1. CASE i # keep /\ j # keep
    BY <1>3, <1>4, <1>8, <2>1 DEF OrderedGraph
  <2>2. CASE i = keep
    <3>1. j # keep /\ j \in g.live \ {keep, gone} /\ keep < j /\ Written(h, j) = Written(g, j)
      BY <1>3, <1>4, <1>8, <2>0, <2>2
    <3>2. SetFit(I, OriginsOf(Written(g, gone)), OriginsOf(Written(g, j)))
      BY <3>1 DEF Apart
    <3>3. SetFit(I, OriginsOf(Written(g, keep)), OriginsOf(Written(g, j)))
      BY <3>1 DEF OrderedGraph
    <3>4. SetFit(I, OriginsOf(Written(g, keep)) \cup OriginsOf(Written(g, gone)), OriginsOf(Written(g, j)))
      BY <3>2, <3>3, FitUnions
    <3>5. SetFit(I, c.origin, OriginsOf(Written(g, j)))
      BY <3>4, FitParts
    <3> QED
      BY <1>7, <2>2, <3>1, <3>5
  <2>3. CASE j = keep
    <3>1. i # keep /\ i \in g.live \ {keep, gone} /\ i < keep /\ Written(h, i) = Written(g, i)
      BY <1>3, <1>4, <1>8, <2>0, <2>3
    <3>2. SetFit(I, OriginsOf(Written(g, i)), OriginsOf(Written(g, gone)))
      BY <3>1 DEF Apart
    <3>3. SetFit(I, OriginsOf(Written(g, i)), OriginsOf(Written(g, keep)))
      BY <3>1 DEF OrderedGraph
    <3>4. SetFit(I, OriginsOf(Written(g, i)), OriginsOf(Written(g, keep)) \cup OriginsOf(Written(g, gone)))
      BY <3>2, <3>3, FitUnions
    <3>5. SetFit(I, OriginsOf(Written(g, i)), c.origin)
      BY <3>4, FitParts
    <3> QED
      BY <1>7, <2>3, <3>1, <3>5
  <2> QED
    BY <2>1, <2>2, <2>3
<1>9. OrderedGraph(I, h)
  <2>1. \A i \in h.live : TracedStream(I, Written(h, i))
    BY <1>3, <1>4, <1>7 DEF OrderedGraph
  <2> QED
    BY <1>8, <2>1 DEF OrderedGraph
<1>10. NodesWired(h)
  <2>1. \A i, j \in h.live : Walls(h, i) => Spans(h, i, j)
    <3>1. \A i, j \in h.live : Spans(h, i, j) <=> Spans(g, i, j)
      BY <1>1, <1>2 DEF Spans
    <3> QED
      BY <1>3, <1>4, <1>6, <3>1 DEF NodesWired
  <2>2. \A i \in h.live : ~ IsRegionNode(h, i) => h.cmd[i].gate \notin Markers
    <3>1. \A i \in h.live : IsRegionNode(h, i) <=> IsRegionNode(g, i)
      BY <1>1, <1>2 DEF IsRegionNode
    <3> QED
      BY <1>3, <1>4, <1>6, <3>1 DEF NodesWired
  <2>3. \A i \in h.live : IsRegionNode(h, i) => Len(h.span[i]) >= 2
    BY <1>1, <1>2, <1>3 DEF NodesWired, IsRegionNode
  <2> QED
    BY <2>1, <2>2, <2>3 DEF NodesWired
<1>11. GraphOrigins(h) \subseteq GraphOrigins(g)
  <2>1. \A i \in h.live : OriginsOf(Written(h, i)) \subseteq GraphOrigins(g)
    BY <1>3, <1>4, <1>7 DEF GraphOrigins
  <2> QED
    BY <2>1 DEF GraphOrigins
<1> QED
  BY <1>9, <1>10, <1>11 DEF Fitted

LEMMA SpanFitted ==
  ASSUME NEW I, NEW g, IsExact(g), ShapedGraph(g), OrderedGraph(I, g), NodesWired(g),
         NEW id \in g.live, IsRegionNode(g, id),
         NEW s, TracedStream(I, s), OriginsOf(s) \subseteq OriginsOf(g.span[id]), Len(s) >= 2, s # <<>>,
         NEW h, h = ReplaceSpan(g, id, s)
  PROVE  Fitted(I, g, h)
<1>1. h.live = g.live /\ h.cmd = g.cmd /\ h.wires = g.wires /\ h.span = [g.span EXCEPT ![id] = s]
  <2>1. g = [live |-> g.live, wires |-> g.wires, cmd |-> g.cmd, span |-> g.span,
             prev |-> g.prev, next |-> g.next]
    BY DEF IsExact, IsGraph
  <2>2. h = [g EXCEPT !.span = [g.span EXCEPT ![id] = s]]
    BY <2>1 DEF ReplaceSpan
  <2> DEFINE n == [g.span EXCEPT ![id] = s]
  <2> HIDE DEF n
  <2>3. h = [g EXCEPT !.span = n]
    BY <2>2 DEF n
  <2>4. h.live = g.live /\ h.cmd = g.cmd /\ h.wires = g.wires /\ h.span = n
    BY <2>1, <2>3
  <2> QED
    BY <2>4 DEF n
<1>2. g.live \subseteq DOMAIN g.span
  BY DEF ShapedGraph
<1>3. h.span[id] = s /\ \A i \in g.live : i # id => h.span[i] = g.span[i]
  BY <1>1, <1>2
<1>4. ASSUME NEW i \in g.live
      PROVE  /\ IsRegionNode(h, i) <=> IsRegionNode(g, i)
             /\ IsRegionNode(h, i) => Len(h.span[i]) >= 2
             /\ Walls(h, i) <=> Walls(g, i)
             /\ TracedStream(I, Written(h, i))
             /\ OriginsOf(Written(h, i)) \subseteq OriginsOf(Written(g, i))
  <2>1. CASE i = id
    <3>1. IsRegionNode(h, i) /\ Written(h, i) = s /\ Written(g, i) = g.span[id]
      BY <1>3, <2>1 DEF IsRegionNode, Written
    <3> QED
      BY <1>3, <2>1, <3>1 DEF Walls
  <2>2. CASE i # id
    <3>1. h.span[i] = g.span[i] /\ h.cmd[i] = g.cmd[i]
      BY <1>1, <1>3, <2>2
    <3>2. IsRegionNode(h, i) <=> IsRegionNode(g, i)
      BY <3>1 DEF IsRegionNode
    <3>3. Written(h, i) = Written(g, i)
      BY <3>1, <3>2 DEF Written
    <3>4. IsRegionNode(g, i) => Len(g.span[i]) >= 2
      BY DEF NodesWired
    <3>5. TracedStream(I, Written(g, i))
      BY DEF OrderedGraph
    <3> QED
      BY <3>1, <3>2, <3>3, <3>4, <3>5 DEF Walls
  <2> QED
    BY <2>1, <2>2
<1>5. OrderedGraph(I, h)
  <2>1. ASSUME NEW i \in h.live, NEW j \in h.live, i < j
        PROVE  SetFit(I, OriginsOf(Written(h, i)), OriginsOf(Written(h, j)))
    <3>1. i \in g.live /\ j \in g.live
      BY <1>1
    <3>2. SetFit(I, OriginsOf(Written(g, i)), OriginsOf(Written(g, j)))
      BY <2>1, <3>1 DEF OrderedGraph
    <3>3. /\ OriginsOf(Written(h, i)) \subseteq OriginsOf(Written(g, i))
          /\ OriginsOf(Written(h, j)) \subseteq OriginsOf(Written(g, j))
      BY <1>4, <3>1
    <3> QED
      BY <3>2, <3>3, FitParts
  <2> QED
    BY <1>1, <1>4, <2>1 DEF OrderedGraph
<1>6. NodesWired(h)
  <2>1. \A i, j : Spans(h, i, j) <=> Spans(g, i, j)
    BY <1>1 DEF Spans
  <2>2. \A i, j \in h.live : Walls(h, i) => Spans(h, i, j)
    BY <1>1, <1>4, <2>1 DEF NodesWired
  <2>3. \A i \in h.live : ~ IsRegionNode(h, i) => h.cmd[i].gate \notin Markers
    BY <1>1, <1>4 DEF NodesWired
  <2> QED
    BY <1>1, <1>4, <2>2, <2>3 DEF NodesWired
<1>7. GraphOrigins(h) \subseteq GraphOrigins(g)
  BY <1>1, <1>4 DEF GraphOrigins
<1> QED
  BY <1>5, <1>6, <1>7 DEF Fitted

-----------------------------------------------------------------------------
(* Branch regions                                                           *)

\* The bodies of a region are pieces of it, in order.
LEMMA BodiesFrom ==
  ASSUME NEW I, NEW s, Keeps(I, s)
  PROVE  /\ \A k \in DOMAIN Bodies(s) : Keeps(I, Bodies(s)[k]) /\ Range(Bodies(s)[k]) \subseteq Range(s)
         /\ ElseAt(s) = {} => /\ DOMAIN Bodies(s) = {1} /\ Len(Bodies(s)) = 1
                              /\ From(s, Bodies(s)[1], 2, Len(s) - 1)
         /\ \A e : IsElse(s, e) => /\ DOMAIN Bodies(s) = {1, 2} /\ Len(Bodies(s)) = 2
                                   /\ From(s, Bodies(s)[1], 2, e - 1)
                                   /\ From(s, Bodies(s)[2], e + 1, Len(s) - 1)
<1>1. Len(s) \in Nat /\ Listed(s)
  BY ListedLen DEF Keeps
<1>2. CASE ElseAt(s) = {}
  <2> DEFINE n == Len(s) - 1
             b == SubSeq(s, 2, n)
  <2>1. 2 \in Nat \ {0} /\ n \in Int /\ n =< Len(s)
    BY <1>1
  <2>2. Bodies(s) = <<b>>
    BY <1>2 DEF Bodies
  <2> HIDE DEF n
  <2>3. IsSub(b, s, 2, n)
    BY DEF IsSub
  <2> HIDE DEF b
  <2>4. Keeps(I, b) /\ Range(b) \subseteq Range(s) /\ From(s, b, 2, n)
    BY <2>1, <2>3, PartKept
  <2>5. DOMAIN <<b>> = {1} /\ <<b>>[1] = b /\ Len(<<b>>) = 1
    BY OneListed
  <2>6. \A e : ~ IsElse(s, e)
    BY <1>2 DEF IsElse
  <2> QED
    BY <1>2, <2>2, <2>4, <2>5, <2>6 DEF n
<1>3. CASE ElseAt(s) # {}
  <2> DEFINE e == CHOOSE i \in ElseAt(s) : \A j \in ElseAt(s) : i =< j
             n == Len(s) - 1
             l == e - 1
             m == e + 1
             b == SubSeq(s, 2, l)
             c == SubSeq(s, m, n)
  <2>1. IsElse(s, e)
    BY <1>3, ElseFound
  <2>2. Bodies(s) = <<b, c>>
    BY <1>3 DEF Bodies
  <2> HIDE DEF e
  <2>3. e \in 2 .. Len(s) - 1
    BY <2>1 DEF IsElse, ElseAt
  <2>4. /\ 2 \in Nat \ {0} /\ l \in Int /\ l =< Len(s)
        /\ m \in Nat \ {0} /\ n \in Int /\ n =< Len(s)
    BY <1>1, <2>3
  <2>5. \A f : IsElse(s, f) => f = e
    BY <2>1, <1>1 DEF IsElse, ElseAt
  <2> HIDE DEF l, m, n
  <2>6. IsSub(b, s, 2, l) /\ IsSub(c, s, m, n)
    BY DEF IsSub
  <2> HIDE DEF b, c
  <2>7. Keeps(I, b) /\ Range(b) \subseteq Range(s) /\ From(s, b, 2, l)
    BY <2>4, <2>6, PartKept
  <2>8. Keeps(I, c) /\ Range(c) \subseteq Range(s) /\ From(s, c, m, n)
    BY <2>4, <2>6, PartKept
  <2>9. DOMAIN <<b, c>> = {1, 2} /\ <<b, c>>[1] = b /\ <<b, c>>[2] = c /\ Len(<<b, c>>) = 2
    OBVIOUS
  <2> QED
    BY <1>3, <2>2, <2>5, <2>7, <2>8, <2>9 DEF l, m, n
<1> QED
  BY <1>2, <1>3

\* The bodies of a region keep the order, and so do streams joined in order.
LEMMA BodiesTraced ==
  ASSUME NEW I, NEW s, TracedStream(I, s)
  PROVE  \A k \in DOMAIN Bodies(s) :
           TracedStream(I, Bodies(s)[k]) /\ OriginsOf(Bodies(s)[k]) \subseteq OriginsOf(s)
<1>1. \A k \in DOMAIN Bodies(s) : Keeps(I, Bodies(s)[k]) /\ Range(Bodies(s)[k]) \subseteq Range(s)
  BY BodiesFrom DEF TracedStream
<1> QED
  BY <1>1, OriginsWithin DEF TracedStream

LEMMA OneTraced ==
  ASSUME NEW I, NEW c, Traced(I, c)
  PROVE  TracedStream(I, <<c>>) /\ OriginsOf(<<c>>) = c.origin /\ Listed(<<c>>) /\ Len(<<c>>) = 1
<1>1. Listed(<<c>>) /\ Range(<<c>>) = {c}
  BY OneRange
<1>2. Keeps(I, <<c>>) /\ OriginsOf(<<c>>) = c.origin
  BY OneKept
<1>3. Len(<<c>>) = 1
  OBVIOUS
<1> QED
  BY <1>1, <1>2, <1>3 DEF TracedStream

\* c is a and b joined.
TracedJoin(I, c, a, b) ==
  /\ TracedStream(I, c) /\ OriginsOf(c) = OriginsOf(a) \cup OriginsOf(b)
  /\ Len(c) = Len(a) + Len(b) /\ Len(a) \in Nat /\ Len(b) \in Nat

LEMMA JoinTraced ==
  ASSUME NEW I, NEW a, TracedStream(I, a), NEW b, TracedStream(I, b),
         SetFit(I, OriginsOf(a), OriginsOf(b)), NEW c, IsJoin(c, a, b)
  PROVE  TracedJoin(I, c, a, b)
<1>1. Keeps(I, a) /\ Keeps(I, b) /\ Listed(a) /\ Listed(b)
  BY DEF TracedStream, Keeps
<1>2. Keeps(I, c) /\ Range(c) = Range(a) \cup Range(b) /\ OriginsOf(c) = OriginsOf(a) \cup OriginsOf(b)
  BY <1>1, JoinKept
<1>3. Len(c) = Len(a) + Len(b)
  BY <1>1, ListedJoin DEF IsJoin
<1> QED
  BY <1>1, <1>2, <1>3, ListedLen DEF TracedStream, TracedJoin

\* Bodies that hold nothing new, put back between the markers.
LEMMA RebuiltTraced ==
  ASSUME NEW I, NEW s, TracedStream(I, s), Len(s) >= 2, NEW bodies, Listed(bodies),
         \A k \in DOMAIN bodies :
           TracedStream(I, bodies[k]) /\ OriginsOf(bodies[k]) \subseteq OriginsOf(Bodies(s)[k]),
         Len(bodies) = Len(Bodies(s))
  PROVE  /\ TracedStream(I, Rebuilt(s, bodies)) /\ OriginsOf(Rebuilt(s, bodies)) \subseteq OriginsOf(s)
         /\ Len(Rebuilt(s, bodies)) >= 2
<1>1. /\ Keeps(I, s) /\ Listed(s) /\ Len(s) \in Nat /\ DOMAIN s = 1 .. Len(s)
      /\ DOMAIN bodies = 1 .. Len(bodies)
  BY ListedLen DEF TracedStream, Keeps
<1> DEFINE N == Len(s)
           x == s[1]
           y == s[N]
           u == <<x>>
           w == <<y>>
<1>2. 1 \in DOMAIN s /\ N \in DOMAIN s /\ N \in Nat /\ N >= 2
  BY <1>1
<1>3. x \in Range(s) /\ y \in Range(s)
  BY <1>2 DEF Range
<1>4. From(s, u, 1, 1) /\ From(s, w, N, N)
  BY <1>1, <1>2, OneFrom
<1> HIDE DEF N
<1>5. Traced(I, x) /\ Traced(I, y)
  BY <1>3 DEF TracedStream
<1>6. x.origin \subseteq OriginsOf(s) /\ y.origin \subseteq OriginsOf(s)
  BY <1>3 DEF OriginsOf
<1> HIDE DEF x, y
<1>7. /\ TracedStream(I, u) /\ OriginsOf(u) = x.origin /\ Len(u) = 1
      /\ TracedStream(I, w) /\ OriginsOf(w) = y.origin /\ Len(w) = 1
  BY <1>5, OneTraced
<1> HIDE DEF u, w
<1>8. \A k \in DOMAIN Bodies(s) : OriginsOf(Bodies(s)[k]) \subseteq OriginsOf(s)
  BY BodiesTraced
<1>9. CASE ElseAt(s) = {}
  <2>1. /\ DOMAIN Bodies(s) = {1} /\ Len(Bodies(s)) = 1
        /\ From(s, Bodies(s)[1], 2, Len(s) - 1)
    BY <1>1, <1>9, BodiesFrom
  <2>2. 1 \in DOMAIN bodies /\ Len(bodies) = 1
    BY <1>1, <2>1
  <2> DEFINE b == bodies[1]
             o == Bodies(s)[1]
             n == N - 1
             p == u \o b
             z == p \o w
  <2>3. Rebuilt(s, bodies) = z
    BY <2>2 DEF Rebuilt, u, w, x, y, N
  <2>4. TracedStream(I, b) /\ OriginsOf(b) \subseteq OriginsOf(o) /\ OriginsOf(o) \subseteq OriginsOf(s)
    BY <1>8, <2>1, <2>2
  <2>5. From(s, o, 2, n) /\ n \in Int /\ n < N /\ 1 < 2
    BY <1>2, <2>1 DEF N
  <2> HIDE DEF b, o, n
  <2>6. SetFit(I, OriginsOf(u), OriginsOf(o)) /\ SetFit(I, OriginsOf(o), OriginsOf(w))
        /\ SetFit(I, OriginsOf(u), OriginsOf(w))
    <3>1. SetFit(I, OriginsOf(u), OriginsOf(o))
      BY <1>1, <1>4, <2>5, FromFit
    <3>2. SetFit(I, OriginsOf(o), OriginsOf(w))
      BY <1>1, <1>2, <1>4, <2>5, FromFit
    <3>3. SetFit(I, OriginsOf(u), OriginsOf(w))
      BY <1>1, <1>2, <1>4, FromFit
    <3> QED
      BY <3>1, <3>2, <3>3
  <2>7. SetFit(I, OriginsOf(u), OriginsOf(b)) /\ SetFit(I, OriginsOf(b), OriginsOf(w))
    BY <2>4, <2>6, FitParts
  <2>8. IsJoin(p, u, b) /\ IsJoin(z, p, w)
    BY DEF IsJoin
  <2> HIDE DEF p, z
  <2>9. /\ TracedStream(I, p) /\ OriginsOf(p) = OriginsOf(u) \cup OriginsOf(b)
        /\ Len(p) = Len(u) + Len(b) /\ Len(b) \in Nat
    <3>1. TracedJoin(I, p, u, b)
      BY <1>7, <2>4, <2>7, <2>8, JoinTraced
    <3> QED
      BY <3>1 DEF TracedJoin
  <2>10. SetFit(I, OriginsOf(p), OriginsOf(w))
    BY <2>6, <2>7, <2>9 DEF SetFit
  <2>11. /\ TracedStream(I, z) /\ OriginsOf(z) = OriginsOf(p) \cup OriginsOf(w)
         /\ Len(z) = Len(p) + Len(w)
    <3>1. TracedJoin(I, z, p, w)
      BY <1>7, <2>8, <2>9, <2>10, JoinTraced
    <3> QED
      BY <3>1 DEF TracedJoin
  <2>12. Len(z) >= 2
    BY <1>7, <2>9, <2>11
  <2> QED
    BY <1>6, <1>7, <2>3, <2>4, <2>9, <2>11, <2>12
<1>10. CASE ElseAt(s) # {}
  <2> DEFINE e == CHOOSE i \in ElseAt(s) : \A j \in ElseAt(s) : i =< j
             l == e - 1
             m == e + 1
             n == N - 1
             t == s[e]
             v == <<t>>
             b == bodies[1]
             c == bodies[2]
             o == Bodies(s)[1]
             a == Bodies(s)[2]
             p == u \o b
             q == p \o v
             r == q \o c
             z == r \o w
  <2>1. IsElse(s, e)
    BY <1>10, ElseFound
  <2>2. /\ DOMAIN Bodies(s) = {1, 2} /\ Len(Bodies(s)) = 2
        /\ From(s, o, 2, l) /\ From(s, a, m, n)
    BY <1>1, <2>1, BodiesFrom DEF N
  <2>3. Len(bodies) = 2 /\ 1 \in DOMAIN bodies /\ 2 \in DOMAIN bodies
    BY <1>1, <2>2
  <2>4. Rebuilt(s, bodies) = z
    BY <2>3 DEF Rebuilt, u, w, x, y, N
  <2> HIDE DEF e
  <2>5. e \in 2 .. N - 1 /\ e \in DOMAIN s
    BY <2>1, <1>1 DEF IsElse, ElseAt, N
  <2>6. From(s, v, e, e)
    BY <1>1, <2>5, OneFrom
  <2>7. t \in Range(s)
    BY <2>5 DEF Range
  <2>8. /\ e \in Int /\ l \in Int /\ m \in Int /\ n \in Int /\ N \in Int
        /\ 1 < 2 /\ 1 < e /\ 1 < m /\ 1 < N
        /\ l < e /\ l < m /\ l < N
        /\ e < m /\ e < N /\ n < N
    BY <1>2, <2>5
  <2>9. Traced(I, t) /\ t.origin \subseteq OriginsOf(s)
    BY <2>7 DEF TracedStream, OriginsOf
  <2>10. /\ TracedStream(I, b) /\ OriginsOf(b) \subseteq OriginsOf(o) /\ OriginsOf(o) \subseteq OriginsOf(s)
         /\ TracedStream(I, c) /\ OriginsOf(c) \subseteq OriginsOf(a) /\ OriginsOf(a) \subseteq OriginsOf(s)
    BY <1>8, <2>2, <2>3
  <2> HIDE DEF t, l, m, n, b, c, o, a
  <2>11. TracedStream(I, v) /\ OriginsOf(v) = t.origin /\ Len(v) = 1
    BY <2>9, OneTraced
  <2> HIDE DEF v
  <2>12. /\ SetFit(I, OriginsOf(u), OriginsOf(o)) /\ SetFit(I, OriginsOf(u), OriginsOf(v))
         /\ SetFit(I, OriginsOf(u), OriginsOf(a)) /\ SetFit(I, OriginsOf(u), OriginsOf(w))
    <3>1. 1 \in Int /\ 2 \in Int
      OBVIOUS
    <3> QED
      BY <3>1, <1>1, <1>4, <2>2, <2>6, <2>8, FromFit
  <2>13. /\ SetFit(I, OriginsOf(o), OriginsOf(v)) /\ SetFit(I, OriginsOf(o), OriginsOf(a))
         /\ SetFit(I, OriginsOf(o), OriginsOf(w))
    BY <1>1, <1>4, <2>2, <2>6, <2>8, FromFit
  <2>14. SetFit(I, OriginsOf(v), OriginsOf(a)) /\ SetFit(I, OriginsOf(v), OriginsOf(w))
    BY <1>1, <1>4, <2>2, <2>6, <2>8, FromFit
  <2>15. SetFit(I, OriginsOf(a), OriginsOf(w))
    BY <1>1, <1>4, <2>2, <2>8, FromFit
  <2>16. /\ SetFit(I, OriginsOf(u), OriginsOf(b)) /\ SetFit(I, OriginsOf(u), OriginsOf(c))
         /\ SetFit(I, OriginsOf(b), OriginsOf(v)) /\ SetFit(I, OriginsOf(b), OriginsOf(c))
         /\ SetFit(I, OriginsOf(b), OriginsOf(w)) /\ SetFit(I, OriginsOf(v), OriginsOf(c))
         /\ SetFit(I, OriginsOf(c), OriginsOf(w))
    BY <2>10, <2>12, <2>13, <2>14, <2>15, FitParts
  <2>17. IsJoin(p, u, b) /\ IsJoin(q, p, v) /\ IsJoin(r, q, c) /\ IsJoin(z, r, w)
    BY DEF IsJoin
  <2> HIDE DEF p, q, r, z
  <2>18. /\ TracedStream(I, p) /\ OriginsOf(p) = OriginsOf(u) \cup OriginsOf(b)
         /\ Len(p) = Len(u) + Len(b) /\ Len(b) \in Nat
    <3>1. TracedJoin(I, p, u, b)
      BY <1>7, <2>10, <2>16, <2>17, JoinTraced
    <3> QED
      BY <3>1 DEF TracedJoin
  <2>19. SetFit(I, OriginsOf(p), OriginsOf(v))
    BY <2>12, <2>16, <2>18 DEF SetFit
  <2>20. /\ TracedStream(I, q) /\ OriginsOf(q) = OriginsOf(p) \cup OriginsOf(v)
         /\ Len(q) = Len(p) + Len(v)
    <3>1. TracedJoin(I, q, p, v)
      BY <2>11, <2>17, <2>18, <2>19, JoinTraced
    <3> QED
      BY <3>1 DEF TracedJoin
  <2>21. SetFit(I, OriginsOf(q), OriginsOf(c))
    <3>1. SetFit(I, OriginsOf(p), OriginsOf(c))
      BY <2>16, <2>18 DEF SetFit
    <3> QED
      BY <3>1, <2>16, <2>20 DEF SetFit
  <2>22. /\ TracedStream(I, r) /\ OriginsOf(r) = OriginsOf(q) \cup OriginsOf(c)
         /\ Len(r) = Len(q) + Len(c) /\ Len(c) \in Nat
    <3>1. TracedJoin(I, r, q, c)
      BY <2>10, <2>17, <2>20, <2>21, JoinTraced
    <3> QED
      BY <3>1 DEF TracedJoin
  <2>23. SetFit(I, OriginsOf(r), OriginsOf(w))
    <3>1. SetFit(I, OriginsOf(p), OriginsOf(w))
      BY <2>12, <2>16, <2>18 DEF SetFit
    <3>2. SetFit(I, OriginsOf(q), OriginsOf(w))
      BY <3>1, <2>14, <2>20 DEF SetFit
    <3> QED
      BY <3>2, <2>16, <2>22 DEF SetFit
  <2>24. /\ TracedStream(I, z) /\ OriginsOf(z) = OriginsOf(r) \cup OriginsOf(w)
         /\ Len(z) = Len(r) + Len(w)
    <3>1. TracedJoin(I, z, r, w)
      BY <1>7, <2>17, <2>22, <2>23, JoinTraced
    <3> QED
      BY <3>1 DEF TracedJoin
  <2>25. Len(z) >= 2
    BY <1>7, <2>11, <2>18, <2>20, <2>22, <2>24
  <2>26. OriginsOf(z) \subseteq OriginsOf(s)
    BY <1>6, <1>7, <2>9, <2>10, <2>11, <2>18, <2>20, <2>22, <2>24
  <2> QED
    BY <2>4, <2>24, <2>25, <2>26
<1> QED
  BY <1>9, <1>10

-----------------------------------------------------------------------------
(* Merging                                                                  *)

\* A command on the same operands and bits stands for the same commands.
LEMMA ResemblesFields ==
  ASSUME NEW x, NEW a, Resembles(x, a), NEW c, c.gate = a.gate, c.qubits = a.qubits,
         c.cbits = a.cbits, c.bits = a.bits
  PROVE  Resembles(x, c)
<1>1. Operands(c) = Operands(a)
  BY DEF Operands
<1> QED
  BY <1>1 DEF Resembles

\* The merged rotation stands for what its two parts stood for.
LEMMA MergedTraced ==
  ASSUME NEW I, NEW a, NEW b, Traced(I, a), Traced(I, b), CanMerge(a, b), NEW c \in {a, b},
         NEW m, m = Merged(a, b, c)
  PROVE  /\ Traced(I, m) /\ m.origin = a.origin \cup b.origin
         /\ m.gate = c.gate /\ m.qubits = c.qubits /\ m.cbits = c.cbits /\ m.cond = c.cond
<1>1. Shaped(a) /\ Shaped(b) /\ Factory(a) /\ Factory(b) /\ Shaped(c) /\ Factory(c)
  BY DEF Traced
<1>2. Shaped(m) /\ m.gate = c.gate /\ m.qubits = c.qubits /\ m.cbits = c.cbits /\ m.cond = c.cond
  BY <1>1, MergedOnto
<1>3. m.origin = a.origin \cup b.origin
  <2> DEFINE p == <<SumParam(a.params[1], b.params[1])>>
             o == a.origin \cup b.origin
  <2>1. m = [c EXCEPT !.params = p, !.origin = o]
    BY DEF Merged
  <2> HIDE DEF p, o
  <2>2. m = CommandOf(c.gate, c.qubits, p, c.cbits, c.cond, c.factors, o)
    BY <1>1, <2>1, MergeForm
  <2>3. m.origin = o
    BY <2>2, Fields
  <2> QED
    BY <2>3 DEF o
<1>4. Factory(m)
  BY <1>1, <1>2 DEF Factory
<1>5. m.bits = c.bits
  <2>1. /\ m.bits = Range(m.cbits) \cup {m.cond[i][1] : i \in DOMAIN m.cond}
        /\ c.bits = Range(c.cbits) \cup {c.cond[i][1] : i \in DOMAIN c.cond}
    BY <1>1, <1>2, ShapedBits
  <2>2. m.cbits = c.cbits /\ m.cond = c.cond
    BY <1>2
  <2> QED
    BY <2>1, <2>2
<1>6. Resembles(a, b) /\ Resembles(b, a) /\ Resembles(a, a) /\ Resembles(b, b)
  BY <1>1, MergeResembles, ResembleBack, ResembleItself DEF Shaped
<1>7. ASSUME NEW p \in m.origin PROVE Resembles(I[p], m)
  <2>1. \/ Resembles(I[p], a)
        \/ Resembles(I[p], b)
    BY <1>3 DEF Traced
  <2>2. Resembles(a, c) /\ Resembles(b, c)
    BY <1>6
  <2>3. Resembles(I[p], c)
    BY <2>1, <2>2, ResembleOn
  <2> QED
    BY <1>2, <1>5, <2>3, ResemblesFields
<1> QED
  BY <1>2, <1>3, <1>4, <1>7 DEF Traced

\* Two commands on different wires, neither of them a wall.
LEMMA WiresApart ==
  ASSUME NEW g, ShapedGraph(g), NodesWired(g), NEW i \in g.live, NEW j \in g.live,
         ~ Walls(g, i), ~ Walls(g, j), g.wires[i] \cap g.wires[j] = {}
  PROVE  ~ Conflict(g.cmd[i], g.cmd[j])
<1> DEFINE a == g.cmd[i]
           b == g.cmd[j]
<1>1. ASSUME NEW k \in g.live, ~ Walls(g, k)
      PROVE  /\ g.cmd[k].gate \notin Markers /\ ~ IsFence(g.cmd[k])
             /\ \A q \in Operands(g.cmd[k]) : <<"qubit", q>> \in g.wires[k]
             /\ \A x \in g.cmd[k].bits : <<"cbit", x>> \in g.wires[k]
             /\ Range(g.cmd[k].cbits) \subseteq g.cmd[k].bits
  <2>1. ~ IsRegionNode(g, k) /\ ~ IsFence(g.cmd[k])
    BY <1>1 DEF Walls
  <2>2. Shaped(g.cmd[k]) /\ g.wires[k] = Range(WireSeq(g.cmd[k]))
    BY <2>1 DEF ShapedGraph
  <2>3. Range(WireSeq(g.cmd[k])) = {<<"qubit", q>> : q \in Operands(g.cmd[k])}
              \cup {<<"cbit", z>> : z \in g.cmd[k].bits}
              \cup (IF g.cmd[k].gate = "GPhase" THEN {GlobalWire} ELSE {})
    BY <2>2, WireSeqRange
  <2>4. g.cmd[k].gate \notin Markers
    BY <2>1 DEF NodesWired
  <2>5. Range(g.cmd[k].cbits) \subseteq g.cmd[k].bits
    BY <2>2, ShapedBits
  <2> QED
    BY <2>1, <2>2, <2>3, <2>4, <2>5
<1>2. /\ a.gate \notin Markers /\ ~ IsFence(a) /\ b.gate \notin Markers /\ ~ IsFence(b)
      /\ \A q \in Operands(a) : <<"qubit", q>> \in g.wires[i]
      /\ \A q \in Operands(b) : <<"qubit", q>> \in g.wires[j]
      /\ \A x \in a.bits : <<"cbit", x>> \in g.wires[i]
      /\ \A x \in b.bits : <<"cbit", x>> \in g.wires[j]
      /\ Range(a.cbits) \subseteq a.bits /\ Range(b.cbits) \subseteq b.bits
  BY <1>1
<1> HIDE DEF a, b
<1>3. Operands(a) \cap Operands(b) = {} /\ a.bits \cap b.bits = {}
  BY <1>2
<1>4. ~ Conflict(a, b)
  BY <1>2, <1>3 DEF Conflict, FencesAll
<1> QED
  BY <1>4 DEF a, b

\* A command that merges is on some quantum wire, so no wall stands beside it.
LEMMA MergeNoWall ==
  ASSUME NEW g, ShapedGraph(g), NodesWired(g), NEW i \in g.live, ~ IsRegionNode(g, i),
         g.cmd[i].gate \in Additive
  PROVE  /\ ~ Walls(g, i)
         /\ \A j \in g.live : g.wires[i] \cap g.wires[j] = {} => ~ Walls(g, j)
<1> DEFINE c == g.cmd[i]
<1>1. Shaped(c) /\ ~ IsFence(c)
  BY DEF ShapedGraph, IsFence, Additive
<1>2. ~ Walls(g, i)
  BY <1>1 DEF Walls
<1>3. \E w \in g.wires[i] : w[1] # "cbit"
  <2>1. g.wires[i] = Range(WireSeq(c))
    BY <1>1 DEF ShapedGraph
  <2>2. Range(WireSeq(c)) = {<<"qubit", q>> : q \in Operands(c)}
              \cup {<<"cbit", b>> : b \in c.bits}
              \cup (IF c.gate = "GPhase" THEN {GlobalWire} ELSE {})
    BY <1>1, WireSeqRange
  <2>3. CASE c.gate = "GPhase"
    <3>1. GlobalWire \in g.wires[i]
      BY <2>1, <2>2, <2>3
    <3>2. GlobalWire[1] # "cbit"
      BY DEF GlobalWire
    <3> QED
      BY <3>1, <3>2
  <2>4. CASE c.gate # "GPhase"
    <3>1. c.qubits # <<>>
      BY <1>1, <2>4 DEF Shaped, HasOperands, Additive, Markers
    <3>2. 1 \in DOMAIN c.qubits
      BY <1>1, <3>1 DEF Shaped, Listed
    <3>3. c.qubits[1] \in Operands(c)
      BY <3>2 DEF Operands
    <3>4. <<"qubit", c.qubits[1]>> \in g.wires[i]
      BY <2>1, <2>2, <3>3
    <3> QED
      BY <3>4
  <2> QED
    BY <2>3, <2>4
<1>4. ASSUME NEW j \in g.live, Walls(g, j), g.wires[i] \cap g.wires[j] = {} PROVE FALSE
  <2>1. Spans(g, j, i)
    BY <1>4 DEF NodesWired
  <2> QED
    BY <1>3, <1>4, <2>1 DEF Spans
<1> QED
  BY <1>2, <1>4

\* What a traced node stands for.
LEMMA NodeTraced ==
  ASSUME NEW I, NEW g, OrderedGraph(I, g), NEW i \in g.live, ~ IsRegionNode(g, i)
  PROVE  Traced(I, g.cmd[i]) /\ OriginsOf(Written(g, i)) = g.cmd[i].origin
<1> DEFINE c == g.cmd[i]
<1>1. Written(g, i) = <<c>>
  BY DEF Written
<1> HIDE DEF c
<1>2. Range(<<c>>) = {c} /\ OriginsOf(<<c>>) = c.origin
  BY OneRange, OneKept
<1>3. TracedStream(I, <<c>>)
  BY <1>1 DEF OrderedGraph
<1> QED
  BY <1>1, <1>2, <1>3 DEF TracedStream, c

\* The next node with which a rotation merges is the next one on its wires.
LEMMA AdjacentApart ==
  ASSUME NEW I, NEW g, IsExact(g), ShapedGraph(g), OrderedGraph(I, g), NodesWired(g),
         NEW id, CombinesWithNext(g, id), CanMerge(g.cmd[id], g.cmd[Follower(g, id)])
  PROVE  Apart(I, g, id, Follower(g, id))
<1> DEFINE b == Follower(g, id)
           x == g.cmd[id]
           y == g.cmd[b]
<1>1. id \in g.live /\ b \in g.live /\ ~ IsRegionNode(g, id) /\ ~ IsRegionNode(g, b) /\ WireAdjacent(g, id, b)
  BY FollowerFacts DEF CombinesWithNext, Rewritable, WireAdjacent
<1>2. g.live \subseteq Nat
  BY DEF IsExact, IsGraph
<1>3. x.gate \in Additive
  BY DEF CanMerge
<1>4. ~ Walls(g, id) /\ \A j \in g.live : g.wires[id] \cap g.wires[j] = {} => ~ Walls(g, j)
  BY <1>1, <1>3, MergeNoWall
<1>5. /\ Traced(I, x) /\ Traced(I, y)
      /\ OriginsOf(Written(g, b)) = y.origin
  BY <1>1, NodeTraced
<1>6. Resembles(x, y)
  BY <1>5, MergeResembles DEF Traced
<1>7. CanMerge(x, y)
  OBVIOUS
<1>8. \A w \in g.wires[id] : IsSucc(g, id, w, b) /\ b # 0
  BY <1>1 DEF IsExact, LinksExact, WireAdjacent
<1>9. id < b
  <2>1. WireSeq(g.cmd[id])[1] \in g.wires[id]
    BY FollowerFacts
  <2> QED
    BY <1>8, <2>1 DEF IsSucc, LiveAfter
<1> HIDE DEF b, x, y
<1>10. ASSUME NEW j \in g.live, id < j, j < b
       PROVE  SetFit(I, OriginsOf(Written(g, b)), OriginsOf(Written(g, j)))
  <2>1. g.wires[id] \cap g.wires[j] = {}
    <3> SUFFICES ASSUME NEW w \in g.wires[id], w \in g.wires[j] PROVE FALSE
      OBVIOUS
    <3>1. j \in LiveAfter(g, id, w)
      BY <1>10 DEF LiveAfter
    <3>2. b =< j
      BY <1>8, <3>1 DEF IsSucc
    <3> QED
      BY <1>1, <1>2, <1>10, <3>2
  <2>2. ~ Walls(g, j)
    BY <1>4, <2>1
  <2>3. ~ Conflict(x, g.cmd[j])
    BY <1>1, <1>4, <2>1, <2>2, WiresApart DEF x
  <2>4. Traced(I, g.cmd[j]) /\ OriginsOf(Written(g, j)) = g.cmd[j].origin
    BY <2>2, NodeTraced DEF Walls
  <2>5. ~ Conflict(y, g.cmd[j])
    <3>1. Resembles(y, x) /\ Resembles(g.cmd[j], g.cmd[j])
      BY <1>6, <2>4, ResembleBack, ResembleItself DEF Traced, Shaped
    <3> QED
      BY <2>3, <3>1, ConflictAlike
  <2>6. SetFit(I, y.origin, g.cmd[j].origin)
    BY <1>5, <2>4, <2>5, SlideFit
  <2> QED
    BY <1>5, <2>4, <2>6
<1>11. ASSUME NEW j \in g.live \ {id, b}
       PROVE  /\ j < id => SetFit(I, OriginsOf(Written(g, j)), OriginsOf(Written(g, b)))
              /\ id < j => SetFit(I, OriginsOf(Written(g, b)), OriginsOf(Written(g, j)))
  <2>1. CASE j < id
    <3>1. j < b /\ ~ (id < j)
      BY <1>1, <1>2, <1>9, <2>1
    <3> QED
      BY <1>1, <3>1 DEF OrderedGraph
  <2>2. CASE ~ (j < id) /\ j < b
    <3>1. id < j
      BY <1>1, <1>2, <2>2
    <3> QED
      BY <1>10, <2>2, <3>1
  <2>3. CASE ~ (j < id) /\ ~ (j < b)
    <3>1. b < j
      BY <1>1, <1>2, <2>3
    <3> QED
      BY <1>1, <2>3, <3>1 DEF OrderedGraph
  <2> QED
    BY <2>1, <2>2, <2>3
<1> QED
  BY <1>11 DEF Apart, b

-----------------------------------------------------------------------------
(* Sliding a command along its wires                                        *)

\* Counting up to n.
LEMMA StepsReach ==
  ASSUME NEW n \in Nat, NEW P, 0 \in P, \A k \in 1 .. n : k - 1 \in P => k \in P
  PROVE  n \in P
<1> DEFINE Bad == {k \in 0 .. n : k \notin P}
<1> SUFFICES ASSUME n \notin P PROVE FALSE
  OBVIOUS
<1>1. PICK m \in Bad : \A j \in Bad : m =< j
  <2>1. Bad \in SUBSET Nat /\ Bad # {}
    OBVIOUS
  <2> HIDE DEF Bad
  <2> QED
    BY <2>1, LeastExists
<1>2. m \in 1 .. n /\ m \notin P
  BY <1>1
<1>3. m - 1 \in 0 .. n /\ m - 1 \notin Bad
  BY <1>1, <1>2
<1> QED
  BY <1>2, <1>3

\* The walk of commute_and_cancel along one wire, up to the n-th node.
ChainUpTo(f, g, id, w, n) ==
  f = [k \in 0 .. n |->
         IF k = 0 THEN id ELSE IF f[k - 1] = 0 THEN 0 ELSE g.next[f[k - 1]][w]]

\* The walk of commute_and_cancel along a wire.
LEMMA ChainsExist ==
  ASSUME NEW g, NEW id, NEW w, NEW n \in Nat
  PROVE  \E f : ChainUpTo(f, g, id, w, n)
<1> DEFINE Bad == {m \in Nat : ~ \E f : ChainUpTo(f, g, id, w, m)}
<1> SUFFICES ASSUME Bad # {} PROVE FALSE
  OBVIOUS
<1>1. PICK m \in Bad : \A j \in Bad : m =< j
  <2>1. Bad \in SUBSET Nat
    OBVIOUS
  <2> HIDE DEF Bad
  <2> QED
    BY <2>1, LeastExists
<1>2. m \in Nat /\ ~ \E f : ChainUpTo(f, g, id, w, m)
  OBVIOUS
<1> DEFINE Further(x) == IF x = 0 THEN 0 ELSE g.next[x][w]
<1>3. CASE m = 0
  <2> DEFINE f == [k \in 0 .. 0 |-> id]
  <2>1. f = [k \in 0 .. 0 |-> IF k = 0 THEN id ELSE Further(f[k - 1])]
    OBVIOUS
  <2>2. ChainUpTo(f, g, id, w, 0)
    BY <2>1 DEF ChainUpTo
  <2> QED
    BY <1>2, <1>3, <2>2
<1>4. CASE m # 0
  <2>1. m - 1 \in Nat /\ ~ (m =< m - 1)
    BY <1>2, <1>4
  <2>2. m - 1 \notin Bad
    <3> HIDE DEF Bad
    <3> QED
      BY <1>1, <2>1
  <2>3. PICK f : ChainUpTo(f, g, id, w, m - 1)
    BY <2>1, <2>2
  <2> DEFINE last == Further(f[m - 1])
             h == [k \in 0 .. m |-> IF k = m THEN last ELSE f[k]]
             J == [k \in 0 .. m - 1 |-> IF k = 0 THEN id ELSE Further(f[k - 1])]
  <2>4. f = J
    BY <2>3 DEF ChainUpTo
  <2>5. \A k \in 0 .. m - 1 : J[k] = IF k = 0 THEN id ELSE Further(f[k - 1])
    OBVIOUS
  <2> HIDE DEF J
  <2>6. \A k \in 0 .. m - 1 : f[k] = IF k = 0 THEN id ELSE Further(f[k - 1])
    BY <2>4, <2>5
  <2> HIDE DEF last
  <2>7. h[m] = last /\ \A k \in 0 .. m - 1 : h[k] = f[k]
    BY <1>2, <2>1
  <2>8. h = [k \in 0 .. m |-> h[k]]
    OBVIOUS
  <2> HIDE DEF h
  <2>9. ASSUME NEW k \in 0 .. m
        PROVE  h[k] = IF k = 0 THEN id ELSE Further(h[k - 1])
    <3>1. CASE k = m
      <4>1. k # 0 /\ h[k - 1] = f[m - 1]
        BY <1>4, <2>1, <2>7, <3>1
      <4> QED
        BY <2>7, <3>1, <4>1 DEF last
    <3>2. CASE k # m
      <4>1. k \in 0 .. m - 1 /\ (k # 0 => k - 1 \in 0 .. m - 1)
        BY <1>2, <3>2
      <4> QED
        BY <2>6, <2>7, <4>1
    <3> QED
      BY <3>1, <3>2
  <2>10. h = [k \in 0 .. m |-> IF k = 0 THEN id ELSE Further(h[k - 1])]
    BY <2>8, <2>9
  <2>11. ChainUpTo(h, g, id, w, m)
    BY <2>10 DEF ChainUpTo
  <2> QED
    BY <1>2, <2>11
<1> QED
  BY <1>3, <1>4

\* n steps along wire w.
Walks(f, g, id, w, n) ==
  /\ f[0] = id
  /\ \A k \in 1 .. n : f[k] = IF f[k - 1] = 0 THEN 0 ELSE g.next[f[k - 1]][w]

LEMMA ChainWalks ==
  ASSUME NEW g, NEW id, NEW w
  PROVE  Walks(Chain(g, id, w), g, id, w, Window + 1)
<1> DEFINE n == Window + 1
           F == CHOOSE f : f = [k \in 0 .. n |->
                  IF k = 0 THEN id ELSE IF f[k - 1] = 0 THEN 0 ELSE g.next[f[k - 1]][w]]
<1>1. n \in Nat
  BY WindowAssumption
<1>2. ChainUpTo(F, g, id, w, n)
  <2>1. PICK f : ChainUpTo(f, g, id, w, n)
    BY <1>1, ChainsExist
  <2> QED
    BY <2>1 DEF ChainUpTo
<1>3. Chain(g, id, w) = F
  BY DEF Chain
<1> HIDE DEF F
<1> DEFINE J == [k \in 0 .. n |->
                   IF k = 0 THEN id ELSE IF F[k - 1] = 0 THEN 0 ELSE g.next[F[k - 1]][w]]
<1>4. F = J
  BY <1>2 DEF ChainUpTo
<1>5. \A k \in 0 .. n :
        J[k] = IF k = 0 THEN id ELSE IF F[k - 1] = 0 THEN 0 ELSE g.next[F[k - 1]][w]
  OBVIOUS
<1> HIDE DEF J, n
<1>6. 0 \in 0 .. n /\ \A k \in 1 .. n : k \in 0 .. n /\ k # 0
  BY <1>1
<1>7. F[0] = id
  BY <1>4, <1>5, <1>6
<1>8. \A k \in 1 .. n : F[k] = IF F[k - 1] = 0 THEN 0 ELSE g.next[F[k - 1]][w]
  BY <1>4, <1>5, <1>6
<1>9. Walks(F, g, id, w, n)
  BY <1>7, <1>8 DEF Walks
<1> QED
  BY <1>3, <1>9 DEF n

\* Where a walk that ends at a node has been: at every node of the wire before it.
LEMMA WalkReaches ==
  ASSUME NEW g, IsExact(g), NEW id \in g.live, NEW w \in g.wires[id], NEW f, NEW n \in Nat \ {0},
         Walks(f, g, id, w, n), f[n] # 0
  PROVE  /\ f[n] \in g.live /\ id < f[n]
         /\ \A j \in g.live : id < j /\ j < f[n] /\ w \in g.wires[j] => \E k \in 1 .. n - 1 : f[k] = j
<1>1. g.live \subseteq Nat \ {0}
  BY DEF IsExact, IsGraph
<1>2. ASSUME NEW k \in 1 .. n, f[k - 1] \in g.live, w \in g.wires[f[k - 1]], f[k] # 0
      PROVE  /\ f[k] \in g.live /\ w \in g.wires[f[k]] /\ f[k - 1] < f[k]
             /\ \A j \in g.live : f[k - 1] < j /\ w \in g.wires[j] => f[k] =< j
  <2>1. f[k - 1] # 0
    BY <1>1, <1>2
  <2>2. f[k] = g.next[f[k - 1]][w]
    BY <2>1 DEF Walks
  <2>3. IsSucc(g, f[k - 1], w, f[k])
    BY <1>2, <2>2 DEF IsExact, LinksExact
  <2> QED
    BY <1>2, <2>3 DEF IsSucc, LiveAfter
<1> DEFINE P == {k \in 0 .. n : f[k] = 0 \/ (f[k] \in g.live /\ w \in g.wires[f[k]] /\ (k = 0 \/ id < f[k]))}
<1>3. ASSUME NEW m \in 0 .. n PROVE m \in P
  <2>1. 0 \in P
    BY DEF Walks
  <2>2. ASSUME NEW k \in 1 .. m, k - 1 \in P PROVE k \in P
    <3>1. k \in 1 .. n /\ k \in 0 .. n /\ k - 1 \in 0 .. n
      OBVIOUS
    <3>2. CASE f[k] = 0
      BY <3>1, <3>2
    <3>3. CASE f[k] # 0
      <4>1. f[k - 1] # 0
        BY <3>1, <3>3 DEF Walks
      <4>2. f[k - 1] \in g.live /\ w \in g.wires[f[k - 1]] /\ (k - 1 = 0 \/ id < f[k - 1])
        BY <2>2, <4>1
      <4>3. f[k] \in g.live /\ w \in g.wires[f[k]] /\ f[k - 1] < f[k]
        BY <1>2, <3>1, <3>3, <4>2
      <4>4. id < f[k]
        <5>1. k - 1 = 0 => f[k - 1] = id
          BY DEF Walks
        <5> QED
          BY <1>1, <4>2, <4>3, <5>1
      <4> QED
        BY <3>1, <4>3, <4>4
    <3> QED
      BY <3>2, <3>3
  <2> HIDE DEF P
  <2> QED
    BY <2>1, <2>2, StepsReach
<1>4. f[n] \in g.live /\ id < f[n]
  <2>1. n \in P /\ n # 0
    BY <1>3
  <2> QED
    BY <2>1
<1>5. ASSUME NEW j \in g.live, id < j, j < f[n], w \in g.wires[j], \A k \in 1 .. n - 1 : f[k] # j
      PROVE  FALSE
  <2> DEFINE Q == {k \in 0 .. n - 1 : f[k] = 0 \/ f[k] < j}
  <2>1. 0 \in Q
    BY <1>5 DEF Walks
  <2>2. ASSUME NEW k \in 1 .. n - 1, k - 1 \in Q PROVE k \in Q
    <3>1. k \in 1 .. n /\ k \in 0 .. n - 1 /\ k - 1 \in 0 .. n
      OBVIOUS
    <3>2. CASE f[k] = 0
      BY <3>1, <3>2
    <3>3. CASE f[k] # 0
      <4>1. f[k - 1] # 0
        BY <3>1, <3>3 DEF Walks
      <4>2. f[k - 1] < j /\ f[k - 1] \in g.live /\ w \in g.wires[f[k - 1]]
        BY <1>3, <2>2, <3>1, <4>1
      <4>3. f[k] =< j /\ f[k] \in g.live /\ f[k] # j
        BY <1>2, <1>5, <3>1, <3>3, <4>2
      <4> QED
        BY <1>1, <3>1, <4>3
    <3> QED
      BY <3>2, <3>3
  <2>3. n - 1 \in Q
    <3>1. n - 1 \in Nat
      OBVIOUS
    <3> HIDE DEF Q
    <3> QED
      BY <2>1, <2>2, <3>1, StepsReach
  <2>4. f[n - 1] # 0
    BY <1>4, <1>1 DEF Walks
  <2>5. f[n - 1] < j /\ f[n - 1] \in g.live /\ w \in g.wires[f[n - 1]]
    <3>1. n - 1 \in P
      BY <1>3
    <3> QED
      BY <2>3, <2>4, <3>1
  <2>6. f[n] =< j
    BY <1>2, <1>4, <1>5, <2>5
  <2> QED
    BY <1>1, <1>4, <1>5, <2>6
<1> QED
  BY <1>4, <1>5

\* Between a rotation and its partner of commute_and_cancel stands only what
\* commutes with both or shares nothing with them.
LEMMA AcrossApart ==
  ASSUME NEW I, NEW g, IsExact(g), ShapedGraph(g), OrderedGraph(I, g), NodesWired(g),
         NEW id, Rewritable(g, id), NEW b \in Partners(g, id), CanMerge(g.cmd[id], g.cmd[b])
  PROVE  Apart(I, g, b, id)
<1> DEFINE x == g.cmd[id]
<1>1. id \in g.live /\ ~ IsRegionNode(g, id) /\ x.gate \in Additive
  BY DEF Rewritable, CanMerge
<1>2. g.live \subseteq Nat \ {0}
  BY DEF IsExact, IsGraph
<1>3. ~ Walls(g, id) /\ \A j \in g.live : g.wires[id] \cap g.wires[j] = {} => ~ Walls(g, j)
  BY <1>1, MergeNoWall
<1>4. b # 0 /\ IntervenersCommute(g, id, b)
  BY DEF Partners, ReachablePartner
<1>5. ASSUME NEW w \in g.wires[id]
      PROVE  /\ b \in g.live /\ id < b
             /\ \A j \in g.live : id < j /\ j < b /\ w \in g.wires[j] => SlidesPast(g, id, j)
  <2> DEFINE f == Chain(g, id, w)
  <2>1. PICK n \in 1 .. Window + 1 : f[n] = b /\ \A k \in 1 .. n - 1 : SlidesPast(g, id, f[k])
    BY <1>4 DEF IntervenersCommute
  <2>2. Walks(f, g, id, w, Window + 1)
    BY ChainWalks
  <2> HIDE DEF f
  <2>3. Walks(f, g, id, w, n) /\ n \in Nat \ {0}
    BY <2>2, WindowAssumption DEF Walks
  <2> QED
    BY <1>1, <1>4, <2>1, <2>3, WalkReaches
<1>6. b \in g.live /\ id < b
  <2>1. g.wires[id] # {}
    <3>1. Shaped(x) /\ g.wires[id] = Range(WireSeq(x))
      BY <1>1, <1>3 DEF ShapedGraph, Walls
    <3>2. Listed(WireSeq(x)) /\ WireSeq(x) # <<>>
      BY <3>1, WireSeqRange DEF Rewritable
    <3>3. 1 \in DOMAIN WireSeq(x)
      BY <3>2 DEF Listed
    <3> QED
      BY <3>1, <3>3 DEF Range
  <2> QED
    BY <1>5, <2>1
<1>7. Traced(I, x) /\ OriginsOf(Written(g, id)) = x.origin
  BY <1>1, NodeTraced
<1>8. ASSUME NEW j \in g.live, id < j, j < b
      PROVE  SetFit(I, OriginsOf(Written(g, j)), OriginsOf(Written(g, id)))
  <2>1. ~ IsRegionNode(g, j) /\ (~ Conflict(x, g.cmd[j]) \/ Commute(x, g.cmd[j]))
    <3>1. CASE g.wires[id] \cap g.wires[j] = {}
      <4>1. ~ Walls(g, j)
        BY <1>3, <3>1
      <4> QED
        BY <1>1, <1>3, <3>1, <4>1, WiresApart DEF Walls
    <3>2. CASE g.wires[id] \cap g.wires[j] # {}
      <4>1. PICK w \in g.wires[id] : w \in g.wires[j]
        BY <3>2
      <4>2. SlidesPast(g, id, j)
        BY <1>5, <1>8, <4>1
      <4> QED
        BY <4>2 DEF SlidesPast
    <3> QED
      BY <3>1, <3>2
  <2>2. Traced(I, g.cmd[j]) /\ OriginsOf(Written(g, j)) = g.cmd[j].origin
    BY <2>1, NodeTraced
  <2> HIDE DEF x
  <2> QED
    BY <1>7, <2>1, <2>2, SlideFit
<1>9. ASSUME NEW j \in g.live \ {b, id}
      PROVE  /\ j < b => SetFit(I, OriginsOf(Written(g, j)), OriginsOf(Written(g, id)))
             /\ b < j => SetFit(I, OriginsOf(Written(g, id)), OriginsOf(Written(g, j)))
  <2>1. b < j => id < j
    BY <1>1, <1>2, <1>6
  <2>2. j < b => j < id \/ id < j
    BY <1>1, <1>2
  <2> QED
    BY <1>1, <1>8, <2>1, <2>2 DEF OrderedGraph
<1> QED
  BY <1>9 DEF Apart

-----------------------------------------------------------------------------
(* The running calls                                                        *)

\* What the body a call is to optimise next may hold.
Room(c) == OriginsOf(Bodies(c.graph.span[c.region])[Len(c.bodies) + 1])

\* A call of a pass: its graph is in order, and the bodies it has done hold what
\* the region held there.
FrameKept(I, f) ==
  /\ OrderedGraph(I, f.graph) /\ NodesWired(f.graph)
  /\ \A k \in DOMAIN f.bodies :
       /\ TracedStream(I, f.bodies[k])
       /\ OriginsOf(f.bodies[k]) \subseteq OriginsOf(Bodies(f.graph.span[f.region])[k])

\* Call f works on the body that call c waits for.
Inside(f, c) == GraphOrigins(f.graph) \subseteq Room(c)

\* Every running call is, and works on what its caller left it.
KeptCalls(I, fs) ==
  /\ Listed(fs) /\ \A k \in DOMAIN fs : FrameKept(I, fs[k])
  /\ \A k, l \in DOMAIN fs : l = k + 1 => Inside(fs[k], fs[l])

LEMMA NoCalls ==
  ASSUME NEW I
  PROVE  KeptCalls(I, <<>>)
<1> DEFINE n == <<>>
<1>1. n \in Seq({}) /\ DOMAIN n = {}
  OBVIOUS
<1> HIDE DEF n
<1>2. KeptCalls(I, n)
  BY <1>1 DEF KeptCalls, Listed
<1> QED
  BY <1>2 DEF n

\* The calls fs are f on top of rest.
Pushed(fs, f, rest) == fs = <<f>> \o rest

\* A call pushed, the calls below, and a graph that takes the place of another.
LEMMA StackedKept ==
  ASSUME NEW I, NEW f, FrameKept(I, f), NEW rest, KeptCalls(I, rest),
         1 \in DOMAIN rest => Inside(f, rest[1]), NEW fs, Pushed(fs, f, rest)
  PROVE  KeptCalls(I, fs) /\ 1 \in DOMAIN fs /\ fs[1] = f
<1> USE DEF Pushed
<1>1. PICK S : rest \in Seq(S)
  BY DEF KeptCalls, Listed
<1>2. rest \in Seq(S \cup {f}) /\ <<f>> \in Seq(S \cup {f})
  BY <1>1
<1>3. /\ fs \in Seq(S \cup {f}) /\ Len(fs) = Len(rest) + 1 /\ Len(rest) \in Nat
      /\ DOMAIN fs = 1 .. Len(rest) + 1 /\ DOMAIN rest = 1 .. Len(rest)
      /\ fs[1] = f /\ \A k \in 2 .. Len(rest) + 1 : fs[k] = rest[k - 1]
  BY <1>2
<1>4. ASSUME NEW k \in DOMAIN fs PROVE FrameKept(I, fs[k])
  <2>1. CASE k = 1
    BY <1>3, <2>1
  <2>2. CASE k # 1
    <3>1. k \in 2 .. Len(rest) + 1 /\ k - 1 \in DOMAIN rest
      BY <1>3, <2>2
    <3> QED
      BY <1>3, <3>1 DEF KeptCalls
  <2> QED
    BY <2>1, <2>2
<1>5. ASSUME NEW k \in DOMAIN fs, NEW l \in DOMAIN fs, l = k + 1 PROVE Inside(fs[k], fs[l])
  <2>1. l \in 2 .. Len(rest) + 1 /\ k \in DOMAIN rest /\ fs[l] = rest[k]
    BY <1>3, <1>5
  <2>2. CASE k = 1
    BY <1>3, <2>1, <2>2
  <2>3. CASE k # 1
    <3>1. k \in 2 .. Len(rest) + 1 /\ k - 1 \in DOMAIN rest /\ fs[k] = rest[k - 1] /\ k = k - 1 + 1
      BY <1>3, <2>1, <2>3
    <3> QED
      BY <2>1, <3>1 DEF KeptCalls
  <2> QED
    BY <2>2, <2>3
<1> QED
  BY <1>3, <1>4, <1>5 DEF KeptCalls, Listed

LEMMA CallsBelow ==
  ASSUME NEW I, NEW fs, KeptCalls(I, fs), NEW m \in Nat \ {0}, NEW t, IsSub(t, fs, m, Len(fs))
  PROVE  KeptCalls(I, t) /\ (1 \in DOMAIN t => m \in DOMAIN fs /\ t[1] = fs[m])
<1>1. Listed(fs) /\ Len(fs) \in Nat
  BY ListedLen DEF KeptCalls
<1>2. Listed(t) /\ \A i \in DOMAIN t : m + i - 1 \in DOMAIN fs /\ t[i] = fs[m + i - 1]
  BY <1>1, PartPlaces
<1>3. \A i \in DOMAIN t : i \in Nat
  BY <1>2, ListedLen
<1>4. ASSUME NEW k \in DOMAIN t, NEW l \in DOMAIN t, l = k + 1 PROVE Inside(t[k], t[l])
  <2>1. m + l - 1 = (m + k - 1) + 1
    BY <1>3, <1>4
  <2> DEFINE a == m + k - 1
             b == m + l - 1
  <2>2. a \in DOMAIN fs /\ b \in DOMAIN fs /\ b = a + 1 /\ t[k] = fs[a] /\ t[l] = fs[b]
    BY <1>2, <2>1
  <2> HIDE DEF a, b
  <2> QED
    BY <2>2 DEF KeptCalls
<1>5. \A k \in DOMAIN t : FrameKept(I, t[k])
  BY <1>2 DEF KeptCalls
<1>6. 1 \in DOMAIN t => m \in DOMAIN fs /\ t[1] = fs[m]
  <2>1. m + 1 - 1 = m
    OBVIOUS
  <2> QED
    BY <1>2, <2>1
<1> QED
  BY <1>2, <1>4, <1>5, <1>6 DEF KeptCalls

\* The innermost call, and those that wait for it.
LEMMA BelowKept ==
  ASSUME NEW t, NEW p, SoundStack(t, p, frames), NEW I, KeptCalls(I, frames)
  PROVE  /\ FrameKept(I, top) /\ KeptCalls(I, Tail(frames))
         /\ 1 \in DOMAIN Tail(frames) => Inside(top, Tail(frames)[1])
<1> DEFINE r == Tail(frames)
<1>1. 1 \in DOMAIN frames /\ top = frames[1]
  BY DEF SoundStack, Listed, top
<1>2. IsSub(r, frames, 2, Len(frames))
  BY DEF IsSub
<1> HIDE DEF r
<1>3. KeptCalls(I, r) /\ (1 \in DOMAIN r => 2 \in DOMAIN frames /\ r[1] = frames[2])
  BY <1>2, CallsBelow
<1>4. 1 \in DOMAIN r => Inside(top, r[1])
  BY <1>1, <1>3 DEF KeptCalls
<1> QED
  BY <1>1, <1>3, <1>4 DEF KeptCalls, r

LEMMA FrameFits ==
  ASSUME NEW I, NEW g, OrderedGraph(I, g), NodesWired(g), NEW work, NEW r, NEW b, Len(b) = 0, Listed(b)
  PROVE  FrameKept(I, FrameOf(g, work, r, b)) /\ FrameOf(g, work, r, b).graph = g
<1>1. DOMAIN b = {}
  BY ListedLen
<1> QED
  BY <1>1, FrameFields DEF FrameKept

LEMMA ContinueKept ==
  ASSUME NEW t, NEW p, SoundStack(t, p, frames), NEW I, KeptCalls(I, frames),
         NEW h, Fitted(I, top.graph, h), NEW ids, Continue(h, ids)
  PROVE  KeptCalls(I, frames')
<1> DEFINE work == Enqueue(h, Tail(top.work), ids)
           r == top.region
           b == top.bodies
           A == [top EXCEPT !.graph = h, !.work = work]
           f == FrameOf(h, work, r, b)
           rest == Tail(frames)
<1>1. Held(t, p, top) /\ r = 0
  BY BelowSound
<1>2. frames' = <<A>> \o rest
  BY Zenon DEF Continue
<1>3. A = f
  <2> HIDE DEF work
  <2> QED
    BY <1>1, FrameForms DEF Held
<1>4. Listed(b) /\ Len(b) = 0
  BY <1>1, NoBodies DEF Held, SoundBodies
<1>5. FrameKept(I, top) /\ KeptCalls(I, rest) /\ (1 \in DOMAIN rest => Inside(top, rest[1]))
  BY BelowKept
<1> HIDE DEF work, r, b, f, A, rest
<1>6. FrameKept(I, f) /\ f.graph = h
  BY <1>4, FrameFits DEF f, Fitted
<1>7. 1 \in DOMAIN rest => Inside(f, rest[1])
  BY <1>5, <1>6 DEF Inside, Fitted
<1>8. Pushed(frames', f, rest)
  BY <1>2, <1>3 DEF Pushed
<1> QED
  BY <1>5, <1>6, <1>7, <1>8, StackedKept

\* A call on a stream in order, and the edits of a pass.
LEMMA OptimiseKept ==
  ASSUME NEW I, NEW callers, KeptCalls(I, callers), NEW s, TracedStream(I, s),
         1 \in DOMAIN callers => OriginsOf(s) \subseteq Room(callers[1]), Optimise(s, callers)
  PROVE  \/ phase' = "passes" /\ KeptCalls(I, frames')
         \/ phase' = "refused"
<1> DEFINE g == FromCommands(s)
           work == InOrder(g.live)
           none == <<>>
           F == Frame(g)
<1>1. CASE WellFormed(s)
  <2>1. frames' = <<F>> \o callers /\ phase' = "passes"
    BY <1>1 DEF Optimise
  <2>2. OrderedGraph(I, g) /\ NodesWired(g) /\ GraphOrigins(g) \subseteq OriginsOf(s)
    BY <1>1, FromCommandsOrdered
  <2>3. F = FrameOf(g, work, 0, none)
    BY DEF Frame, FrameOf, InOrderNodes
  <2>4. Listed(none) /\ Len(none) = 0
    BY NoBodies, ListedTuples
  <2> HIDE DEF F, work, g, none
  <2>5. FrameKept(I, F) /\ F.graph = g
    BY <2>2, <2>3, <2>4, FrameFits
  <2>6. 1 \in DOMAIN callers => Inside(F, callers[1])
    BY <2>2, <2>5 DEF Inside
  <2>7. Pushed(frames', F, callers)
    BY <2>1 DEF Pushed
  <2> QED
    BY <2>1, <2>5, <2>6, <2>7, StackedKept
<1>2. CASE ~ WellFormed(s)
  BY <1>2 DEF Optimise
<1> QED
  BY <1>1, <1>2

LEMMA RemoveBothKept ==
  ASSUME NEW t, NEW p, SoundStack(t, p, frames), NEW I, KeptCalls(I, frames),
         NEW id, NEW b, RemoveBoth(top.graph, id, b)
  PROVE  KeptCalls(I, frames')
<1> DEFINE g == top.graph
           k == RemoveNode(g, b)
           h == RemoveNode(k, id)
           ids == Neighbours(g, id) \o Neighbours(g, b)
<1>1. b \in g.live /\ id \in k.live /\ Continue(h, ids)
  BY DEF RemoveBoth
<1>2. IsExact(g) /\ ShapedGraph(g) /\ OrderedGraph(I, g) /\ NodesWired(g)
  BY BelowSound, BelowKept DEF FrameKept
<1>3. IsExact(k) /\ ShapedGraph(k) /\ Fitted(I, g, k)
  BY <1>1, <1>2, RemoveFitted, RemoveKeepsShape
<1> HIDE DEF k
<1>4. Fitted(I, k, h)
  BY <1>1, <1>3, RemoveFitted DEF Fitted
<1>5. Fitted(I, g, h)
  BY <1>3, <1>4 DEF Fitted
<1> HIDE DEF h, ids
<1> QED
  BY <1>1, <1>5, ContinueKept

LEMMA MergeIntoKept ==
  ASSUME NEW t, NEW p, SoundStack(t, p, frames), NEW I, KeptCalls(I, frames),
         NEW keep, NEW gone, NEW a, NEW e, NEW ids,
         keep \in top.graph.live => ~ IsRegionNode(top.graph, keep) /\ ~ IsRegionNode(top.graph, gone),
         top.graph.cmd[keep] \in {a, e}, {a, e} = {top.graph.cmd[keep], top.graph.cmd[gone]},
         CanMerge(a, e), Apart(I, top.graph, keep, gone),
         MergeInto(top.graph, keep, gone, Merged(a, e, top.graph.cmd[keep]), ids)
  PROVE  KeptCalls(I, frames')
<1> DEFINE g == top.graph
           c == g.cmd[keep]
           k == RemoveNode(g, gone)
           m == Merged(a, e, c)
           h == ReplaceCommand(k, keep, m)
           all == <<keep>> \o ids
<1>1. gone \in g.live /\ keep \in k.live /\ Continue(h, all)
  BY DEF MergeInto
<1>2. IsExact(g) /\ ShapedGraph(g) /\ OrderedGraph(I, g) /\ NodesWired(g)
  BY BelowSound, BelowKept DEF FrameKept
<1>3. keep \in g.live /\ keep # gone
  BY <1>1, <1>2, RemoveKeepsShape
<1>4. ~ IsRegionNode(g, keep) /\ ~ IsRegionNode(g, gone)
  BY <1>3
<1>5. /\ Traced(I, c) /\ OriginsOf(Written(g, keep)) = c.origin
      /\ Traced(I, g.cmd[gone]) /\ OriginsOf(Written(g, gone)) = g.cmd[gone].origin
  BY <1>1, <1>2, <1>3, <1>4, NodeTraced
<1>6. Traced(I, a) /\ Traced(I, e) /\ a.origin \cup e.origin = c.origin \cup g.cmd[gone].origin
  BY <1>5
<1>7. /\ Traced(I, m) /\ m.origin = a.origin \cup e.origin
      /\ m.gate = c.gate /\ m.qubits = c.qubits /\ m.cbits = c.cbits /\ m.cond = c.cond
  <2>1. c \in {a, e}
    OBVIOUS
  <2> HIDE DEF c
  <2> QED
    BY <1>6, <2>1, MergedTraced
<1>8. m.origin \subseteq OriginsOf(Written(g, keep)) \cup OriginsOf(Written(g, gone))
  BY <1>5, <1>6, <1>7
<1>9. Fitted(I, g, h)
  <2> HIDE DEF m
  <2> QED
    BY <1>1, <1>2, <1>3, <1>4, <1>7, <1>8, MergeFitted
<1> HIDE DEF h, all
<1> QED
  BY <1>1, <1>9, ContinueKept

\* Every step of a pass keeps the order in every running call.
LEMMA RewriteKept ==
  ASSUME NEW t, NEW p, SoundStack(t, p, frames), NEW I, KeptCalls(I, frames),
         SkipRemoved \/ DropZero \/ CombineAdjacent \/ KeepAdjacent \/ CombineAcross \/ KeepAcross
  PROVE  KeptCalls(I, frames')
<1> DEFINE g == top.graph
           none == <<>>
           h == RemoveNode(g, Node)
           ids == Neighbours(g, Node)
<1>1. IsExact(g) /\ ShapedGraph(g) /\ OrderedGraph(I, g) /\ NodesWired(g)
  BY BelowSound, BelowKept DEF FrameKept
<1>2. CASE SkipRemoved \/ KeepAdjacent \/ KeepAcross
  <2>1. Continue(g, none)
    BY <1>2 DEF SkipRemoved, KeepAdjacent, KeepAcross
  <2>2. Fitted(I, g, g)
    BY <1>1 DEF Fitted
  <2> HIDE DEF none
  <2> QED
    BY <2>1, <2>2, ContinueKept
<1>3. CASE DropZero
  <2>1. Node \in g.live /\ Continue(h, ids)
    BY <1>3 DEF DropZero, Rewritable
  <2>2. Fitted(I, g, h)
    BY <1>1, <2>1, RemoveFitted
  <2> HIDE DEF h, ids
  <2> QED
    BY <2>1, <2>2, ContinueKept
<1>4. CASE CombineAdjacent
  <2> DEFINE b == Follower(g, Node)
             x == g.cmd[Node]
             y == g.cmd[b]
             near == Neighbours(g, Node) \o Neighbours(g, b)
  <2>1. CombinesWithNext(g, Node)
    BY <1>4 DEF CombineAdjacent
  <2>2. ~ IsRegionNode(g, Node) /\ ~ IsRegionNode(g, b) /\ (InversePair(x, y) \/ CanMerge(x, y))
    BY <2>1 DEF CombinesWithNext, Rewritable, WireAdjacent
  <2>3. \/ RemoveBoth(g, Node, b)
        \/ CanMerge(x, y) /\ MergeInto(g, Node, b, Merged(x, y, x), near)
    BY <1>4, <2>2 DEF CombineAdjacent
  <2>4. CanMerge(x, y) => Apart(I, g, Node, b)
    BY <1>1, <2>1, AdjacentApart
  <2>5. x \in {x, y} /\ x = g.cmd[Node] /\ {x, y} = {g.cmd[Node], g.cmd[b]}
    OBVIOUS
  <2> HIDE DEF b, near, x, y
  <2> QED
    BY <2>2, <2>3, <2>4, <2>5, RemoveBothKept, MergeIntoKept
<1>5. CASE CombineAcross
  <2>1. PICK b \in Partners(g, Node) :
          \/ RemoveBoth(g, Node, b)
          \/ /\ ~ InversePair(g.cmd[Node], g.cmd[b])
             /\ MergeInto(g, b, Node, Merged(g.cmd[Node], g.cmd[b], g.cmd[b]),
                          Neighbours(g, Node) \o Neighbours(g, b))
    BY <1>5 DEF CombineAcross
  <2> DEFINE x == g.cmd[Node]
             y == g.cmd[b]
             near == Neighbours(g, Node) \o Neighbours(g, b)
  <2>2. Rewritable(g, Node)
    BY <1>5 DEF CombineAcross
  <2>3. ~ IsRegionNode(g, Node) /\ ~ IsRegionNode(g, b) /\ CanCombine(x, y)
    BY <2>2 DEF Rewritable, Partners, ReachablePartner
  <2>4. \/ RemoveBoth(g, Node, b)
        \/ CanMerge(x, y) /\ MergeInto(g, b, Node, Merged(x, y, y), near)
    BY <2>1, <2>3 DEF CanCombine
  <2>5. CanMerge(x, y) => Apart(I, g, b, Node)
    BY <1>1, <2>2, AcrossApart
  <2>6. y \in {x, y} /\ y = g.cmd[b] /\ {x, y} = {g.cmd[b], g.cmd[Node]}
    OBVIOUS
  <2> HIDE DEF near, x, y
  <2> QED
    BY <2>3, <2>4, <2>5, <2>6, RemoveBothKept, MergeIntoKept
<1> QED
  BY <1>2, <1>3, <1>4, <1>5

LEMMA EnterKept ==
  ASSUME NEW t, NEW p, SoundStack(t, p, frames), NEW I, KeptCalls(I, frames), EnterRegion
  PROVE  \/ phase' = "passes" /\ KeptCalls(I, frames')
         \/ phase' = "refused"
<1> DEFINE g == top.graph
           span == g.span[Node]
           work == Tail(top.work)
           none == <<>>
           n == Node
           rest == Tail(frames)
           A == [top EXCEPT !.work = work, !.region = n]
           f == FrameOf(g, work, n, none)
           callers == <<A>> \o rest
<1>1. /\ n \in g.live /\ IsRegionNode(g, n)
      /\ Optimise(Bodies(span)[1], callers)
  BY DEF EnterRegion
<1>2. /\ Held(t, p, top) /\ top.region = 0 /\ IsExact(g) /\ ShapedGraph(g) /\ SoundGraph(t, p, g)
  BY BelowSound
<1>3. /\ FrameKept(I, top) /\ KeptCalls(I, rest)
      /\ 1 \in DOMAIN rest => Inside(top, rest[1])
  BY BelowKept
<1>4. IsFrame(top) /\ top.bodies = none
  BY <1>2 DEF Held
<1>5. A = f
  <2> HIDE DEF work, n, none
  <2> QED
    BY <1>4, FrameForms
<1>6. ShapedStream(span)
  BY <1>1, <1>2 DEF ShapedGraph
<1>7. 1 \in DOMAIN Bodies(span)
  BY <1>6, BodiesShaped
<1>8. TracedStream(I, span)
  BY <1>1, <1>3 DEF FrameKept, OrderedGraph, Written
<1>9. TracedStream(I, Bodies(span)[1])
  BY <1>7, <1>8, BodiesTraced
<1>10. Listed(none) /\ Len(none) = 0
  BY NoBodies, ListedTuples
<1>11. span = g.span[n]
  OBVIOUS
<1> HIDE DEF work, A, none, n, f, rest
<1>12. FrameKept(I, f) /\ f.graph = g /\ f.region = n /\ f.bodies = none
  BY <1>3, <1>10, FrameFits, FrameFields DEF f, FrameKept
<1>13. 1 \in DOMAIN rest => Inside(f, rest[1])
  BY <1>3, <1>12 DEF Inside
<1>14. KeptCalls(I, callers) /\ 1 \in DOMAIN callers /\ callers[1] = f
  <2>1. Pushed(callers, f, rest)
    BY <1>5 DEF Pushed
  <2> HIDE DEF callers
  <2> QED
    BY <1>3, <1>12, <1>13, <2>1, StackedKept
<1> HIDE DEF callers, span
<1>15. OriginsOf(Bodies(span)[1]) \subseteq Room(callers[1])
  <2>1. Len(none) + 1 = 1
    BY <1>10
  <2>2. Room(f) = OriginsOf(Bodies(span)[1])
    BY <1>11, <1>12, <2>1 DEF Room
  <2> QED
    BY <1>14, <2>2
<1> QED
  BY <1>1, <1>9, <1>14, <1>15, OptimiseKept

LEMMA LeaveKept ==
  ASSUME NEW t, NEW p, SoundStack(t, p, frames), NEW I, KeptCalls(I, frames), phase = "passes", LeaveBody
  PROVE  \/ phase' = "passes" /\ KeptCalls(I, frames')
         \/ phase' = "refused"
<1> DEFINE c == frames[2]
           g == c.graph
           r == c.region
           b == c.bodies
           span == g.span[r]
           e == ToCommands(top.graph)
           d == Append(b, e)
           rest == SubSeq(frames, 3, Len(frames))
<1>1. Len(frames) > 1
  BY DEF LeaveBody
<1>2. Held(t, p, c) /\ r # 0
  BY <1>1, FurtherBelowSound
<1>3. IsExact(top.graph) /\ ShapedGraph(top.graph) /\ OrderedGraph(I, top.graph)
  BY BelowSound, BelowKept DEF FrameKept
<1>4. /\ IsFrame(c) /\ IsExact(g) /\ ShapedGraph(g) /\ Listed(b) /\ Waits(c)
  BY <1>2 DEF Held, IsFrame, SoundBodies
<1>5. TracedStream(I, e) /\ OriginsOf(e) \subseteq GraphOrigins(top.graph)
  BY <1>3, ToCommandsTraced DEF ShapedGraph
<1>6. /\ 1 \in DOMAIN frames /\ 2 \in DOMAIN frames /\ top = frames[1] /\ Listed(frames)
  <2>1. Listed(frames)
    BY DEF KeptCalls
  <2> QED
    BY <1>1, <2>1, ListedLen DEF top
<1>7. /\ KeptCalls(I, rest) /\ (1 \in DOMAIN rest => 3 \in DOMAIN frames /\ rest[1] = frames[3])
  <2>1. IsSub(rest, frames, 3, Len(frames))
    BY DEF IsSub
  <2> HIDE DEF rest
  <2> QED
    BY <2>1, CallsBelow
<1>8. /\ FrameKept(I, c) /\ Inside(top, c)
      /\ 1 \in DOMAIN rest => Inside(c, rest[1])
  <2>1. \A k, l \in DOMAIN frames : l = k + 1 => Inside(frames[k], frames[l])
    BY DEF KeptCalls
  <2>2. Inside(top, c)
    <3>1. 2 = 1 + 1
      OBVIOUS
    <3> QED
      BY <1>6, <2>1, <3>1
  <2>3. 1 \in DOMAIN rest => Inside(c, rest[1])
    <3>1. 3 = 2 + 1
      OBVIOUS
    <3> QED
      BY <1>6, <1>7, <2>1, <3>1
  <2>4. FrameKept(I, c)
    BY <1>6 DEF KeptCalls
  <2> QED
    BY <2>2, <2>3, <2>4
<1>9. /\ r \in g.live /\ IsRegionNode(g, r) /\ span # <<>> /\ ShapedStream(span)
      /\ Len(b) < Len(Bodies(span))
  BY <1>4 DEF Waits, ShapedGraph, IsRegionNode
<1>10. TracedStream(I, span) /\ Len(span) >= 2
  BY <1>8, <1>9 DEF FrameKept, OrderedGraph, Written, NodesWired
<1>11. /\ Listed(Bodies(span)) /\ Len(Bodies(span)) \in Nat /\ DOMAIN Bodies(span) = 1 .. Len(Bodies(span))
  BY <1>9, BodiesShaped, ListedLen
<1>12. OriginsOf(e) \subseteq OriginsOf(Bodies(span)[Len(b) + 1])
  BY <1>5, <1>8 DEF Inside, Room
<1>13. /\ Listed(d) /\ Len(d) = Len(b) + 1 /\ Len(b) \in Nat
       /\ \A k \in DOMAIN d : TracedStream(I, d[k]) /\ OriginsOf(d[k]) \subseteq OriginsOf(Bodies(span)[k])
  <2>1. \A k \in DOMAIN b : TracedStream(I, b[k]) /\ OriginsOf(b[k]) \subseteq OriginsOf(Bodies(span)[k])
    BY <1>8 DEF FrameKept
  <2>2. Listed(b)
    BY <1>4
  <2> HIDE DEF b, e, span
  <2>3. Listed(Append(b, e)) /\ Len(Append(b, e)) = Len(b) + 1 /\ Len(b) \in Nat
    BY <2>2, OneMoreListed
  <2>4. DOMAIN d = 1 .. Len(b) + 1 /\ DOMAIN b = 1 .. Len(b)
    BY <2>2, <2>3, ListedLen
  <2>5. d[Len(b) + 1] = e /\ \A k \in DOMAIN b : d[k] = b[k]
    <3>1. PICK S : b \in Seq(S)
      BY <2>2 DEF Listed
    <3>2. b \in Seq(S \cup {e}) /\ e \in S \cup {e}
      BY <3>1
    <3> QED
      BY <3>2
  <2> HIDE DEF d
  <2>6. ASSUME NEW k \in DOMAIN d
        PROVE  TracedStream(I, d[k]) /\ OriginsOf(d[k]) \subseteq OriginsOf(Bodies(span)[k])
    <3>1. k \in DOMAIN b \/ k = Len(b) + 1
      BY <2>3, <2>4
    <3> QED
      BY <1>5, <1>12, <2>1, <2>5, <3>1
  <2> QED
    BY <2>3, <2>6 DEF d
<1> HIDE DEF d, e, rest, b
<1>14. CASE Len(d) < Len(Bodies(span))
  <2> DEFINE A == [c EXCEPT !.bodies = d]
             f == FrameOf(g, c.work, r, d)
             callers == <<A>> \o rest
             i == Len(d) + 1
  <2>1. Optimise(Bodies(span)[i], callers)
    BY <1>14 DEF LeaveBody, d, e, rest, b
  <2>2. A = f
    BY <1>4, FrameForms
  <2> HIDE DEF A, f
  <2>3. f.graph = g /\ f.work = c.work /\ f.region = r /\ f.bodies = d
    BY FrameFields DEF f
  <2>4. FrameKept(I, f)
    BY <1>8, <1>13, <2>3 DEF FrameKept
  <2>5. 1 \in DOMAIN rest => Inside(f, rest[1])
    BY <1>8, <2>3 DEF Inside
  <2>6. KeptCalls(I, callers) /\ 1 \in DOMAIN callers /\ callers[1] = f
    <3>1. Pushed(callers, f, rest)
      BY <2>2 DEF Pushed
    <3> HIDE DEF callers
    <3> QED
      BY <1>7, <2>4, <2>5, <3>1, StackedKept
  <2>7. i \in DOMAIN Bodies(span)
    BY <1>11, <1>13, <1>14
  <2>8. TracedStream(I, Bodies(span)[i])
    BY <1>10, <2>7, BodiesTraced
  <2>9. Room(f) = OriginsOf(Bodies(span)[i])
    BY <2>3 DEF Room
  <2> HIDE DEF callers, span, i
  <2> QED
    BY <2>1, <2>6, <2>8, <2>9, OptimiseKept
<1>15. CASE ~ (Len(d) < Len(Bodies(span)))
  <2> DEFINE s == Rebuilt(span, d)
             h == ReplaceSpan(g, r, s)
             none == <<>>
             A == [c EXCEPT !.graph = h, !.region = 0, !.bodies = none]
             f == FrameOf(h, c.work, 0, none)
  <2>1. frames' = <<A>> \o rest /\ phase' = phase
    BY <1>15 DEF LeaveBody, d, e, rest, b
  <2>2. Len(d) = Len(Bodies(span))
    BY <1>9, <1>11, <1>13, <1>15
  <2>3. TracedStream(I, s) /\ OriginsOf(s) \subseteq OriginsOf(span) /\ Len(s) >= 2
    BY <1>10, <1>13, <2>2, RebuiltTraced
  <2>4. s # <<>>
    BY <2>3, NoBodies
  <2> HIDE DEF s
  <2>5. Fitted(I, g, h)
    BY <1>4, <1>8, <1>9, <2>3, <2>4, SpanFitted DEF FrameKept
  <2>6. Listed(none) /\ Len(none) = 0
    BY NoBodies, ListedTuples
  <2> HIDE DEF h, none
  <2>7. A = f
    <3>1. A = [c EXCEPT !.graph = h, !.region = 0, !.bodies = none]
      OBVIOUS
    <3> HIDE DEF A
    <3> QED
      BY <1>4, <3>1, LeftForm
  <2> HIDE DEF A, f
  <2>8. FrameKept(I, f) /\ f.graph = h
    BY <2>5, <2>6, FrameFits DEF f, Fitted
  <2>9. 1 \in DOMAIN rest => Inside(f, rest[1])
    BY <1>8, <2>5, <2>8 DEF Inside, Fitted
  <2>10. Pushed(frames', f, rest)
    BY <2>1, <2>7 DEF Pushed
  <2> QED
    BY <1>7, <2>1, <2>8, <2>9, <2>10, StackedKept
<1> QED
  BY <1>14, <1>15

-----------------------------------------------------------------------------
(* The fusion keeps the order                                               *)

\* c meets whatever a meets.
Stands(a, c) ==
  /\ Operands(a) \subseteq Operands(c) /\ a.bits \subseteq c.bits
  /\ Range(a.cbits) \subseteq Range(c.cbits) /\ (FencesAll(a) => FencesAll(c))

\* c is a command with the bits its fields give it.
Own(c) == c = CommandOf(c.gate, c.qubits, c.params, c.cbits, c.cond, c.factors, c.origin)

\* A command that meets whatever the input commands it is from meet.
Solid(I, c) ==
  /\ Own(c) /\ Factory(c) /\ c.qubits \in Seq(Nat)
  /\ \A p \in c.origin : Stands(I[p], c)

\* Such a sequence, of commands that stand for theirs.
KeptSolid(I, s) == Keeps(I, s) /\ \A x \in Range(s) : Solid(I, x)

LEMMA OwnBits ==
  ASSUME NEW c, Own(c)
  PROVE  c.bits = Range(c.cbits) \cup {c.cond[i][1] : i \in DOMAIN c.cond}
BY Fields DEF Own

\* Commands that do not conflict stand for commands that do not.
LEMMA StandApart ==
  ASSUME NEW a, NEW b, NEW c, NEW d, Stands(a, c), Stands(b, d), Conflict(a, b)
  PROVE  Conflict(c, d)
BY DEF Stands, Conflict

LEMMA SolidFit ==
  ASSUME NEW I, NEW c, Solid(I, c), NEW d, Solid(I, d), ~ Conflict(c, d)
  PROVE  SetFit(I, c.origin, d.origin) /\ SetFit(I, d.origin, c.origin)
<1>1. ASSUME NEW p \in c.origin, NEW q \in d.origin
      PROVE  ~ Conflict(I[p], I[q]) /\ ~ Conflict(I[q], I[p])
  <2>1. Stands(I[p], c) /\ Stands(I[q], d)
    BY DEF Solid
  <2>2. ~ Conflict(I[p], I[q])
    BY <2>1, StandApart
  <2> QED
    BY <2>2, ConflictBack
<1> QED
  BY <1>1 DEF SetFit, MayPrecede

LEMMA ResemblesStands ==
  ASSUME NEW a, NEW c, Resembles(a, c)
  PROVE  Stands(a, c)
<1>1. Operands(a) = Operands(c)
  BY TouchSame
<1>2. /\ a.gate = c.gate /\ a.bits = c.bits /\ a.cbits = c.cbits
      /\ IsFence(a) => IsFence(c)
  BY DEF Resembles, IsFence, QubitSymmetric
<1> QED
  BY <1>1, <1>2 DEF Stands, FencesAll

LEMMA TracedSolid ==
  ASSUME NEW I, NEW c, Traced(I, c), c.qubits \in Seq(Nat)
  PROVE  Solid(I, c)
BY ResemblesStands DEF Traced, Solid, Own, Shaped

\* Sequences of none and of one such command.
LEMMA NothingSolid ==
  ASSUME NEW I
  PROVE  KeptSolid(I, <<>>) /\ OriginsOf(<<>>) = {} /\ Range(<<>>) = {}
<1>1. DOMAIN <<>> = {}
  OBVIOUS
<1>2. Range(<<>>) = {}
  BY <1>1 DEF Range
<1> QED
  BY <1>2, NothingKept DEF KeptSolid

LEMMA OneSolid ==
  ASSUME NEW I, NEW c, Solid(I, c)
  PROVE  KeptSolid(I, <<c>>) /\ OriginsOf(<<c>>) = c.origin /\ Range(<<c>>) = {c}
<1>1. Range(<<c>>) = {c}
  BY OneRange
<1> QED
  BY <1>1, OneKept DEF KeptSolid

\* c is a and b joined, or s with x appended.
JoinedSolid(I, c, a, b) ==
  /\ KeptSolid(I, c) /\ Range(c) = Range(a) \cup Range(b)
  /\ OriginsOf(c) = OriginsOf(a) \cup OriginsOf(b)

LEMMA JoinSolid ==
  ASSUME NEW I, NEW a, KeptSolid(I, a), NEW b, KeptSolid(I, b),
         SetFit(I, OriginsOf(a), OriginsOf(b)), NEW c, IsJoin(c, a, b)
  PROVE  JoinedSolid(I, c, a, b)
<1>1. Keeps(I, a) /\ Keeps(I, b)
  BY DEF KeptSolid
<1>2. Keeps(I, c) /\ Range(c) = Range(a) \cup Range(b) /\ OriginsOf(c) = OriginsOf(a) \cup OriginsOf(b)
  BY <1>1, JoinKept
<1> QED
  BY <1>2 DEF KeptSolid, JoinedSolid

IsAppend(c, s, x) == c = Append(s, x)

LEMMA AppendSolid ==
  ASSUME NEW I, NEW s, KeptSolid(I, s), NEW x, Solid(I, x), SetFit(I, OriginsOf(s), x.origin),
         NEW c, IsAppend(c, s, x)
  PROVE  /\ KeptSolid(I, c) /\ Range(c) = Range(s) \cup {x}
         /\ OriginsOf(c) = OriginsOf(s) \cup x.origin
<1> DEFINE o == <<x>>
<1>1. KeptSolid(I, o) /\ OriginsOf(o) = x.origin /\ Range(o) = {x}
  BY OneSolid
<1>2. c = s \o o
  BY DEF IsAppend, KeptSolid, Keeps, Listed
<1> HIDE DEF o
<1>3. IsJoin(c, s, o)
  BY <1>2 DEF IsJoin
<1>4. JoinedSolid(I, c, s, o)
  BY <1>1, <1>3, JoinSolid
<1> QED
  BY <1>1, <1>4 DEF JoinedSolid

-----------------------------------------------------------------------------
\* What an accumulator of qubit q holds.
Gathered(I, q, acc) ==
  /\ KeptSolid(I, acc)
  /\ \A x \in Range(acc) : IsFusible1Q(x) /\ x.qubits = <<q>> /\ x.cond = acc[1].cond

\* What fuse_single_qubit_gates has gathered for a qubit acts on that qubit only,
\* so that two gatherings may go in either order.
LEMMA FusibleFacts ==
  ASSUME NEW x, IsFusible1Q(x), Own(x), Factory(x), NEW q, x.qubits = <<q>>
  PROVE  /\ x.cbits = <<>> /\ Range(x.cbits) = {} /\ ~ FencesAll(x) /\ Operands(x) = {q}
         /\ x.bits = {x.cond[i][1] : i \in DOMAIN x.cond}
<1>1. x.cbits = <<>>
  BY DEF IsFusible1Q, Factory
<1>2. Range(x.cbits) = {}
  BY <1>1, NothingSolid
<1>3. ~ FencesAll(x)
  BY DEF FencesAll, IsFence, IsFusible1Q, Markers
<1>4. Operands(x) = {q}
  <2>1. DOMAIN <<q>> = {1} /\ <<q>>[1] = q
    BY OneListed
  <2> QED
    BY <2>1 DEF Operands
<1> QED
  BY <1>1, <1>2, <1>3, <1>4, OwnBits

LEMMA GatheredFacts ==
  ASSUME NEW I, NEW q, NEW acc, Gathered(I, q, acc), NEW x \in Range(acc)
  PROVE  /\ Solid(I, x) /\ Range(x.cbits) = {} /\ ~ FencesAll(x) /\ Operands(x) = {q}
         /\ x.bits = {acc[1].cond[i][1] : i \in DOMAIN acc[1].cond}
<1>1. Solid(I, x) /\ IsFusible1Q(x) /\ x.qubits = <<q>> /\ x.cond = acc[1].cond
  BY DEF Gathered, KeptSolid
<1>2. Own(x) /\ Factory(x)
  BY <1>1 DEF Solid
<1>3. /\ Range(x.cbits) = {} /\ ~ FencesAll(x) /\ Operands(x) = {q}
      /\ x.bits = {x.cond[i][1] : i \in DOMAIN x.cond}
  BY <1>1, <1>2, FusibleFacts
<1> QED
  BY <1>1, <1>3

LEMMA GatheredApart ==
  ASSUME NEW I, NEW q, NEW a, Gathered(I, q, a), NEW r, NEW b, Gathered(I, r, b), q # r
  PROVE  SetFit(I, OriginsOf(a), OriginsOf(b))
<1>1. ASSUME NEW x \in Range(a), NEW y \in Range(b)
      PROVE  SetFit(I, x.origin, y.origin)
  <2>1. Solid(I, x) /\ Range(x.cbits) = {} /\ ~ FencesAll(x) /\ Operands(x) = {q}
    BY GatheredFacts
  <2>2. Solid(I, y) /\ Range(y.cbits) = {} /\ ~ FencesAll(y) /\ Operands(y) = {r}
    BY GatheredFacts
  <2>3. ~ Conflict(x, y)
    BY <2>1, <2>2 DEF Conflict
  <2> QED
    BY <2>1, <2>2, <2>3, SolidFit
<1> QED
  BY <1>1, FitAcross

\* What a gathering is flushed to stands for all of it.
LEMMA FlushedSolid ==
  ASSUME NEW I, NEW q \in Nat, NEW acc, Gathered(I, q, acc)
  PROVE  KeptSolid(I, Flushed(acc, q)) /\ OriginsOf(Flushed(acc, q)) \subseteq OriginsOf(acc)
<1>1. Len(acc) \in Nat /\ DOMAIN acc = 1 .. Len(acc)
  BY ListedLen DEF Gathered, KeptSolid, Keeps
<1>2. CASE Len(acc) < 2
  <2>1. Flushed(acc, q) = acc
    BY <1>1, <1>2 DEF Flushed
  <2> QED
    BY <2>1 DEF Gathered
<1>3. CASE Len(acc) >= 2 /\ ProductIsIdentity(acc, q)
  <2>1. Flushed(acc, q) = <<>>
    BY <1>1, <1>3 DEF Flushed
  <2> QED
    BY <2>1, NothingSolid
<1>4. CASE Len(acc) >= 2 /\ ~ ProductIsIdentity(acc, q)
  <2> DEFINE c == FusedCustom(acc, <<q>>)
  <2>1. Flushed(acc, q) = <<c>>
    BY <1>1, <1>4 DEF Flushed
  <2>2. /\ c.gate = "Custom" /\ c.qubits = <<q>> /\ c.cbits = <<>> /\ c.cond = acc[1].cond
        /\ c.origin = UNION {acc[k].origin : k \in DOMAIN acc}
        /\ c = CommandOf(c.gate, c.qubits, c.params, c.cbits, c.cond, c.factors, c.origin)
    BY Fields DEF FusedCustom
  <2> HIDE DEF c
  <2>3. Own(c) /\ Factory(c)
    BY <2>2 DEF Own, Factory
  <2>4. c.qubits \in Seq(Nat)
    BY <2>2
  <2>5. Operands(c) = {q}
    <3>1. DOMAIN <<q>> = {1} /\ <<q>>[1] = q
      BY OneListed
    <3> QED
      BY <2>2, <3>1 DEF Operands
  <2>6. c.bits = {acc[1].cond[i][1] : i \in DOMAIN acc[1].cond}
    <3>1. Range(c.cbits) = {}
      BY <2>2, NothingSolid
    <3>2. c.bits = Range(c.cbits) \cup {c.cond[i][1] : i \in DOMAIN c.cond}
      BY <2>3, OwnBits
    <3> QED
      BY <2>2, <3>1, <3>2
  <2>7. ASSUME NEW p \in c.origin PROVE Stands(I[p], c)
    <3>1. PICK k \in DOMAIN acc : p \in acc[k].origin
      BY <2>2
    <3> DEFINE x == acc[k]
    <3>2. x \in Range(acc) /\ p \in x.origin
      BY <3>1 DEF Range
    <3> HIDE DEF x
    <3>3. /\ Solid(I, x) /\ Range(x.cbits) = {} /\ ~ FencesAll(x) /\ Operands(x) = {q}
          /\ x.bits = {acc[1].cond[i][1] : i \in DOMAIN acc[1].cond}
      BY <3>2, GatheredFacts
    <3>4. Stands(I[p], x)
      BY <3>2, <3>3 DEF Solid
    <3> QED
      BY <2>5, <2>6, <3>3, <3>4 DEF Stands
  <2>8. Solid(I, c)
    BY <2>3, <2>4, <2>7 DEF Solid
  <2>9. c.origin \subseteq OriginsOf(acc)
    BY <2>2 DEF OriginsOf, Range
  <2>10. KeptSolid(I, <<c>>) /\ OriginsOf(<<c>>) = c.origin
    BY <2>8, OneSolid
  <2> QED
    BY <2>1, <2>9, <2>10
<1> QED
  BY <1>1, <1>2, <1>3, <1>4

\* The accumulators and what has been emitted, once the input commands of A
\* have been read.
Fusion(I, Q, A, st) ==
  /\ st = [accs |-> st.accs, out |-> st.out]
  /\ DOMAIN st.accs = Q
  /\ \A q \in Q : /\ Gathered(I, q, st.accs[q])
                  /\ OriginsOf(st.accs[q]) \subseteq A
                  /\ SetFit(I, OriginsOf(st.out), OriginsOf(st.accs[q]))
  /\ KeptSolid(I, st.out) /\ OriginsOf(st.out) \subseteq A

LEMMA NothingGathered ==
  ASSUME NEW I, NEW q
  PROVE  Gathered(I, q, <<>>)
BY NothingSolid DEF Gathered

\* u is st with the accumulators of R emptied.
Emptied(u, st, Q, R) == \A p \in Q : u.accs[p] = IF p \in R THEN <<>> ELSE st.accs[p]

\* Flushing one qubit, or several, keeps the order.
LEMMA FlushOne ==
  ASSUME NEW I, NEW Q \in SUBSET Nat, NEW A, NEW st, Fusion(I, Q, A, st), NEW q \in Q,
         NEW u, u = FoldStep("flush", st, q)
  PROVE  Fusion(I, Q, A, u) /\ Emptied(u, st, Q, {q})
<1> DEFINE accs == [st.accs EXCEPT ![q] = <<>>]
           new == Flushed(st.accs[q], q)
           out == st.out \o new
<1>1. u = StateOf(accs, out)
  BY DEF FoldStep, StateOf
<1>2. DOMAIN accs = Q /\ \A p \in Q : accs[p] = IF p = q THEN <<>> ELSE st.accs[p]
  BY DEF Fusion
<1>3. KeptSolid(I, new) /\ OriginsOf(new) \subseteq OriginsOf(st.accs[q])
  <2>1. q \in Nat /\ Gathered(I, q, st.accs[q])
    BY DEF Fusion
  <2> QED
    BY <2>1, FlushedSolid
<1>4. IsJoin(out, st.out, new)
  BY DEF IsJoin
<1> HIDE DEF accs, new, out
<1>5. SetFit(I, OriginsOf(st.out), OriginsOf(new))
  BY <1>3, FitParts DEF Fusion
<1>6. JoinedSolid(I, out, st.out, new)
  BY <1>3, <1>4, <1>5, JoinSolid DEF Fusion
<1>7. OriginsOf(out) = OriginsOf(st.out) \cup OriginsOf(new) /\ KeptSolid(I, out)
  BY <1>6 DEF JoinedSolid
<1>8. OriginsOf(out) \subseteq A
  BY <1>3, <1>7 DEF Fusion
<1>9. ASSUME NEW p \in Q
      PROVE  /\ Gathered(I, p, accs[p]) /\ OriginsOf(accs[p]) \subseteq A
             /\ SetFit(I, OriginsOf(out), OriginsOf(accs[p]))
  <2>1. CASE p = q
    <3>1. accs[p] = <<>>
      BY <1>2, <2>1
    <3>2. Gathered(I, p, <<>>) /\ OriginsOf(<<>>) = {}
      BY NothingGathered, NothingSolid
    <3> QED
      BY <3>1, <3>2 DEF SetFit
  <2>2. CASE p # q
    <3>1. accs[p] = st.accs[p]
      BY <1>2, <2>2
    <3>2. /\ Gathered(I, p, st.accs[p]) /\ OriginsOf(st.accs[p]) \subseteq A
          /\ SetFit(I, OriginsOf(st.out), OriginsOf(st.accs[p])) /\ Gathered(I, q, st.accs[q])
      BY DEF Fusion
    <3>3. SetFit(I, OriginsOf(st.accs[q]), OriginsOf(st.accs[p]))
      BY <2>2, <3>2, GatheredApart
    <3>4. SetFit(I, OriginsOf(new), OriginsOf(st.accs[p]))
      BY <1>3, <3>3, FitParts
    <3>5. SetFit(I, OriginsOf(out), OriginsOf(st.accs[p]))
      BY <1>7, <3>2, <3>4, FitUnions
    <3> QED
      BY <3>1, <3>2, <3>5
  <2> QED
    BY <2>1, <2>2
<1>10. u.accs = accs /\ u.out = out /\ u = [accs |-> u.accs, out |-> u.out]
  BY <1>1, StateFields
<1> QED
  BY <1>2, <1>7, <1>8, <1>9, <1>10 DEF Fusion, Emptied

LEMMA FlushAll ==
  ASSUME NEW I, NEW Q \in SUBSET Nat, NEW A, NEW st, Fusion(I, Q, A, st),
         NEW qs, Listed(qs), Range(qs) \subseteq Q
  PROVE  /\ Fusion(I, Q, A, FlushQubits(st, qs))
         /\ Emptied(FlushQubits(st, qs), st, Q, Range(qs))
<1>1. Len(qs) \in Nat /\ DOMAIN qs = 1 .. Len(qs)
  BY ListedLen
<1>2. PICK H : FoldStates(H, "flush", st, qs, Len(qs)) /\ H[Len(qs)] = FlushQubits(st, qs)
  BY <1>1, FlushRuns
<1> DEFINE F(k) == {qs[i] : i \in 1 .. k}
           OK(k) == Fusion(I, Q, A, H[k]) /\ Emptied(H[k], st, Q, F(k))
           P == {k \in 0 .. Len(qs) : OK(k)}
<1>3. 0 \in P
  <2>1. H[0] = st /\ F(0) = {}
    BY <1>2 DEF FoldStates
  <2> QED
    BY <1>1, <2>1 DEF Emptied
<1>4. ASSUME NEW k \in 1 .. Len(qs), k - 1 \in P PROVE k \in P
  <2>1. OK(k - 1) /\ k \in 0 .. Len(qs)
    BY <1>1, <1>4
  <2>2. qs[k] \in Q
    BY <1>1 DEF Range
  <2>3. H[k] = FoldStep("flush", H[k - 1], qs[k])
    BY <1>2 DEF FoldStates
  <2> DEFINE q == qs[k]
             h == H[k - 1]
             u == H[k]
             before == F(k - 1)
  <2>4. F(k) = before \cup {q}
    <3>1. 1 .. k = (1 .. k - 1) \cup {k}
      BY <1>1
    <3> QED
      BY <3>1
  <2>5. Fusion(I, Q, A, h) /\ Emptied(h, st, Q, before)
    BY <2>1
  <2> HIDE DEF q, h, before
  <2>6. Fusion(I, Q, A, u) /\ Emptied(u, h, Q, {q})
    <3>1. u = FoldStep("flush", h, q) /\ q \in Q
      BY <2>2, <2>3 DEF h, q
    <3>2. Fusion(I, Q, A, h)
      BY <2>5
    <3> HIDE DEF u, F, OK, P
    <3> QED
      BY <3>1, <3>2, FlushOne
  <2> HIDE DEF F
  <2>7. OK(k)
    BY <2>4, <2>5, <2>6 DEF Emptied
  <2> QED
    BY <2>1, <2>7
<1>5. Len(qs) \in P
  <2> HIDE DEF P
  <2> QED
    BY <1>1, <1>2, <1>3, <1>4, StatesKept
<1>6. F(Len(qs)) = Range(qs)
  BY <1>1 DEF Range
<1> HIDE DEF F
<1>7. OK(Len(qs))
  BY <1>5
<1> QED
  BY <1>2, <1>6, <1>7

\* What is not flushed does not conflict with the command at hand.
LEMMA FlushedByLeaves ==
  ASSUME NEW c, Listed(c.qubits), NEW accs, DOMAIN accs \in SUBSET Nat, IsFiniteSet(DOMAIN accs),
         Operands(c) \subseteq DOMAIN accs, NEW r \in DOMAIN accs, r \notin Range(FlushedBy(c, accs))
  PROVE  /\ ~ FencesAll(c) /\ r \notin Operands(c)
         /\ c.gate = "Measure" /\ accs[r] # <<>> => Range(c.cbits) \cap accs[r][1].bits = {}
<1> DEFINE O == {q \in DOMAIN accs :
                  /\ c.gate = "Measure" /\ accs[q] # <<>>
                  /\ Range(c.cbits) \cap accs[q][1].bits # {}}
<1>1. O \in SUBSET Nat /\ IsFiniteSet(O)
  BY FS_Subset
<1>2. FlushedBy(c, accs) = IF c.gate \in Markers \/ IsFence(c) THEN InOrder(DOMAIN accs)
                           ELSE c.qubits \o InOrder(O)
  BY DEF FlushedBy
<1>3. r \in O <=> /\ c.gate = "Measure" /\ accs[r] # <<>>
                  /\ Range(c.cbits) \cap accs[r][1].bits # {}
  OBVIOUS
<1> HIDE DEF O
<1>4. Range(InOrder(DOMAIN accs)) = DOMAIN accs
  BY InOrderHolds
<1>5. ~ (c.gate \in Markers \/ IsFence(c))
  BY <1>2, <1>4
<1>6. Listed(InOrder(O)) /\ Range(InOrder(O)) = O
  BY <1>1, InOrderHolds
<1>7. Range(c.qubits \o InOrder(O)) = Range(c.qubits) \cup O
  BY <1>6, JoinRange
<1>8. r \notin Range(c.qubits) /\ r \notin O
  BY <1>2, <1>5, <1>7
<1>9. Range(c.qubits) = Operands(c)
  BY DEF Operands, Range
<1> QED
  BY <1>3, <1>5, <1>8, <1>9 DEF FencesAll

\* What stays gathered may go after the command at hand.
LEMMA LeftApart ==
  ASSUME NEW I, NEW c, Solid(I, c), ~ FencesAll(c), NEW r, r \notin Operands(c),
         NEW acc, Gathered(I, r, acc),
         c.gate = "Measure" /\ acc # <<>> => Range(c.cbits) \cap acc[1].bits = {}
  PROVE  SetFit(I, c.origin, OriginsOf(acc))
<1>1. ASSUME NEW x \in Range(acc) PROVE SetFit(I, c.origin, x.origin)
  <2>1. /\ Solid(I, x) /\ Range(x.cbits) = {} /\ ~ FencesAll(x) /\ Operands(x) = {r}
        /\ x.bits = {acc[1].cond[i][1] : i \in DOMAIN acc[1].cond}
    BY GatheredFacts
  <2>2. acc # <<>> /\ 1 \in DOMAIN acc
    <3>1. Len(acc) \in Nat /\ DOMAIN acc = 1 .. Len(acc) /\ DOMAIN acc # {}
      BY ListedLen DEF Gathered, KeptSolid, Keeps, Range
    <3>2. Range(<<>>) = {}
      BY NothingSolid
    <3> QED
      BY <3>1, <3>2
  <2>3. acc[1] \in Range(acc)
    BY <2>2 DEF Range
  <2>4. acc[1].bits = x.bits
    BY <2>1, <2>3, GatheredFacts
  <2>5. Range(c.cbits) \cap x.bits = {}
    <3>1. CASE c.gate = "Measure"
      BY <2>2, <2>4, <3>1
    <3>2. CASE c.gate # "Measure"
      <4>1. c.cbits = <<>>
        BY <3>2 DEF Solid, Factory
      <4>2. Range(c.cbits) = {}
        BY <4>1, NothingSolid
      <4> QED
        BY <4>2
    <3> QED
      BY <3>1, <3>2
  <2>6. ~ Conflict(c, x)
    BY <2>1, <2>5 DEF Conflict
  <2> QED
    BY <2>1, <2>6, SolidFit
<1> DEFINE o == <<c>>
<1>2. Range(o) = {c} /\ OriginsOf(o) = c.origin
  BY OneSolid
<1> HIDE DEF o
<1>3. SetFit(I, OriginsOf(o), OriginsOf(acc))
  BY <1>1, <1>2, FitAcross
<1> QED
  BY <1>2, <1>3

LEMMA NextGathered ==
  ASSUME NEW I, NEW q, NEW acc, Gathered(I, q, acc), NEW c, Solid(I, c), IsFusible1Q(c),
         c.qubits = <<q>>, acc # <<>> => acc[1].cond = c.cond, SetFit(I, OriginsOf(acc), c.origin),
         NEW new, IsAppend(new, acc, c)
  PROVE  Gathered(I, q, new) /\ OriginsOf(new) = OriginsOf(acc) \cup c.origin
<1>1. /\ KeptSolid(I, new) /\ Range(new) = Range(acc) \cup {c}
      /\ OriginsOf(new) = OriginsOf(acc) \cup c.origin
  BY AppendSolid DEF Gathered
<1>2. new[1].cond = c.cond
  <2>1. PICK S : acc \in Seq(S)
    BY DEF Gathered, KeptSolid, Keeps, Listed
  <2>2. CASE acc = <<>>
    <3>1. new[1] = c
      BY <2>2 DEF IsAppend
    <3> QED
      BY <3>1
  <2>3. CASE acc # <<>>
    <3>1. new[1] = acc[1]
      BY <2>1, <2>3 DEF IsAppend
    <3> QED
      BY <2>3, <3>1
  <2> QED
    BY <2>2, <2>3
<1>3. \A x \in Range(acc) : x.cond = c.cond
  <2>1. acc = <<>> => Range(acc) = {}
    BY NothingSolid
  <2> QED
    BY <2>1 DEF Gathered
<1> QED
  BY <1>1, <1>2, <1>3 DEF Gathered

\* Taking one command, gathered or sent out, keeps the order.
LEMMA FuseFusible ==
  ASSUME NEW I, NEW Q \in SUBSET Nat, NEW A, NEW st, Fusion(I, Q, A, st),
         NEW c, Solid(I, c), Operands(c) \subseteq Q, SetFit(I, A, c.origin), IsFusible1Q(c)
  PROVE  Fusion(I, Q, A \cup c.origin, FuseCommand(st, c))
<1> DEFINE q == c.qubits[1]
           ready == IF st.accs[q] # <<>> /\ st.accs[q][1].cond # c.cond
                   THEN FlushQubits(st, <<q>>) ELSE st
           new == Append(ready.accs[q], c)
           accs == [ready.accs EXCEPT ![q] = Append(@, c)]
<1>1. c.qubits = <<q>> /\ q \in Q
  <2>1. c.qubits \in Seq(Nat) /\ Len(c.qubits) = 1
    BY DEF Solid, IsFusible1Q
  <2>2. c.qubits = <<q>> /\ 1 \in DOMAIN c.qubits
    BY <2>1
  <2> QED
    BY <2>2 DEF Operands
<1>2. FuseCommand(st, c) = [ready EXCEPT !.accs[q] = Append(@, c)]
  BY DEF FuseCommand
<1> HIDE DEF q
<1>3. Fusion(I, Q, A, ready) /\ (ready.accs[q] # <<>> => ready.accs[q][1].cond = c.cond)
  <2>1. CASE st.accs[q] # <<>> /\ st.accs[q][1].cond # c.cond
    <3> DEFINE qs == <<q>>
    <3>1. Listed(qs) /\ Range(qs) = {q}
      BY OneRange
    <3>2. ready = FlushQubits(st, qs)
      BY <2>1
    <3> HIDE DEF qs, ready
    <3>3. Fusion(I, Q, A, ready) /\ Emptied(ready, st, Q, {q})
      BY <1>1, <3>1, <3>2, FlushAll
    <3>4. ready.accs[q] = <<>>
      BY <1>1, <3>3 DEF Emptied
    <3> QED
      BY <3>3, <3>4
  <2>2. CASE ~ (st.accs[q] # <<>> /\ st.accs[q][1].cond # c.cond)
    <3>1. ready = st
      BY <2>2
    <3> QED
      BY <2>2, <3>1
  <2> QED
    BY <2>1, <2>2
<1> HIDE DEF ready
<1>4. [ready EXCEPT !.accs[q] = Append(@, c)] = StateOf(accs, ready.out)
  <2>1. ready = [accs |-> ready.accs, out |-> ready.out]
    BY <1>3 DEF Fusion
  <2> QED
    BY <2>1 DEF StateOf
<1>5. DOMAIN accs = Q /\ \A p \in Q : accs[p] = IF p = q THEN new ELSE ready.accs[p]
  BY <1>1, <1>3 DEF Fusion
<1>6. IsAppend(new, ready.accs[q], c)
  BY DEF IsAppend
<1> HIDE DEF accs, new
<1>7. /\ Gathered(I, q, ready.accs[q]) /\ OriginsOf(ready.accs[q]) \subseteq A
      /\ SetFit(I, OriginsOf(ready.out), OriginsOf(ready.accs[q]))
      /\ OriginsOf(ready.out) \subseteq A
  BY <1>1, <1>3 DEF Fusion
<1>8. SetFit(I, OriginsOf(ready.accs[q]), c.origin) /\ SetFit(I, OriginsOf(ready.out), c.origin)
  BY <1>7, FitParts
<1>9. Gathered(I, q, new) /\ OriginsOf(new) = OriginsOf(ready.accs[q]) \cup c.origin
  BY <1>1, <1>3, <1>6, <1>7, <1>8, NextGathered
<1>10. SetFit(I, OriginsOf(ready.out), OriginsOf(new))
  BY <1>7, <1>8, <1>9, FitUnions
<1> DEFINE B == A \cup c.origin
<1>11. ASSUME NEW p \in Q
       PROVE  /\ Gathered(I, p, accs[p]) /\ OriginsOf(accs[p]) \subseteq B
              /\ SetFit(I, OriginsOf(ready.out), OriginsOf(accs[p]))
  <2>1. CASE p = q
    BY <1>5, <1>7, <1>9, <1>10, <2>1
  <2>2. CASE p # q
    BY <1>3, <1>5, <2>2 DEF Fusion
  <2> QED
    BY <2>1, <2>2
<1>12. KeptSolid(I, ready.out) /\ OriginsOf(ready.out) \subseteq B
  BY <1>3 DEF Fusion
<1> DEFINE u == StateOf(accs, ready.out)
<1>13. u.accs = accs /\ u.out = ready.out /\ u = [accs |-> u.accs, out |-> u.out]
  BY StateFields
<1> HIDE DEF u, B
<1>14. Fusion(I, Q, B, u)
  BY <1>5, <1>11, <1>12, <1>13 DEF Fusion
<1> QED
  BY <1>2, <1>4, <1>14 DEF u, B

LEMMA FuseOther ==
  ASSUME NEW I, NEW Q \in SUBSET Nat, IsFiniteSet(Q), NEW A, NEW st, Fusion(I, Q, A, st),
         NEW c, Solid(I, c), Operands(c) \subseteq Q, SetFit(I, A, c.origin), ~ IsFusible1Q(c)
  PROVE  Fusion(I, Q, A \cup c.origin, FuseCommand(st, c))
<1> DEFINE qs == FlushedBy(c, st.accs)
           flushed == FlushQubits(st, qs)
           out == Append(flushed.out, c)
           B == A \cup c.origin
<1>1. FuseCommand(st, c) = [flushed EXCEPT !.out = Append(@, c)]
  BY DEF FuseCommand
<1>2. Listed(c.qubits) /\ DOMAIN st.accs = Q
  BY DEF Solid, Listed, Fusion
<1>3. Listed(qs) /\ Range(qs) \subseteq Q
  BY <1>2, FlushedByIn
<1>4. ASSUME NEW r \in Q, r \notin Range(qs)
      PROVE  /\ ~ FencesAll(c) /\ r \notin Operands(c)
             /\ c.gate = "Measure" /\ st.accs[r] # <<>> => Range(c.cbits) \cap st.accs[r][1].bits = {}
  BY <1>2, <1>4, FlushedByLeaves
<1> HIDE DEF qs
<1>5. Fusion(I, Q, A, flushed) /\ Emptied(flushed, st, Q, Range(qs))
  BY <1>3, FlushAll
<1> HIDE DEF flushed
<1>6. [flushed EXCEPT !.out = Append(@, c)] = StateOf(flushed.accs, out)
  <2>1. flushed = [accs |-> flushed.accs, out |-> flushed.out]
    BY <1>5 DEF Fusion
  <2> QED
    BY <2>1 DEF StateOf
<1>7. IsAppend(out, flushed.out, c)
  BY DEF IsAppend
<1>8. KeptSolid(I, flushed.out) /\ OriginsOf(flushed.out) \subseteq A
  BY <1>5 DEF Fusion
<1>9. SetFit(I, OriginsOf(flushed.out), c.origin)
  BY <1>8, FitParts
<1> HIDE DEF out
<1>10. KeptSolid(I, out) /\ OriginsOf(out) = OriginsOf(flushed.out) \cup c.origin
  BY <1>7, <1>8, <1>9, AppendSolid
<1>11. ASSUME NEW r \in Q
       PROVE  /\ Gathered(I, r, flushed.accs[r]) /\ OriginsOf(flushed.accs[r]) \subseteq B
              /\ SetFit(I, OriginsOf(out), OriginsOf(flushed.accs[r]))
  <2>1. /\ Gathered(I, r, flushed.accs[r]) /\ OriginsOf(flushed.accs[r]) \subseteq A
        /\ SetFit(I, OriginsOf(flushed.out), OriginsOf(flushed.accs[r]))
    BY <1>5 DEF Fusion
  <2>2. SetFit(I, c.origin, OriginsOf(flushed.accs[r]))
    <3>1. CASE r \in Range(qs)
      <4>1. flushed.accs[r] = <<>>
        BY <1>5, <3>1 DEF Emptied
      <4>2. OriginsOf(<<>>) = {}
        BY NothingSolid
      <4> QED
        BY <4>1, <4>2 DEF SetFit
    <3>2. CASE r \notin Range(qs)
      <4>1. flushed.accs[r] = st.accs[r]
        BY <1>5, <3>2 DEF Emptied
      <4> QED
        BY <1>4, <2>1, <3>2, <4>1, LeftApart
    <3> QED
      BY <3>1, <3>2
  <2>3. SetFit(I, OriginsOf(out), OriginsOf(flushed.accs[r]))
    BY <1>10, <2>1, <2>2, FitUnions
  <2> QED
    BY <2>1, <2>3
<1>12. OriginsOf(out) \subseteq B
  BY <1>8, <1>10
<1> DEFINE u == StateOf(flushed.accs, out)
<1>13. u.accs = flushed.accs /\ u.out = out /\ u = [accs |-> u.accs, out |-> u.out]
  BY StateFields
<1>14. DOMAIN flushed.accs = Q
  BY <1>5 DEF Fusion
<1> HIDE DEF u, B
<1>15. Fusion(I, Q, B, u)
  BY <1>10, <1>11, <1>12, <1>13, <1>14 DEF Fusion
<1> QED
  BY <1>1, <1>6, <1>15 DEF u, B

\* fuse_single_qubit_gates moves nothing past what it conflicts with.
LEMMA FusionKept ==
  ASSUME NEW I, NEW s, KeptSolid(I, s)
  PROVE  /\ KeptSolid(I, FuseSingleQubitGates(s))
         /\ OriginsOf(FuseSingleQubitGates(s)) \subseteq OriginsOf(s)
<1> DEFINE Q == UNION {Operands(s[i]) : i \in DOMAIN s}
           init == [accs |-> [q \in Q |-> <<>>], out |-> <<>>]
           last == FoldLeft(FuseCommand, init, s)
<1>1. Len(s) \in Nat /\ DOMAIN s = 1 .. Len(s)
  BY ListedLen DEF KeptSolid, Keeps
<1>2. \A i \in DOMAIN s : Solid(I, s[i])
  BY DEF KeptSolid, Range
<1>3. Q \in SUBSET Nat /\ IsFiniteSet(Q)
  <2> DEFINE O(i) == Operands(s[i])
             ops == [i \in DOMAIN s |-> O(i)]
  <2>1. \A i \in DOMAIN s : O(i) \in SUBSET Nat /\ IsFiniteSet(O(i))
    <3> SUFFICES ASSUME NEW i \in DOMAIN s PROVE O(i) \in SUBSET Nat /\ IsFiniteSet(O(i))
      OBVIOUS
    <3>1. s[i].qubits \in Seq(Nat)
      BY <1>2 DEF Solid
    <3>2. IsFiniteSet(1 .. Len(s[i].qubits)) /\ DOMAIN s[i].qubits = 1 .. Len(s[i].qubits)
      BY <3>1, FS_Interval
    <3>3. IsFiniteSet({s[i].qubits[k] : k \in DOMAIN s[i].qubits})
      BY <3>2, ImageFinite
    <3> QED
      BY <3>1, <3>3 DEF Operands
  <2>2. IsFiniteSet({ops[i] : i \in DOMAIN s})
    <3>1. IsFiniteSet(DOMAIN s)
      BY <1>1, FS_Interval
    <3> HIDE DEF ops
    <3> QED
      BY <3>1, ImageFinite
  <2>3. {ops[i] : i \in DOMAIN s} = {O(i) : i \in DOMAIN s}
    <3> HIDE DEF O
    <3> QED
      OBVIOUS
  <2>4. IsFiniteSet(UNION {O(i) : i \in DOMAIN s})
    <3> HIDE DEF O, ops
    <3> QED
      BY <2>1, <2>2, <2>3, FS_UNION
  <2>5. \A q \in Q : q \in Nat
    BY <2>1
  <2> QED
    BY <2>4, <2>5
<1>4. FuseSingleQubitGates(s) = FlushQubits(last, InOrder(Q)).out
  BY DEF FuseSingleQubitGates
<1>5. \A i \in DOMAIN s : Operands(s[i]) \subseteq Q
  OBVIOUS
<1>6. Fusion(I, Q, {}, init)
  <2>1. /\ init.accs = [q \in Q |-> <<>>] /\ init.out = <<>>
        /\ init = [accs |-> init.accs, out |-> init.out]
    OBVIOUS
  <2>2. DOMAIN init.accs = Q /\ \A q \in Q : init.accs[q] = <<>>
    BY <2>1
  <2> HIDE DEF init, Q
  <2>3. OriginsOf(<<>>) = {} /\ KeptSolid(I, <<>>)
    BY NothingSolid
  <2>4. \A q \in Q : Gathered(I, q, init.accs[q])
    BY <2>2, NothingGathered
  <2> QED
    BY <2>1, <2>2, <2>3, <2>4 DEF Fusion, SetFit
<1> HIDE DEF Q, init
<1>7. PICK H : FoldStates(H, "fuse", init, s, Len(s)) /\ H[Len(s)] = last
  BY <1>1, FuseRuns
<1> DEFINE A(k) == UNION {s[i].origin : i \in 1 .. k}
           P == {k \in 0 .. Len(s) : Fusion(I, Q, A(k), H[k])}
<1>8. 0 \in P
  <2>1. A(0) = {} /\ H[0] = init
    BY <1>7 DEF FoldStates
  <2>2. Fusion(I, Q, A(0), H[0])
    <3> HIDE DEF A
    <3> QED
      BY <1>6, <2>1
  <2>3. 0 \in 0 .. Len(s)
    BY <1>1
  <2> HIDE DEF A
  <2> QED
    BY <2>2, <2>3
<1>9. ASSUME NEW k \in 1 .. Len(s), k - 1 \in P PROVE k \in P
  <2> DEFINE c == s[k]
             h == H[k - 1]
             u == H[k]
             before == A(k - 1)
  <2>1. Fusion(I, Q, before, h) /\ k \in 0 .. Len(s)
    BY <1>1, <1>9
  <2>2. Solid(I, c) /\ Operands(c) \subseteq Q
    BY <1>1, <1>2, <1>5
  <2>3. u = FuseCommand(h, c)
    BY <1>7 DEF FoldStates, FoldStep
  <2>4. A(k) = before \cup c.origin
    <3>1. 1 .. k = (1 .. k - 1) \cup {k}
      BY <1>1
    <3> QED
      BY <3>1
  <2>5. SetFit(I, before, c.origin)
    <3>1. \A i \in 1 .. k - 1 : SetFit(I, s[i].origin, s[k].origin)
      BY <1>1 DEF KeptSolid, Keeps, KeptIn
    <3> QED
      BY <3>1 DEF SetFit
  <2> HIDE DEF c, h, before, u
  <2>6. Fusion(I, Q, before \cup c.origin, FuseCommand(h, c))
    <3>1. CASE IsFusible1Q(c)
      BY <1>3, <2>1, <2>2, <2>5, <3>1, FuseFusible
    <3>2. CASE ~ IsFusible1Q(c)
      BY <1>3, <2>1, <2>2, <2>5, <3>2, FuseOther
    <3> QED
      BY <3>1, <3>2
  <2>7. Fusion(I, Q, A(k), u)
    <3> HIDE DEF A
    <3> QED
      BY <2>3, <2>4, <2>6
  <2> QED
    BY <2>1, <2>7 DEF u
<1>10. Len(s) \in P
  <2> HIDE DEF P
  <2> QED
    BY <1>1, <1>7, <1>8, <1>9, StatesKept
<1> DEFINE all == A(Len(s))
<1>11. all = OriginsOf(s)
  BY <1>1 DEF OriginsOf, Range
<1>12. Fusion(I, Q, all, last)
  BY <1>7, <1>10
<1> DEFINE qs == InOrder(Q)
<1> HIDE DEF last, all, qs
<1>13. Listed(qs) /\ Range(qs) \subseteq Q
  BY <1>3, InOrderHolds DEF qs
<1>14. Fusion(I, Q, all, FlushQubits(last, qs))
  BY <1>3, <1>12, <1>13, FlushAll
<1>15. KeptSolid(I, FlushQubits(last, qs).out) /\ OriginsOf(FlushQubits(last, qs).out) \subseteq all
  BY <1>14 DEF Fusion
<1> QED
  BY <1>4, <1>11, <1>15 DEF qs

-----------------------------------------------------------------------------
(* Binding and dispatch                                                     *)

\* Binding the symbols changes nothing but the angles.
LEMMA ParamsForm ==
  ASSUME NEW c, Own(c), NEW p
  PROVE  [c EXCEPT !.params = p]
           = CommandOf(c.gate, c.qubits, p, c.cbits, c.cond, c.factors, c.origin)
<1> DEFINE g == c.gate
           k == c.qubits
           r == c.params
           b == c.cbits
           n == c.cond
           f == c.factors
           x == c.origin
<1>1. c = CommandOf(g, k, r, b, n, f, x)
  BY DEF Own
<1> HIDE DEF g, k, r, b, n, f, x
<1> DEFINE B == Range(b) \cup {n[i][1] : i \in DOMAIN n}
           R(w) == [gate |-> g, qubits |-> k, params |-> w, cbits |-> b, cond |-> n,
                    bits |-> B, factors |-> f, origin |-> x]
<1>2. CommandOf(g, k, r, b, n, f, x) = R(r) /\ CommandOf(g, k, p, b, n, f, x) = R(p)
  BY DEF CommandOf
<1> HIDE DEF B
<1>3. [R(r) EXCEPT !.params = p] = R(p)
  OBVIOUS
<1> HIDE DEF R
<1> QED
  BY <1>1, <1>2, <1>3 DEF g, k, r, b, n, f, x

\* A bound command stands for what it stood for.
LEMMA SubstituteSolid ==
  ASSUME NEW I, NEW c, Solid(I, c), NEW b, NEW d, d = Substitute(c, b)
  PROVE  Solid(I, d) /\ d.origin = c.origin
<1> DEFINE p == [k \in DOMAIN c.params |-> Eighths(Value(c.params[k], b))]
<1>1. d = [c EXCEPT !.params = p]
  BY DEF Substitute
<1> HIDE DEF p
<1>2. Own(c)
  BY DEF Solid
<1>3. d = CommandOf(c.gate, c.qubits, p, c.cbits, c.cond, c.factors, c.origin)
  BY <1>1, <1>2, ParamsForm
<1>4. /\ d.gate = c.gate /\ d.qubits = c.qubits /\ d.params = p /\ d.cbits = c.cbits
      /\ d.cond = c.cond /\ d.factors = c.factors /\ d.origin = c.origin
      /\ d.bits = Range(c.cbits) \cup {c.cond[i][1] : i \in DOMAIN c.cond}
  BY <1>3, Fields
<1>5. Own(d)
  BY <1>3, <1>4 DEF Own
<1>6. d.bits = c.bits
  BY <1>2, <1>4, OwnBits
<1>7. Operands(d) = Operands(c) /\ (FencesAll(c) => FencesAll(d))
  BY <1>4 DEF Operands, FencesAll, IsFence
<1>8. \A q \in d.origin : Stands(I[q], d)
  BY <1>4, <1>6, <1>7 DEF Solid, Stands
<1> QED
  BY <1>4, <1>5, <1>8 DEF Solid, Factory

LEMMA BoundSolid ==
  ASSUME NEW I, NEW s, KeptSolid(I, s), NEW b
  PROVE  KeptSolid(I, Bound(s, b))
<1> DEFINE f == [i \in DOMAIN s |-> Substitute(s[i], b)]
<1>1. f = [i \in DOMAIN s |-> f[i]] /\ \A i \in DOMAIN s : f[i] = Substitute(s[i], b)
  OBVIOUS
<1>2. Bound(s, b) = f
  BY DEF Bound
<1> HIDE DEF f
<1>3. Listed(s) /\ \A i \in DOMAIN s : Solid(I, s[i])
  BY DEF KeptSolid, Keeps, Range
<1>4. Listed(f) /\ DOMAIN f = DOMAIN s
  BY <1>1, <1>3, MappedListed
<1>5. \A i \in DOMAIN s : Solid(I, f[i]) /\ f[i].origin = s[i].origin
  BY <1>1, <1>3, SubstituteSolid
<1>6. KeptIn(I, f)
  BY <1>4, <1>5 DEF KeptSolid, Keeps, KeptIn
<1> QED
  BY <1>2, <1>4, <1>5, <1>6 DEF KeptSolid, Keeps, Range

-----------------------------------------------------------------------------
\* Command sequences that are dispatched one after the other.
PartsKept(I, ps) ==
  /\ Listed(ps) /\ \A k \in DOMAIN ps : KeptSolid(I, ps[k])
  /\ \A k, l \in DOMAIN ps : k < l => SetFit(I, OriginsOf(ps[k]), OriginsOf(ps[l]))

\* The unitary prefix ends within the stream, and the two parts follow each other.
LEMMA PrefixIn ==
  ASSUME NEW s, Listed(s)
  PROVE  UnitaryPrefix(s) \in 0 .. Len(s)
<1>1. Len(s) \in Nat
  BY ListedLen
<1> DEFINE N == {n \in 1 .. Len(s) : NeedsTrajectory(s[n])}
<1>2. \E n \in 0 .. Len(s) :
        /\ \A i \in 1 .. n : ~ NeedsTrajectory(s[i])
        /\ n < Len(s) => NeedsTrajectory(s[n + 1])
  <2>1. CASE N = {}
    <3>1. Len(s) \in 0 .. Len(s) /\ ~ (Len(s) < Len(s))
      BY <1>1
    <3>2. \A i \in 1 .. Len(s) : ~ NeedsTrajectory(s[i])
      BY <2>1
    <3> QED
      BY <3>1, <3>2
  <2>2. CASE N # {}
    <3>1. N \in SUBSET Nat
      OBVIOUS
    <3>2. PICK m \in N : \A j \in N : m =< j
      <4> HIDE DEF N
      <4> QED
        BY <2>2, <3>1, LeastExists
    <3>3. m \in 1 .. Len(s) /\ NeedsTrajectory(s[m])
      BY <3>2
    <3> DEFINE n == m - 1
    <3>4. n \in 0 .. Len(s) /\ n + 1 = m
      BY <1>1, <3>3
    <3>5. \A i \in 1 .. n : ~ NeedsTrajectory(s[i])
      BY <1>1, <3>2, <3>3
    <3> HIDE DEF n
    <3> QED
      BY <3>3, <3>4, <3>5
  <2> QED
    BY <2>1, <2>2
<1> QED
  BY <1>2 DEF UnitaryPrefix

LEMMA PartSolid ==
  ASSUME NEW I, NEW s, KeptSolid(I, s), NEW m \in Nat \ {0}, NEW n \in Int, n =< Len(s),
         NEW t, IsSub(t, s, m, n)
  PROVE  KeptSolid(I, t) /\ From(s, t, m, n)
<1>1. Keeps(I, s)
  BY DEF KeptSolid
<1>2. Keeps(I, t) /\ Range(t) \subseteq Range(s) /\ From(s, t, m, n)
  BY <1>1, PartKept
<1> QED
  BY <1>2 DEF KeptSolid

LEMMA TwoParts ==
  ASSUME NEW I, NEW a, KeptSolid(I, a), NEW b, KeptSolid(I, b), SetFit(I, OriginsOf(a), OriginsOf(b))
  PROVE  PartsKept(I, <<a, b>>)
<1> DEFINE ps == <<a, b>>
<1>1. Listed(ps)
  BY ListedTuples
<1>2. DOMAIN ps = {1, 2} /\ ps[1] = a /\ ps[2] = b
  OBVIOUS
<1> HIDE DEF ps
<1>3. PartsKept(I, ps)
  BY <1>1, <1>2 DEF PartsKept
<1> QED
  BY <1>3 DEF ps

LEMMA PartsOfKept ==
  ASSUME NEW I, NEW s, KeptSolid(I, s)
  PROVE  PartsKept(I, PartsOf(s))
<1>1. CASE MeasurementsAreTerminal(s)
  <2> DEFINE ps == <<s>>
  <2>1. PartsOf(s) = ps
    BY <1>1 DEF PartsOf
  <2>2. Listed(ps) /\ DOMAIN ps = {1} /\ ps[1] = s
    BY OneListed
  <2> HIDE DEF ps
  <2>3. PartsKept(I, ps)
    BY <2>2 DEF PartsKept
  <2> QED
    BY <2>1, <2>3
<1>2. CASE ~ MeasurementsAreTerminal(s)
  <2> DEFINE n == UnitaryPrefix(s)
             k == n + 1
             a == SubSeq(s, 1, n)
             b == SubSeq(s, k, Len(s))
  <2>1. PartsOf(s) = <<a, b>>
    BY <1>2 DEF PartsOf
  <2>2. Listed(s) /\ Len(s) \in Nat /\ Keeps(I, s)
    BY ListedLen DEF KeptSolid, Keeps
  <2>3. n \in 0 .. Len(s)
    BY <2>2, PrefixIn
  <2> HIDE DEF n
  <2>4. /\ n \in Int /\ n =< Len(s) /\ k \in Nat \ {0} /\ k \in Int /\ n < k
        /\ Len(s) \in Int /\ Len(s) =< Len(s) /\ 1 \in Nat \ {0}
    BY <2>2, <2>3
  <2>5. IsSub(a, s, 1, n) /\ IsSub(b, s, k, Len(s))
    BY DEF IsSub
  <2> HIDE DEF a, b, k
  <2>6. KeptSolid(I, a) /\ From(s, a, 1, n)
    BY <2>4, <2>5, PartSolid
  <2>7. KeptSolid(I, b) /\ From(s, b, k, Len(s))
    BY <2>4, <2>5, PartSolid
  <2>8. SetFit(I, OriginsOf(a), OriginsOf(b))
    BY <2>2, <2>4, <2>6, <2>7, FromFit
  <2> QED
    BY <2>1, <2>6, <2>7, <2>8, TwoParts
<1> QED
  BY <1>1, <1>2

\* What has been dispatched, and what still is to be.
Sending(I, ks, ps) ==
  /\ Keeps(I, ks) /\ PartsKept(I, ps)
  /\ \A k \in DOMAIN ps : SetFit(I, OriginsOf(ks), OriginsOf(ps[k]))

\* The first part is next, and leaves the rest to be sent after it.
LEMMA FirstPart ==
  ASSUME NEW I, NEW ks, NEW ps, Sending(I, ks, ps), ps # <<>>
  PROVE  KeptSolid(I, Head(ps)) /\ SetFit(I, OriginsOf(ks), OriginsOf(Head(ps)))
<1>1. PICK S : ps \in Seq(S)
  BY DEF Sending, PartsKept, Listed
<1>2. 1 \in DOMAIN ps /\ Head(ps) = ps[1]
  BY <1>1
<1> QED
  BY <1>2 DEF Sending, PartsKept

LEMMA SendNext ==
  ASSUME NEW I, NEW ks, NEW ps, Sending(I, ks, ps), ps # <<>>,
         NEW m, Keeps(I, m), OriginsOf(m) \subseteq OriginsOf(Head(ps)),
         NEW n, IsJoin(n, ks, m)
  PROVE  Sending(I, n, Tail(ps))
<1>1. SetFit(I, OriginsOf(ks), OriginsOf(Head(ps)))
  BY FirstPart
<1>2. SetFit(I, OriginsOf(ks), OriginsOf(m)) /\ Keeps(I, ks)
  BY <1>1, FitParts DEF Sending
<1>3. Keeps(I, n) /\ OriginsOf(n) = OriginsOf(ks) \cup OriginsOf(m)
  BY <1>2, JoinKept
<1> DEFINE rest == Tail(ps)
<1>4. PICK S : ps \in Seq(S)
  BY DEF Sending, PartsKept, Listed
<1>5. /\ rest \in Seq(S) /\ DOMAIN rest = 1 .. Len(ps) - 1 /\ Len(ps) \in Nat
      /\ DOMAIN ps = 1 .. Len(ps) /\ 1 \in DOMAIN ps /\ Head(ps) = ps[1]
      /\ \A k \in DOMAIN rest : rest[k] = ps[k + 1]
  BY <1>4
<1> HIDE DEF rest
<1>6. \A k \in DOMAIN rest : k + 1 \in DOMAIN ps /\ 1 < k + 1
  BY <1>5
<1>7. \A k, l \in DOMAIN rest : k < l => k + 1 < l + 1
  BY <1>5
<1>8. ASSUME NEW k \in DOMAIN rest
      PROVE  KeptSolid(I, rest[k]) /\ SetFit(I, OriginsOf(n), OriginsOf(rest[k]))
  <2> DEFINE i == k + 1
             t == rest[k]
             h == Head(ps)
  <2>1. i \in DOMAIN ps /\ 1 < i /\ t = ps[i] /\ h = ps[1] /\ 1 \in DOMAIN ps
    BY <1>5, <1>6
  <2> HIDE DEF i, t, h
  <2>2. /\ KeptSolid(I, t) /\ SetFit(I, OriginsOf(h), OriginsOf(t))
        /\ SetFit(I, OriginsOf(ks), OriginsOf(t))
    BY <2>1 DEF Sending, PartsKept
  <2>3. SetFit(I, OriginsOf(m), OriginsOf(t))
    BY <2>2, FitParts DEF h
  <2> DEFINE A == OriginsOf(ks)
             B == OriginsOf(m)
             C == OriginsOf(n)
             T == OriginsOf(t)
  <2>4. SetFit(I, A, T) /\ SetFit(I, B, T) /\ C = A \cup B
    BY <1>3, <2>2, <2>3
  <2> HIDE DEF A, B, T, C
  <2>5. SetFit(I, C, T)
    BY <2>4 DEF SetFit
  <2>6. SetFit(I, OriginsOf(n), OriginsOf(t))
    BY <2>5 DEF C, T
  <2> QED
    BY <2>2, <2>6 DEF t
<1>9. ASSUME NEW k \in DOMAIN rest, NEW l \in DOMAIN rest, k < l
      PROVE  SetFit(I, OriginsOf(rest[k]), OriginsOf(rest[l]))
  <2> DEFINE i == k + 1
             j == l + 1
  <2>1. i \in DOMAIN ps /\ j \in DOMAIN ps /\ i < j /\ rest[k] = ps[i] /\ rest[l] = ps[j]
    BY <1>5, <1>6, <1>7, <1>9
  <2> HIDE DEF i, j
  <2> QED
    BY <2>1 DEF Sending, PartsKept
<1>10. PartsKept(I, rest)
  BY <1>5, <1>8, <1>9 DEF PartsKept, Listed
<1> QED
  BY <1>3, <1>8, <1>10 DEF Sending, rest

-----------------------------------------------------------------------------
\* Fewer than two commands are in order.
LEMMA ShortKept ==
  ASSUME NEW I, NEW t, Listed(t), Len(t) < 2
  PROVE  Keeps(I, t)
<1>1. Len(t) \in Nat /\ DOMAIN t = 1 .. Len(t)
  BY ListedLen
<1>2. \A i, j \in DOMAIN t : ~ (i < j)
  BY <1>1
<1> QED
  BY <1>2 DEF Keeps, KeptIn

\* What is dispatched for a block is from the block.
LEMMA EmittedKept ==
  ASSUME NEW I, NEW s, NEW g, Listed(g)
  PROVE  /\ Keeps(I, Emitted(s, g))
         /\ OriginsOf(Emitted(s, g)) \subseteq UNION {s[g[k]].origin : k \in DOMAIN g}
<1> DEFINE acc == [k \in DOMAIN g |-> s[g[k]]]
           qubits == UNION {Operands(acc[k]) : k \in DOMAIN acc}
           q == CHOOSE z \in qubits : TRUE
           all == UNION {s[g[k]].origin : k \in DOMAIN g}
           e == Emitted(s, g)
<1>1. e = IF Len(acc) = 1 THEN acc
          ELSE IF Cardinality(qubits) = 1 THEN Flushed(acc, q)
          ELSE <<FusedCustom(acc, InOrder(qubits))>>
  BY DEF Emitted
<1>2. acc = [k \in DOMAIN g |-> acc[k]] /\ \A k \in DOMAIN g : acc[k] = s[g[k]]
  OBVIOUS
<1> HIDE DEF acc, qubits, q, e
<1>3. Listed(acc) /\ DOMAIN acc = DOMAIN g
  BY <1>2, MappedListed
<1>4. Len(acc) \in Nat /\ DOMAIN acc = 1 .. Len(acc)
  BY <1>3, ListedLen
<1>5. OriginsOf(acc) = all /\ all = UNION {acc[k].origin : k \in DOMAIN acc}
  BY <1>2, <1>3 DEF OriginsOf, Range
<1> HIDE DEF all
<1>6. \A qs : Keeps(I, <<FusedCustom(acc, qs)>>) /\ OriginsOf(<<FusedCustom(acc, qs)>>) = all
  <2> SUFFICES ASSUME NEW qs
               PROVE  Keeps(I, <<FusedCustom(acc, qs)>>) /\ OriginsOf(<<FusedCustom(acc, qs)>>) = all
    OBVIOUS
  <2>1. FusedCustom(acc, qs).origin = all
    BY <1>5, Fields DEF FusedCustom
  <2> QED
    BY <2>1, OneKept
<1>7. Len(acc) < 2 => Keeps(I, acc)
  BY <1>3, ShortKept
<1>8. (e = acc /\ Len(acc) < 2) \/ e = <<>> \/ \E qs : e = <<FusedCustom(acc, qs)>>
  <2>1. CASE Len(acc) = 1
    BY <1>1, <2>1
  <2>2. CASE Len(acc) # 1 /\ Cardinality(qubits) = 1
    <3>1. e = Flushed(acc, q)
      BY <1>1, <2>2
    <3>2. CASE Len(acc) < 2
      BY <3>1, <3>2 DEF Flushed
    <3>3. CASE Len(acc) >= 2 /\ ProductIsIdentity(acc, q)
      <4>1. Flushed(acc, q) = <<>>
        BY <1>4, <3>3 DEF Flushed
      <4> QED
        BY <3>1, <4>1
    <3>4. CASE Len(acc) >= 2 /\ ~ ProductIsIdentity(acc, q)
      <4>1. Flushed(acc, q) = <<FusedCustom(acc, <<q>>)>>
        BY <1>4, <3>4 DEF Flushed
      <4> QED
        BY <3>1, <4>1
    <3> QED
      BY <1>4, <3>2, <3>3, <3>4
  <2>3. CASE Len(acc) # 1 /\ Cardinality(qubits) # 1
    BY <1>1, <2>3
  <2> QED
    BY <2>1, <2>2, <2>3
<1>9. Keeps(I, <<>>) /\ OriginsOf(<<>>) = {}
  BY NothingKept
<1>10. Keeps(I, e) /\ OriginsOf(e) \subseteq all
  BY <1>5, <1>6, <1>7, <1>8, <1>9
<1> QED
  BY <1>10 DEF e, all

\* What the blocks send out keeps the order: the fusion never sends the later of
\* two conflicting commands first.
LEMMA BlocksKept ==
  ASSUME FuseInv, NEW I, KeptSolid(I, source),
         NEW ss, ss = [m \in DOMAIN done |-> Emitted(source, done[m])]
  PROVE  Keeps(I, FlattenSeq(ss)) /\ OriginsOf(FlattenSeq(ss)) \subseteq OriginsOf(source)
<1> DEFINE From1(m) == UNION {source[done[m][k]].origin : k \in DOMAIN done[m]}
           P == 1 .. at - 1
<1>1. done \in Seq(Seq(P))
  BY DEF FuseInv, DoneOK
<1>2. \A m \in DOMAIN done : done[m] \in Seq(P) /\ Listed(done[m])
  <2> DEFINE Q == Seq(P)
  <2> HIDE DEF Q, P
  <2>1. done \in Seq(Q)
    BY <1>1 DEF Q
  <2>2. \A m \in DOMAIN done : done[m] \in Q
    BY <2>1
  <2> QED
    BY <2>2 DEF Q, Listed
<1>3. Listed(done)
  BY <1>1 DEF Listed
<1>4. \A m \in DOMAIN done : \A k \in DOMAIN done[m] :
        done[m][k] \in DOMAIN source /\ done[m][k] \in Nat
  BY <1>2, ScannedInSource DEF FuseInv
<1>5. ss = [m \in DOMAIN done |-> ss[m]] /\ \A m \in DOMAIN done : ss[m] = Emitted(source, done[m])
  OBVIOUS
<1>6. Listed(ss) /\ DOMAIN ss = DOMAIN done
  BY <1>3, <1>5, MappedListed
<1>7. ASSUME NEW m \in DOMAIN ss
      PROVE  Keeps(I, ss[m]) /\ OriginsOf(ss[m]) \subseteq From1(m)
  <2> DEFINE g == done[m]
  <2>1. Listed(g) /\ ss[m] = Emitted(source, g)
    BY <1>2, <1>5, <1>6
  <2>2. From1(m) = UNION {source[g[k]].origin : k \in DOMAIN g}
    OBVIOUS
  <2> HIDE DEF g, From1
  <2>3. Keeps(I, Emitted(source, g)) /\ OriginsOf(Emitted(source, g)) \subseteq From1(m)
    BY <2>1, <2>2, EmittedKept
  <2> QED
    BY <2>1, <2>3
<1>8. ASSUME NEW m \in DOMAIN ss, NEW n \in DOMAIN ss, m < n
      PROVE  SetFit(I, From1(m), From1(n))
  <2>1. Before(done[m], done[n])
    BY <1>6, <1>8 DEF FuseInv, DoneOK
  <2>2. ASSUME NEW k \in DOMAIN done[m], NEW l \in DOMAIN done[n]
        PROVE  SetFit(I, source[done[m][k]].origin, source[done[n][l]].origin)
    <3> DEFINE i == done[m][k]
               j == done[n][l]
    <3>1. i \in DOMAIN source /\ j \in DOMAIN source
      BY <1>4, <1>6
    <3>2. Conflict(source[i], source[j]) => i < j
      BY <2>1 DEF Before
    <3> HIDE DEF i, j
    <3>3. Solid(I, source[i]) /\ Solid(I, source[j])
      BY <3>1 DEF KeptSolid, Range
    <3>4. SetFit(I, source[i].origin, source[j].origin)
      <4>1. CASE i < j
        BY <3>1, <4>1 DEF KeptSolid, Keeps, KeptIn
      <4>2. CASE ~ Conflict(source[i], source[j])
        BY <3>3, <4>2, SolidFit
      <4> QED
        BY <3>2, <4>1, <4>2
    <3> QED
      BY <3>4 DEF i, j
  <2> QED
    BY <2>2 DEF SetFit
<1>9. \A m \in DOMAIN ss : From1(m) \subseteq OriginsOf(source)
  BY <1>4, <1>6, OriginAt
<1> HIDE DEF From1, P
<1>10. \A m, n \in DOMAIN ss : m < n => SetFit(I, OriginsOf(ss[m]), OriginsOf(ss[n]))
  BY <1>7, <1>8, FitParts
<1>11. /\ Keeps(I, FlattenSeq(ss))
       /\ \A x \in Range(FlattenSeq(ss)) : \E m \in DOMAIN ss : x \in Range(ss[m])
  BY <1>6, <1>7, <1>10, FlattenKept
<1>12. \A m \in DOMAIN ss : \A x \in Range(ss[m]) : x.origin \subseteq OriginsOf(source)
  BY <1>7, <1>9 DEF OriginsOf
<1> QED
  BY <1>11, <1>12 DEF OriginsOf

-----------------------------------------------------------------------------
(* From the rebased stream to what is dispatched                            *)

\* Only a measurement writes bits.
Bitless(s) == \A i \in DOMAIN s : s[i].gate # "Measure" => s[i].cbits = <<>>

\* The commands a rule writes write no bits, and so does a pass of rules.
LEMMA UnderBitless ==
  ASSUME NEW c, NEW d, Plain(d)
  PROVE  UnderConditionOf(c, d).cbits = <<>>
<1>1. d.cbits = <<>>
  BY MadeFields DEF Plain
<1> QED
  BY <1>1, Fields DEF UnderConditionOf

LEMMA LoweredBitless ==
  ASSUME NEW t, IsTarget(t), NEW c, Shaped(c), c.gate # "Measure" => c.cbits = <<>>, ~ Refused(t, c)
  PROVE  Listed(Lowered(t, c)) /\ Bitless(Lowered(t, c))
<1>1. CASE StaysAsIs(t, c)
  <2> DEFINE one == <<c>>
  <2>1. Lowered(t, c) = one
    BY <1>1, LoweredForm
  <2>2. Listed(one) /\ DOMAIN one = {1} /\ one[1] = c
    BY OneListed
  <2> HIDE DEF one
  <2> QED
    BY <2>1, <2>2 DEF Bitless
<1>2. CASE ~ StaysAsIs(t, c)
  <2> DEFINE rule == Decompose(t, c)
             low == Lowered(t, c)
  <2>1. Rule(rule)
    BY <1>2, DecomposeRule
  <2> HIDE DEF rule, low
  <2>2. Listed(rule) /\ \A k \in DOMAIN rule : Plain(rule[k])
    BY <2>1 DEF Rule, Listed
  <2>3. /\ Listed(low) /\ DOMAIN low = DOMAIN rule
        /\ \A k \in DOMAIN rule : low[k] = UnderConditionOf(c, rule[k])
    BY <1>2, <2>2, LoweredForm DEF rule, low
  <2>4. \A k \in DOMAIN low : low[k].cbits = <<>>
    BY <2>2, <2>3, UnderBitless
  <2> QED
    BY <2>3, <2>4 DEF Bitless, low
<1> QED
  BY <1>1, <1>2

LEMMA PassBitless ==
  ASSUME NEW t, IsTarget(t), NEW s, ShapedStream(s), Bitless(s), \A i \in DOMAIN s : ~ Refused(t, s[i])
  PROVE  Bitless(RebasePass(t, s))
<1> DEFINE ss == [i \in DOMAIN s |-> Lowered(t, s[i])]
           f == FlattenSeq(ss)
<1>1. ss = [i \in DOMAIN s |-> ss[i]] /\ \A i \in DOMAIN s : ss[i] = Lowered(t, s[i])
  OBVIOUS
<1>2. RebasePass(t, s) = f
  BY DEF RebasePass
<1> HIDE DEF ss
<1>3. Listed(ss) /\ DOMAIN ss = DOMAIN s
  BY <1>1, MappedListed DEF ShapedStream
<1>4. \A i \in DOMAIN ss : Listed(ss[i]) /\ Bitless(ss[i])
  BY <1>1, <1>3, LoweredBitless DEF ShapedStream, Bitless
<1>5. \A m \in DOMAIN f : \E i \in DOMAIN ss : \E j \in DOMAIN ss[i] : f[m] = ss[i][j]
  BY <1>3, <1>4, FlattenElements
<1> HIDE DEF f
<1>6. \A m \in DOMAIN f : f[m].gate # "Measure" => f[m].cbits = <<>>
  BY <1>4, <1>5 DEF Bitless
<1> QED
  BY <1>2, <1>6 DEF Bitless

\* Numbering the commands of a stream changes nothing else.
LEMMA TaggedOrigins ==
  ASSUME NEW s, ShapedStream(s), NEW u, u = Tagged(s)
  PROVE  /\ Listed(u) /\ DOMAIN u = DOMAIN s
         /\ \A i \in DOMAIN s : /\ Shaped(u[i]) /\ u[i].gate = s[i].gate /\ u[i].qubits = s[i].qubits
                                /\ u[i].cbits = s[i].cbits /\ u[i].origin = {i}
<1> DEFINE f == [i \in DOMAIN s |-> [s[i] EXCEPT !.origin = {i}]]
<1>1. f = [i \in DOMAIN s |-> f[i]] /\ \A i \in DOMAIN s : f[i] = [s[i] EXCEPT !.origin = {i}]
  OBVIOUS
<1>2. u = f
  BY DEF Tagged
<1> HIDE DEF f
<1>3. Listed(s) /\ \A i \in DOMAIN s : Shaped(s[i])
  BY DEF ShapedStream
<1>4. Listed(f) /\ DOMAIN f = DOMAIN s
  BY <1>1, <1>3, MappedListed
<1>5. ASSUME NEW i \in DOMAIN s
      PROVE  /\ Shaped(f[i]) /\ f[i].gate = s[i].gate /\ f[i].qubits = s[i].qubits
             /\ f[i].cbits = s[i].cbits /\ f[i].origin = {i}
  <2> DEFINE c == s[i]
             d == f[i]
             o == {i}
  <2>1. Shaped(c) /\ d = [c EXCEPT !.origin = o]
    BY <1>1, <1>3
  <2> HIDE DEF c, d, o
  <2>2. /\ Shaped(d) /\ d.gate = c.gate /\ d.qubits = c.qubits
        /\ d.cbits = c.cbits /\ d.origin = o
    BY <2>1, ShapedOrigin
  <2> QED
    BY <2>2 DEF c, d, o
<1> QED
  BY <1>2, <1>4, <1>5

LEMMA ProgramBitless ==
  ASSUME NEW s, IsProgram(s)
  PROVE  Bitless(Tagged(s))
<1> DEFINE u == Tagged(s)
<1>1. ShapedStream(s)
  BY StreamShaped DEF IsProgram
<1>2. DOMAIN u = DOMAIN s /\ \A i \in DOMAIN s : u[i].gate = s[i].gate /\ u[i].cbits = s[i].cbits
  BY <1>1, TaggedOrigins
<1> HIDE DEF u
<1>3. \A i \in DOMAIN s : s[i].gate # "Measure" => s[i].cbits = <<>>
  BY DEF IsProgram, IsStream, IsCommand
<1> QED
  BY <1>2, <1>3 DEF Bitless, u

\* A global phase has no qubits.
LEMMA PhaseBare ==
  ASSUME NEW c, HasShape(c), c.qubits \in Seq(Nat), c.gate = "GPhase"
  PROVE  c.qubits = <<>>
<1>1. NumQubits("GPhase") = 0
  BY DEF NumQubits, PairGates, Markers
<1>2. Len(c.qubits) = 0
  BY <1>1 DEF HasShape, Markers
<1> QED
  BY <1>2

\* The stream the optimiser starts from comes from itself.
LEMMA TaggedKept ==
  ASSUME NEW s, ShapedStream(s), FedStream(s), Bitless(s), NEW u, u = Tagged(s)
  PROVE  TracedStream(u, u) /\ KeptSolid(u, u)
<1>1. /\ Listed(u) /\ DOMAIN u = DOMAIN s
      /\ \A i \in DOMAIN s : /\ Shaped(u[i]) /\ u[i].gate = s[i].gate /\ u[i].qubits = s[i].qubits
                             /\ u[i].cbits = s[i].cbits /\ u[i].origin = {i}
  BY TaggedOrigins
<1>2. ASSUME NEW i \in DOMAIN u PROVE Traced(u, u[i]) /\ u[i].qubits \in Seq(Nat)
  <2>1. Fed(s[i]) /\ (s[i].gate # "Measure" => s[i].cbits = <<>>)
    BY <1>1 DEF FedStream, Bitless
  <2>2. s[i].qubits \in Seq(Nat) /\ (s[i].gate = "GPhase" => s[i].qubits = <<>>)
    BY <2>1, PhaseBare DEF Fed
  <2>3. Factory(u[i]) /\ Shaped(u[i]) /\ u[i].origin = {i}
    BY <1>1, <2>1, <2>2 DEF Factory
  <2>4. Resembles(u[i], u[i])
    BY <2>3, ResembleItself DEF Shaped
  <2> QED
    BY <1>1, <2>2, <2>3, <2>4 DEF Traced
<1>3. DOMAIN u \subseteq Nat
  BY <1>1, ListedLen
<1>4. ASSUME NEW i \in DOMAIN u, NEW j \in DOMAIN u, i < j PROVE SetFit(u, u[i].origin, u[j].origin)
  <2>1. u[i].origin = {i} /\ u[j].origin = {j} /\ ~ (j < i)
    BY <1>1, <1>3, <1>4
  <2> QED
    BY <2>1 DEF SetFit, MayPrecede
<1>5. Keeps(u, u)
  BY <1>1, <1>4 DEF Keeps, KeptIn
<1>6. \A x \in Range(u) : \E i \in DOMAIN u : x = u[i]
  BY DEF Range
<1>7. \A x \in Range(u) : Traced(u, x) /\ x.qubits \in Seq(Nat)
  BY <1>2, <1>6
<1>8. \A x \in Range(u) : Solid(u, x)
  BY <1>7, TracedSolid
<1> QED
  BY <1>5, <1>7, <1>8 DEF TracedStream, KeptSolid

\* What every phase hands to the next: no two commands whose order matters have
\* changed places on the way there.
OrdInv ==
  /\ phase \in {"rebase", "rebased"} => Bitless(stream)
  /\ phase \notin {"dispatch", "blocks", "ran"} => kernels = <<>>
  /\ phase = "passes" => KeptCalls(input, frames)
  /\ phase = "fuse" => TracedStream(input, stream)
  /\ phase = "optimized" => KeptSolid(input, stream)
  /\ phase \in {"dispatch", "blocks"} => Sending(input, kernels, parts)
  /\ phase = "blocks" => parts # <<>> /\ source = Head(parts) /\ FuseInv
  /\ phase = "ran" => Keeps(input, kernels)

\* Every step keeps it: the rebasing, the passes, the fusions and the dispatch.
LEMMA InitOrdInv == RunInit => OrdInv
<1> SUFFICES ASSUME RunInit PROVE OrdInv
  OBVIOUS
<1>1. PICK r \in Requests : input = Tagged(r.stream)
  BY DEF RunInit, TranspileInit
<1>2. IsProgram(r.stream)
  BY RequestAssumption
<1>3. phase = "rebase" /\ stream = input /\ kernels = <<>>
  BY DEF RunInit, TranspileInit
<1>4. Bitless(input)
  BY <1>1, <1>2, ProgramBitless
<1> QED
  BY <1>3, <1>4 DEF OrdInv

LEMMA RebaseOrdInv == ASSUME CancelInv, OrdInv, RebaseOnce, kernels' = kernels PROVE OrdInv'
<1>1. /\ phase = "rebase" /\ phase' \in {"rebase", "rebased", "refused"}
      /\ stream' = RebasePass(target, stream)
  BY DEF RebaseOnce
<1>2. \A i \in DOMAIN stream : ~ Refused(target, stream[i])
  BY DEF RebaseOnce, Refusal
<1>3. Bitless(stream')
  BY <1>1, <1>2, PassBitless DEF CancelInv, OrdInv
<1> QED
  BY <1>1, <1>3 DEF OrdInv

LEMMA StartOrdInv == ASSUME CancelInv, RefInv, OrdInv, OptStart, kernels' = kernels PROVE OrdInv'
<1> DEFINE s == Tagged(stream)
           none == <<>>
<1>1. phase = "rebased" /\ input' = s
  BY DEF OptStart
<1>2. TracedStream(s, s) /\ KeptSolid(s, s)
  BY <1>1, TaggedKept DEF CancelInv, RefInv, OrdInv
<1>3. CASE passes = <<>>
  <2>1. phase' = "optimized" /\ stream' = s
    BY <1>3 DEF OptStart
  <2> QED
    BY <1>1, <1>2, <2>1 DEF OrdInv
<1>4. CASE passes # <<>>
  <2>1. Optimise(s, none)
    BY <1>4 DEF OptStart
  <2>2. KeptCalls(s, none) /\ 1 \notin DOMAIN none
    BY NoCalls
  <2> HIDE DEF s, none
  <2>3. \/ phase' = "passes" /\ KeptCalls(s, frames')
        \/ phase' = "refused"
    BY <1>2, <2>1, <2>2, OptimiseKept
  <2> QED
    BY <1>1, <2>3 DEF OrdInv
<1> QED
  BY <1>3, <1>4

LEMMA PassOrdInv ==
  ASSUME RefInv, OrdInv, phase = "passes", kernels' = kernels,
         SkipRemoved \/ EnterRegion \/ LeaveBody \/ DropZero \/ CombineAdjacent \/ KeepAdjacent
           \/ CombineAcross \/ KeepAcross
  PROVE  OrdInv'
<1>1. input' = input
  BY DEF SkipRemoved, EnterRegion, LeaveBody, DropZero, CombineAdjacent, KeepAdjacent, CombineAcross,
         KeepAcross, Unchanging, Steady
<1>2. SoundStack(target, input, frames) /\ KeptCalls(input, frames)
  BY DEF RefInv, OrdInv
<1>3. \/ phase' = "passes" /\ KeptCalls(input, frames')
      \/ phase' = "refused"
  <2>1. CASE EnterRegion
    BY <1>2, <2>1, EnterKept
  <2>2. CASE LeaveBody
    BY <1>2, <2>2, LeaveKept
  <2>3. CASE SkipRemoved \/ DropZero \/ CombineAdjacent \/ KeepAdjacent \/ CombineAcross \/ KeepAcross
    <3>1. phase' = phase
      BY <2>3 DEF SkipRemoved, DropZero, CombineAdjacent, KeepAdjacent, CombineAcross, KeepAcross, Unchanging
    <3>2. KeptCalls(input, frames')
      BY <1>2, <2>3, RewriteKept
    <3> QED
      BY <3>1, <3>2
  <2> QED
    BY <2>1, <2>2, <2>3
<1> QED
  BY <1>1, <1>3 DEF OrdInv

LEMMA FinishOrdInv == ASSUME RefInv, OrdInv, FinishPass, kernels' = kernels PROVE OrdInv'
<1> DEFINE g == top.graph
           w == InOrderNodes(g)
           none == <<>>
           F == FrameOf(g, w, 0, none)
<1>1. /\ phase = "passes" /\ input' = input
      /\ Len(passes) > 1 => frames' = <<Frame(g)>> /\ phase' = "passes"
      /\ ~ (Len(passes) > 1) => stream' = ToCommands(g) /\ phase' = "fuse"
  BY DEF FinishPass
<1>2. Frame(g) = F
  BY DEF Frame, FrameOf
<1>3. <<F>> = <<F>> \o none
  OBVIOUS
<1>4. Len(none) = 0 /\ Listed(none) /\ 1 \notin DOMAIN none
  BY SomeTuples
<1>5. IsExact(g) /\ ShapedGraph(g) /\ FrameKept(input, top)
  BY <1>1, BelowSound, BelowKept DEF RefInv, OrdInv
<1>6. OrderedGraph(input, g) /\ NodesWired(g)
  BY <1>5 DEF FrameKept
<1> HIDE DEF g, w
<1>7. CASE Len(passes) > 1
  <2>1. FrameKept(input, F)
    BY <1>4, <1>6, FrameFits
  <2>2. KeptCalls(input, none)
    BY NoCalls
  <2>3. frames' = <<F>> \o none
    BY <1>1, <1>2, <1>3, <1>7
  <2> HIDE DEF F, none
  <2>4. Pushed(frames', F, none)
    BY <2>3 DEF Pushed
  <2>5. KeptCalls(input, frames')
    BY <1>4, <2>1, <2>2, <2>4, StackedKept
  <2> QED
    BY <1>1, <1>7, <2>5 DEF OrdInv
<1>8. CASE ~ (Len(passes) > 1)
  <2>1. TracedStream(input, ToCommands(g))
    BY <1>5, <1>6, ToCommandsTraced DEF ShapedGraph
  <2> QED
    BY <1>1, <1>8, <2>1 DEF OrdInv
<1> QED
  BY <1>7, <1>8

LEMMA FuseOrdInv == ASSUME RefInv, OrdInv, Fuse, kernels' = kernels PROVE OrdInv'
<1>1. /\ phase = "fuse" /\ input' = input /\ stream' = FusedFor(stream)
      /\ phase' \in {"optimized", "refused"}
  BY DEF Fuse
<1>2. TracedStream(input, stream) /\ AllSettled(target, stream)
  BY <1>1 DEF RefInv, OrdInv
<1>3. \A x \in Range(stream) : Traced(input, x) /\ x.qubits \in Seq(Nat)
  BY <1>2 DEF TracedStream, AllSettled, Settled
<1>4. KeptSolid(input, stream)
  BY <1>2, <1>3, TracedSolid DEF TracedStream, KeptSolid
<1>5. KeptSolid(input, FuseSingleQubitGates(stream))
  BY <1>4, FusionKept
<1>6. KeptSolid(input, stream')
  BY <1>1, <1>4, <1>5 DEF FusedFor
<1> QED
  BY <1>1, <1>6 DEF OrdInv

LEMMA BindOrdInv == ASSUME OrdInv, Bind PROVE OrdInv'
<1> DEFINE p == PartsOf(Bound(stream, binding))
           none == <<>>
<1>1. /\ phase = "optimized" /\ phase' = "dispatch" /\ parts' = p
      /\ input' = input /\ kernels' = kernels /\ kernels = none
  BY DEF Bind, OrdInv
<1>2. KeptSolid(input, Bound(stream, binding))
  BY <1>1, BoundSolid DEF OrdInv
<1>3. PartsKept(input, p)
  BY <1>2, PartsOfKept
<1>4. Keeps(input, none) /\ OriginsOf(none) = {}
  BY NothingKept
<1> HIDE DEF p, none
<1>5. \A k \in DOMAIN p : SetFit(input, OriginsOf(none), OriginsOf(p[k]))
  BY <1>4 DEF SetFit
<1>6. Sending(input, none, p)
  BY <1>3, <1>4, <1>5 DEF Sending
<1> QED
  BY <1>1, <1>6 DEF OrdInv

LEMMA DispatchOrdInv == ASSUME OrdInv, DispatchPart PROVE OrdInv'
<1> DEFINE h == Head(parts)
           m == IF dispatch = "single" THEN FuseSingleQubitGates(h) ELSE h
           rest == Tail(parts)
<1>1. /\ phase = "dispatch" /\ phase' = phase /\ input' = input /\ parts # <<>>
      /\ kernels' = kernels \o m /\ parts' = rest
  BY DEF DispatchPart, transpileVars, optVars
<1>2. Sending(input, kernels, parts)
  BY <1>1 DEF OrdInv
<1>3. KeptSolid(input, h)
  BY <1>1, <1>2, FirstPart
<1>4. KeptSolid(input, FuseSingleQubitGates(h)) /\ OriginsOf(FuseSingleQubitGates(h)) \subseteq OriginsOf(h)
  BY <1>3, FusionKept
<1>5. Keeps(input, m) /\ OriginsOf(m) \subseteq OriginsOf(h)
  BY <1>3, <1>4 DEF KeptSolid
<1> HIDE DEF m
<1>6. IsJoin(kernels', kernels, m)
  BY <1>1 DEF IsJoin
<1>7. Sending(input, kernels', rest)
  BY <1>1, <1>2, <1>5, <1>6, SendNext
<1> QED
  BY <1>1, <1>7 DEF OrdInv

\* A call of fuse_for_simulation starts with nothing scanned.
LEMMA StartedInv ==
  ASSUME NEW s, FactoryMade(s), FuseStart(s)
  PROVE  FuseInv' /\ source' = s
<1>1. /\ source' = s /\ at' = 1 /\ open' = {} /\ nextId' = 1 /\ done' = <<>>
      /\ front' = [w \in AllWires(s) |-> 0]
  BY DEF FuseStart
<1>2. Len(s) \in Nat
  BY DEF FactoryMade
<1>3. ScanOK'
  BY <1>1, <1>2 DEF ScanOK
<1>4. OpenOK'
  BY <1>1 DEF OpenOK
<1>5. DoneOK'
  BY <1>1 DEF DoneOK
<1> QED
  BY <1>1, <1>3, <1>4, <1>5 DEF FuseInv

\* Such a sequence has what the factories guarantee.
LEMMA SolidMade ==
  ASSUME NEW I, NEW s, KeptSolid(I, s)
  PROVE  FactoryMade(s)
<1>1. Listed(s) /\ \A x \in Range(s) : Solid(I, x)
  BY DEF KeptSolid, Keeps
<1>2. s \in Seq(Range(s))
  <2>1. PICK S : s \in Seq(S)
    BY <1>1 DEF Listed
  <2>2. s \in [1 .. Len(s) -> Range(s)] /\ Len(s) \in Nat
    BY <2>1 DEF Range
  <2> QED
    BY <2>2
<1>3. \A i \in DOMAIN s : s[i] \in Range(s)
  BY DEF Range
<1>4. ASSUME NEW i \in DOMAIN s
      PROVE  /\ Range(s[i].cbits) \subseteq s[i].bits
             /\ s[i].gate # "Measure" => s[i].cbits = <<>>
             /\ s[i].gate = "GPhase" => s[i].qubits = <<>>
  <2>1. Own(s[i]) /\ Factory(s[i])
    BY <1>1, <1>3 DEF Solid
  <2>2. Range(s[i].cbits) \subseteq s[i].bits
    BY <2>1, OwnBits
  <2> QED
    BY <2>1, <2>2 DEF Factory
<1> QED
  BY <1>2, <1>4 DEF FactoryMade

LEMMA StartBlocksOrdInv == ASSUME OrdInv, StartBlocks PROVE OrdInv'
<1> DEFINE h == Head(parts)
<1>1. /\ phase = "dispatch" /\ phase' = "blocks" /\ parts # <<>> /\ FuseStart(h)
      /\ input' = input /\ parts' = parts /\ kernels' = kernels
  BY DEF StartBlocks, runVars
<1>2. Sending(input, kernels, parts)
  BY <1>1 DEF OrdInv
<1>3. KeptSolid(input, h)
  BY <1>1, <1>2, FirstPart
<1> HIDE DEF h
<1>4. FactoryMade(h)
  BY <1>3, SolidMade
<1>5. FuseInv' /\ source' = h
  BY <1>1, <1>4, StartedInv
<1>6. Sending(input', kernels', parts') /\ parts' # <<>> /\ source' = Head(parts')
  BY <1>1, <1>2, <1>5 DEF h
<1> QED
  BY <1>1, <1>5, <1>6 DEF OrdInv

LEMMA FuseBlocksOrdInv == ASSUME OrdInv, FuseBlocks PROVE OrdInv'
<1>1. /\ phase = "blocks" /\ phase' = phase /\ FuseNext
      /\ input' = input /\ parts' = parts /\ kernels' = kernels
  BY DEF FuseBlocks, transpileVars, optVars, runVars
<1>2. FuseInv'
  BY <1>1, FuseInvStep DEF OrdInv
<1>3. source' = source
  BY <1>1 DEF FuseNext, EmitBlock, Place, OpenBlock, Fold
<1>4. Sending(input', kernels', parts') /\ parts' # <<>> /\ source' = Head(parts')
  BY <1>1, <1>3 DEF OrdInv
<1> QED
  BY <1>1, <1>2, <1>4 DEF OrdInv

LEMMA TakeOrdInv == ASSUME OrdInv, TakeBlocks PROVE OrdInv'
<1> DEFINE ss == [m \in DOMAIN done |-> Emitted(source, done[m])]
           m == FlattenSeq(ss)
           rest == Tail(parts)
<1>1. /\ phase = "blocks" /\ phase' = "dispatch" /\ input' = input
      /\ kernels' = kernels \o m /\ parts' = rest
  BY DEF TakeBlocks
<1>2. Sending(input, kernels, parts) /\ parts # <<>> /\ source = Head(parts) /\ FuseInv
  BY <1>1 DEF OrdInv
<1>3. KeptSolid(input, source)
  BY <1>2, FirstPart
<1>4. Keeps(input, m) /\ OriginsOf(m) \subseteq OriginsOf(source)
  BY <1>2, <1>3, BlocksKept
<1> HIDE DEF m
<1>5. IsJoin(kernels', kernels, m)
  BY <1>1 DEF IsJoin
<1>6. Sending(input, kernels', rest)
  BY <1>2, <1>4, <1>5, SendNext
<1> QED
  BY <1>1, <1>6 DEF OrdInv

LEMMA RanOrdInv == ASSUME OrdInv, Run PROVE OrdInv'
<1>1. phase = "dispatch" /\ phase' = "ran" /\ input' = input /\ kernels' = kernels
  BY DEF Run, runVars
<1> QED
  BY <1>1 DEF OrdInv, Sending

LEMMA RefuseOrdInv == ASSUME OrdInv, Refuse, kernels' = kernels PROVE OrdInv'
<1>1. phase = "rebase" /\ phase' = "refused"
  BY DEF Refuse
<1> QED
  BY <1>1 DEF OrdInv

LEMMA StutterOrdInv == ASSUME OrdInv, UNCHANGED vars PROVE OrdInv'
<1>1. UNCHANGED <<input, frames, stream, phase, parts, kernels, source, at, open, front, nextId, done>>
  BY DEF vars, transpileVars, optVars, fuseVars, runVars
<1>2. FuseInv => FuseInv'
  BY <1>1, FuseInvStep DEF fuseVars
<1> QED
  BY <1>1, <1>2 DEF OrdInv

LEMMA RunOrdInv == CancelInv /\ RefInv /\ OrdInv /\ [RunNext]_vars => OrdInv'
<1> SUFFICES ASSUME CancelInv, RefInv, OrdInv, [RunNext]_vars PROVE OrdInv'
  OBVIOUS
<1>1. CASE Transpile
  <2>1. kernels' = kernels
    BY <1>1 DEF Transpile, runVars
  <2>2. CASE RebaseOnce
    BY <2>1, <2>2, RebaseOrdInv
  <2>3. CASE Refuse
    BY <2>1, <2>3, RefuseOrdInv
  <2>4. CASE OptStart
    BY <2>1, <2>4, StartOrdInv
  <2>5. CASE FinishPass
    BY <2>1, <2>5, FinishOrdInv
  <2>6. CASE Fuse
    BY <2>1, <2>6, FuseOrdInv
  <2>7. CASE SkipRemoved \/ EnterRegion \/ LeaveBody \/ DropZero \/ CombineAdjacent \/ KeepAdjacent
               \/ CombineAcross \/ KeepAcross
    <3>1. phase = "passes"
      BY <2>7 DEF SkipRemoved, EnterRegion, LeaveBody, DropZero, CombineAdjacent, KeepAdjacent,
                  CombineAcross, KeepAcross, Working
    <3> QED
      BY <2>1, <2>7, <3>1, PassOrdInv
  <2> QED
    BY <1>1, <2>2, <2>3, <2>4, <2>5, <2>6, <2>7 DEF Transpile, TranspileNext, OptNext
<1>2. CASE Bind
  BY <1>2, BindOrdInv
<1>3. CASE DispatchPart
  BY <1>3, DispatchOrdInv
<1>4. CASE StartBlocks
  BY <1>4, StartBlocksOrdInv
<1>5. CASE FuseBlocks
  BY <1>5, FuseBlocksOrdInv
<1>6. CASE TakeBlocks
  BY <1>6, TakeOrdInv
<1>7. CASE Run
  BY <1>7, RanOrdInv
<1>8. CASE Finished \/ UNCHANGED vars
  BY <1>8, StutterOrdInv DEF Finished
<1> QED
  BY <1>1, <1>2, <1>3, <1>4, <1>5, <1>6, <1>7, <1>8 DEF RunNext

\* Whatever the optimiser removes or merges, in branch bodies too, and whatever
\* the fusions gather, two commands of the rebased stream whose order the
\* program may depend on never change places, except where they commute; no
\* command crosses a barrier, a branch marker or a measurement it depends on.
THEOREM OrderIsKept == Spec => []OrderKept
<1> DEFINE Inv == CancelInv /\ RefInv /\ OrdInv
<1>1. RunInit => Inv
  BY InitCancelInv, InitRefInv, InitOrdInv
<1>2. Inv /\ [RunNext]_vars => Inv'
  BY RunCancelInv, RunRefInv, RunOrdInv
<1>3. Inv => OrderKept
  BY OrderKeptIs DEF OrdInv, KeptSolid, Keeps
<1> QED
  BY <1>1, <1>2, <1>3, PTL DEF Spec

=============================================================================
