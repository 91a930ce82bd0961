------------------------ MODULE DeviceCompileProofs -------------------------
(***************************************************************************)
(* A circuit compiled for a device runs what the device can run, whatever  *)
(* the router did, for every circuit, gate set, device and architecture.   *)
(*                                                                         *)
(* A command is followed through compile_for_device: after the first       *)
(* rebase it has two operands at most, the router runs it on distinct      *)
(* wires, one per qubit, joined by an edge, the second rebase meets only   *)
(* gates it keeps, gates on one qubit, CX along an edge and SWAPs of an    *)
(* undirected device, and none of their rules writes a gate against the    *)
(* direction of an edge.                                                   *)
(***************************************************************************)
EXTENDS DeviceCompile, CircuitRunProofs

-----------------------------------------------------------------------------
(* What the second rebase meets and writes                                  *)

\* What a device can run, as far as the edges go.
Fit(directed, c) ==
  /\ Len(c.qubits) = 2 => Router!IsConnected(c.qubits[1], c.qubits[2])
  /\ directed => ~ AgainstEdge(c)

\* What the second rebase meets: what stays, gates on one qubit and their rules,
\* a CX, and a SWAP where edges have no direction.
Singles == {"H", "S", "Sdg", "P", "Rx", "Ry", "Rz", "GPhase"}

Single(c) == c.gate \in Singles /\ Len(c.qubits) # 2

Lean(t, directed, c) ==
  /\ Fit(directed, c)
  /\ \/ StaysAsIs(t, c)
     \/ Single(c)
     \/ c.gate = "CX"
     \/ c.gate = "SWAP" /\ ~ directed /\ Len(c.qubits) = 2

LeanStream(t, directed, s) == Listed(s) /\ \A i \in DOMAIN s : Lean(t, directed, s[i])

SingleRule(s) == \E S : s \in Seq(S) /\ \A d \in S : Single(d)

LEMMA SingleOver ==
  ASSUME NEW S, NEW s \in Seq(S), \A d \in S : Single(d)
  PROVE  SingleRule(s)
BY DEF SingleRule

LEMMA MakeSingle ==
  ASSUME NEW g \in Singles, NEW q, Len(q) # 2, NEW p
  PROVE  Single(Make(g, q, p, <<>>, <<>>))
BY Fields DEF Make, Single

LEMMA OnSingle ==
  ASSUME NEW g \in Singles, NEW q, Len(q) # 2
  PROVE  Single(On(g, q)) /\ \A p : Single(By(g, q, p))
BY MakeSingle DEF On, By

LEMMA PhaseSingle == \A p : Single(Phase(p))
<1>1. "GPhase" \in Singles /\ Len(<<>>) # 2
  BY DEF Singles
<1> QED
  BY <1>1, OnSingle DEF Phase

\* A single gate is never between two wires.
LEMMA SingleFit ==
  ASSUME NEW c, Single(c), NEW directed
  PROVE  Fit(directed, c)
BY DEF Fit, Single, AgainstEdge

LEMMA ShortRules ==
  /\ \A a : Single(a) => SingleRule(<<a>>)
  /\ \A a, b : Single(a) /\ Single(b) => SingleRule(<<a, b>>)
  /\ \A a, b, c : Single(a) /\ Single(b) /\ Single(c) => SingleRule(<<a, b, c>>)
<1>1. ASSUME NEW a, Single(a) PROVE SingleRule(<<a>>)
  <2> DEFINE S == {a}
             s == <<a>>
  <2>1. s \in Seq(S) /\ \A d \in S : Single(d)
    BY <1>1
  <2> HIDE DEF S, s
  <2>2. SingleRule(s)
    BY <2>1, SingleOver
  <2> QED
    BY <2>2 DEF s
<1>2. ASSUME NEW a, NEW b, Single(a), Single(b) PROVE SingleRule(<<a, b>>)
  <2> DEFINE S == {a, b}
             s == <<a, b>>
  <2>1. s \in Seq(S) /\ \A d \in S : Single(d)
    BY <1>2
  <2> HIDE DEF S, s
  <2>2. SingleRule(s)
    BY <2>1, SingleOver
  <2> QED
    BY <2>2 DEF s
<1>3. ASSUME NEW a, NEW b, NEW c, Single(a), Single(b), Single(c) PROVE SingleRule(<<a, b, c>>)
  <2> DEFINE S == {a, b, c}
             s == <<a, b, c>>
  <2>1. s \in Seq(S) /\ \A d \in S : Single(d)
    BY <1>3
  <2> HIDE DEF S, s
  <2>2. SingleRule(s)
    BY <2>1, SingleOver
  <2> QED
    BY <2>2 DEF s
<1> QED
  BY <1>1, <1>2, <1>3

LEMMA JoinSingles ==
  ASSUME NEW a, NEW b, SingleRule(a), SingleRule(b)
  PROVE  SingleRule(a \o b)
<1>1. PICK S : a \in Seq(S) /\ \A d \in S : Single(d)
  BY DEF SingleRule
<1>2. PICK T : b \in Seq(T) /\ \A d \in T : Single(d)
  BY DEF SingleRule
<1> DEFINE U == S \cup T
           s == a \o b
<1>3. a \in Seq(U) /\ b \in Seq(U)
  BY <1>1, <1>2
<1>4. s \in Seq(U)
  BY <1>3
<1>5. \A d \in U : Single(d)
  BY <1>1, <1>2
<1> HIDE DEF U, s
<1>6. SingleRule(s)
  BY <1>4, <1>5, SingleOver
<1> QED
  BY <1>6 DEF s

\* The rules of gates on one qubit write gates on one qubit.
LEMMA SingleDecompose ==
  ASSUME NEW t, t.registered = <<>>, NEW c, Single(c), ~ StaysAsIs(t, c), ~ Refused(t, c)
  PROVE  SingleRule(Decompose(t, c))
<1> DEFINE g == c.gate
           q == c.qubits
<1>1. ~ Registers(t, g) /\ g \in Decomposable(t.rules)
  BY DEF Refused, Registers
<1>2. Len(q) # 2 /\ g \in Singles
  BY DEF Single
<1>3. /\ \A h \in Singles : Single(On(h, q)) /\ \A p : Single(By(h, q, p))
      /\ \A p : Single(Phase(p))
  BY <1>2, OnSingle, PhaseSingle
<1>4. CASE t.rules = "multi_control" /\ g \in PhaseKeptRules
  <2>1. Decompose(t, c) = PhaseKeptRule(g, q, c.params)
    BY <1>1, <1>4 DEF Decompose
  <2>2. g = "H" \/ g = "S"
    BY <1>2, <1>4 DEF PhaseKeptRules, Singles
  <2>3. CASE g = "H"
    <3>1. Decompose(t, c) = <<By("Rz", q, Angle(2)), By("Ry", q, PI_2), Phase(PI_2)>>
      BY <2>1, <2>3 DEF PhaseKeptRule
    <3>2. Single(By("Rz", q, Angle(2))) /\ Single(By("Ry", q, PI_2)) /\ Single(Phase(PI_2))
      BY <1>3 DEF Singles
    <3> QED
      BY <3>1, <3>2, ShortRules
  <2>4. CASE g = "S"
    <3>1. Decompose(t, c) = <<By("P", q, PI_2)>>
      BY <2>1, <2>4 DEF PhaseKeptRule
    <3>2. Single(By("P", q, PI_2))
      BY <1>3 DEF Singles
    <3> QED
      BY <3>1, <3>2, ShortRules
  <2> QED
    BY <2>2, <2>3, <2>4
<1>5. CASE ~ (t.rules = "multi_control" /\ g \in PhaseKeptRules)
  <2>1. Decompose(t, c) = Builtin(c)
    BY <1>1, <1>5 DEF Decompose
  <2>2. g \in {"GPhase", "P", "Sdg"} \/ (g \in {"Rx", "Ry"})
    BY <1>1, <1>2, <1>5 DEF Singles, Decomposable, Overrides, OneQubitRules, DroppedGates,
       ControlledRotationRules, ControlledRules, PairRules
  <2>3. CASE g = "GPhase"
    <3>1. Builtin(c) = <<>>
      BY <2>3 DEF Builtin, DroppedGates, OneQubitRules, ControlledRotationRules, ControlledRules, PairRules
    <3> DEFINE S == {}
               s == <<>>
    <3>2. s \in Seq(S) /\ \A d \in S : Single(d)
      OBVIOUS
    <3> HIDE DEF S, s
    <3>3. SingleRule(s)
      BY <3>2, SingleOver
    <3> QED
      BY <2>1, <3>1, <3>3 DEF s
  <2>4. CASE g = "P"
    <3>1. Builtin(c) = <<Phase(Half(c.params[1])), By("Rz", q, c.params[1])>>
      BY <2>4 DEF Builtin, DroppedGates, OneQubitRules, OneQubitRule, ControlledRotationRules,
         ControlledRules, PairRules
    <3>2. Single(Phase(Half(c.params[1]))) /\ Single(By("Rz", q, c.params[1]))
      BY <1>3 DEF Singles
    <3> QED
      BY <2>1, <3>1, <3>2, ShortRules
  <2>5. CASE g = "Sdg"
    <3>1. Builtin(c) = <<By("P", q, NegParam(PI_2))>>
      BY <2>5 DEF Builtin, DroppedGates, OneQubitRules, OneQubitRule, ControlledRotationRules,
         ControlledRules, PairRules
    <3>2. Single(By("P", q, NegParam(PI_2)))
      BY <1>3 DEF Singles
    <3> QED
      BY <2>1, <3>1, <3>2, ShortRules
  <2>6. CASE g \in {"Rx", "Ry"}
    <3>1. Builtin(c) = RzOnlyRule(g, q, c.params)
      BY <2>6 DEF Builtin, DroppedGates, OneQubitRules, ControlledRotationRules, ControlledRules, PairRules
    <3> DEFINE turned == Conjugated(<<On("H", q)>>, <<By("Rz", q, c.params[1])>>)
    <3>2. Single(On("H", q)) /\ Single(By("Rz", q, c.params[1])) /\ Single(On("Sdg", q)) /\ Single(On("S", q))
      BY <1>3 DEF Singles
    <3>3. /\ SingleRule(<<On("H", q)>>) /\ SingleRule(<<By("Rz", q, c.params[1])>>)
          /\ SingleRule(<<On("Sdg", q)>>) /\ SingleRule(<<On("S", q)>>)
      BY <3>2, ShortRules
    <3>4. SingleRule(turned)
      BY <3>3, JoinSingles DEF Conjugated
    <3> HIDE DEF turned
    <3>5. SingleRule(<<On("Sdg", q)>> \o turned)
      BY <3>3, <3>4, JoinSingles
    <3>6. SingleRule((<<On("Sdg", q)>> \o turned) \o <<On("S", q)>>)
      BY <3>3, <3>5, JoinSingles
    <3> QED
      BY <2>1, <3>1, <3>4, <3>6 DEF RzOnlyRule, turned
  <2> QED
    BY <2>2, <2>3, <2>4, <2>5, <2>6
<1> QED
  BY <1>4, <1>5

\* A SWAP becomes three CX over its own wires.
LEMMA SwapLean ==
  ASSUME NEW t, t.registered = <<>>, NEW c, Lean(t, FALSE, c), ~ StaysAsIs(t, c),
         c.gate = "SWAP", Len(c.qubits) = 2
  PROVE  LeanStream(t, FALSE, Lowered(t, c))
<1> DEFINE q == c.qubits
           there == On("CX", q)
           back == On("CX", <<q[2], q[1]>>)
<1>1. Decompose(t, c) = <<there, back, there>>
  <2>1. ~ Registers(t, "SWAP")
    BY DEF Registers
  <2>2. Decompose(t, c) = Builtin(c)
    BY <2>1 DEF Decompose, PhaseKeptRules
  <2>3. Builtin(c) = PairRule("SWAP", q, c.params)
    BY DEF Builtin, DroppedGates, OneQubitRules, ControlledRotationRules, ControlledRules, PairRules
  <2> QED
    BY <2>2, <2>3 DEF PairRule
<1>2. there.gate = "CX" /\ back.gate = "CX" /\ there.qubits = q /\ back.qubits = <<q[2], q[1]>>
  BY Fields DEF On, Make
<1>3. Router!IsConnected(q[1], q[2]) /\ Router!IsConnected(q[2], q[1])
  BY DEF Lean, Fit, Router!IsConnected
<1> HIDE DEF there, back
<1> DEFINE rule == <<there, back, there>>
<1>4. Listed(rule) /\ DOMAIN rule = 1 .. 3
  BY SomeTuples DEF Some
<1>5. rule[1] = there /\ rule[2] = back /\ rule[3] = there
  OBVIOUS
<1>6. \A k \in 1 .. 3 : rule[k] = there \/ rule[k] = back
  BY <1>5
<1> HIDE DEF rule
<1>7. /\ Listed(Lowered(t, c)) /\ DOMAIN Lowered(t, c) = 1 .. 3
      /\ \A k \in 1 .. 3 : Lowered(t, c)[k] = UnderConditionOf(c, rule[k])
  BY <1>1, <1>4, LoweredForm DEF rule
<1>8. ASSUME NEW d, d = there \/ d = back PROVE Lean(t, FALSE, UnderConditionOf(c, d))
  <2> DEFINE e == UnderConditionOf(c, d)
  <2>1. e.gate = "CX" /\ (e.qubits = q \/ e.qubits = <<q[2], q[1]>>)
    BY <1>2, <1>8, UnderFields
  <2> HIDE DEF e
  <2>2. Router!IsConnected(e.qubits[1], e.qubits[2])
    BY <1>3, <2>1
  <2>3. Lean(t, FALSE, e)
    BY <2>1, <2>2 DEF Lean, Fit
  <2> QED
    BY <2>3 DEF e
<1> QED
  BY <1>6, <1>7, <1>8 DEF LeanStream

LEMMA LoweredLean ==
  ASSUME NEW t, t.registered = <<>>, NEW dir \in BOOLEAN, NEW c, Lean(t, dir, c), ~ Refused(t, c)
  PROVE  LeanStream(t, dir, Lowered(t, c))
<1>1. CASE StaysAsIs(t, c)
  BY <1>1, OneListed, LoweredForm DEF LeanStream
<1>2. CASE ~ StaysAsIs(t, c) /\ Single(c)
  <2> DEFINE rule == Decompose(t, c)
  <2>1. SingleRule(rule)
    BY <1>2, SingleDecompose
  <2> HIDE DEF rule
  <2>2. Listed(rule) /\ \A k \in DOMAIN rule : Single(rule[k])
    BY <2>1 DEF SingleRule, Listed
  <2>3. /\ Listed(Lowered(t, c)) /\ DOMAIN Lowered(t, c) = DOMAIN rule
        /\ \A k \in DOMAIN rule : Lowered(t, c)[k] = UnderConditionOf(c, rule[k])
    BY <1>2, <2>2, LoweredForm DEF rule
  <2>4. ASSUME NEW d, Single(d) PROVE Lean(t, dir, UnderConditionOf(c, d))
    <3>1. Single(UnderConditionOf(c, d))
      BY <2>4, UnderFields DEF Single
    <3> QED
      BY <3>1, SingleFit DEF Lean
  <2> QED
    BY <2>2, <2>3, <2>4 DEF LeanStream
<1>3. CASE ~ StaysAsIs(t, c) /\ ~ Single(c)
  <2>1. c.gate # "CX"
    <3>1. "CX" \notin Decomposable(t.rules)
      BY DEF Decomposable, Overrides, OneQubitRules, DroppedGates, ControlledRotationRules,
             ControlledRules, PairRules, PhaseKeptRules
    <3> QED
      BY <1>3, <3>1 DEF Refused, Registers
  <2>2. c.gate = "SWAP" /\ dir = FALSE /\ Len(c.qubits) = 2
    BY <1>3, <2>1 DEF Lean
  <2> QED
    BY <1>3, <2>2, SwapLean
<1> QED
  BY <1>1, <1>2, <1>3

LEMMA PassLean ==
  ASSUME NEW t, t.registered = <<>>, NEW dir \in BOOLEAN, NEW s, LeanStream(t, dir, s),
         \A i \in DOMAIN s : ~ Refused(t, s[i])
  PROVE  LeanStream(t, dir, RebasePass(t, s))
<1> DEFINE ss == [i \in DOMAIN s |-> Lowered(t, s[i])]
<1>1. ss = [i \in DOMAIN s |-> ss[i]] /\ \A i \in DOMAIN s : ss[i] = Lowered(t, s[i])
  OBVIOUS
<1>2. RebasePass(t, s) = FlattenSeq(ss)
  BY DEF RebasePass
<1> HIDE DEF ss
<1>3. Listed(ss) /\ DOMAIN ss = DOMAIN s
  BY <1>1, MappedListed DEF LeanStream
<1>4. \A i \in DOMAIN ss : LeanStream(t, dir, ss[i])
  BY <1>1, <1>3, LoweredLean DEF LeanStream
<1>5. \A i \in DOMAIN ss : Listed(ss[i]) /\ \A j \in DOMAIN ss[i] : Lean(t, dir, ss[i][j])
  BY <1>4 DEF LeanStream
<1> DEFINE f == FlattenSeq(ss)
<1>6. /\ Listed(f)
      /\ \A m \in DOMAIN f : \E i \in DOMAIN ss : \E j \in DOMAIN ss[i] : f[m] = ss[i][j]
  BY <1>3, <1>5, FlattenElements
<1> HIDE DEF f
<1>7. \A m \in DOMAIN f : Lean(t, dir, f[m])
  BY <1>5, <1>6
<1> QED
  BY <1>2, <1>6, <1>7 DEF LeanStream, f

LEMMA RebasedLean ==
  ASSUME NEW t, t.registered = <<>>, NEW dir \in BOOLEAN, NEW s, LeanStream(t, dir, s)
  PROVE  LeanStream(t, dir, Rebased(t, s))
<1>0. PICK f : IsCascade(f, t, s)
  BY CascadeRuns
<1>1. /\ Cascade(t, s) = f[10] /\ f[0] = [stream |-> s, asked |-> FALSE]
      /\ \A k \in 0 .. 9 : f[k + 1] = PassOver(t, f[k])
  BY <1>0 DEF IsCascade
<1> DEFINE P == {k \in 0 .. 10 : LeanStream(t, dir, f[k].stream)}
<1>2. 0 \in P
  BY <1>1
<1>3. ASSUME NEW k \in 0 .. 9, k \in P PROVE k + 1 \in P
  <2>1. LeanStream(t, dir, f[k].stream)
    BY <1>3
  <2>2. f[k + 1] = PassOver(t, f[k])
    BY <1>1
  <2>3. LeanStream(t, dir, f[k + 1].stream)
    BY <2>1, <2>2, PassLean DEF PassOver
  <2> QED
    BY <2>3
<1> HIDE DEF P
<1>4. 10 \in P
  BY <1>2, <1>3, TenSteps
<1> QED
  BY <1>1, <1>4 DEF P, Rebased

-----------------------------------------------------------------------------
\* What the router sends to the device.
Sent(t, directed, rebased, c) ==
  /\ Fit(directed, c)
  /\ rebased =>
       \/ StaysAsIs(t, c)
       \/ c.gate = "H" /\ Len(c.qubits) = 1
       \/ c.gate = "SWAP" /\ Len(c.qubits) = 2 /\ c.qubits[1] # c.qubits[2]

SentStream(t, directed, rebased, s) ==
  Listed(s) /\ \A i \in DOMAIN s : Sent(t, directed, rebased, s[i])

\* A gate put under the condition of another keeps its own name and operands.
LEMMA UnderKeeps ==
  ASSUME NEW c, NEW g, NEW q
  PROVE  Under(c, On(g, q)).gate = g /\ Under(c, On(g, q)).qubits = q
BY DEF Under, On, Make, CommandOf

\* The three CX of a lowered SWAP run along the edge, its H gates on one wire each.
LEMMA LoweredSwapLean ==
  ASSUME NEW t, NEW c, Router!IsConnected(c.qubits[1], c.qubits[2]), c.qubits[1] # c.qubits[2],
         Len(c.qubits) = 2
  PROVE  LeanStream(t, TRUE, LoweredSwap(c))
<1> DEFINE q == AlongEdge(c.qubits)
           x == Under(c, On("CX", q))
           h == Under(c, On("H", <<q[1]>>))
           k == Under(c, On("H", <<q[2]>>))
<1>1. Router!HasDirectedEdge(q[1], q[2]) /\ Len(q) = 2
  BY DEF AlongEdge, Router!IsConnected
<1> HIDE DEF q
<1>2. x.gate = "CX" /\ x.qubits = q /\ h.gate = "H" /\ h.qubits = <<q[1]>>
      /\ k.gate = "H" /\ k.qubits = <<q[2]>>
  BY UnderKeeps
<1>3. LoweredSwap(c) = <<x>> \o Conjugated(<<h, k>>, <<x>>) \o <<x>>
  BY DEF LoweredSwap, q
<1> HIDE DEF x, h, k
<1>4. Lean(t, TRUE, x)
  BY <1>1, <1>2 DEF Lean, Fit, AgainstEdge, Router!IsConnected
<1>5. Lean(t, TRUE, h) /\ Lean(t, TRUE, k)
  <2>1. Single(h) /\ Single(k)
    BY <1>2 DEF Single, Singles
  <2> QED
    BY <2>1, SingleFit DEF Lean
<1> DEFINE S == {x, h, k}
           s == LoweredSwap(c)
<1>6. \A d \in S : Lean(t, TRUE, d)
  BY <1>4, <1>5
<1>7. <<x>> \in Seq(S) /\ <<h, k>> \in Seq(S)
  OBVIOUS
<1> HIDE DEF S
<1>8. s \in Seq(S)
  BY <1>3, <1>7 DEF Conjugated
<1> HIDE DEF s
<1>9. Listed(s) /\ \A i \in DOMAIN s : s[i] \in S
  BY <1>8 DEF Listed
<1> QED
  BY <1>6, <1>9 DEF LeanStream, s

LEMMA SwapsLoweredLean ==
  ASSUME NEW t, NEW s, SentStream(t, TRUE, TRUE, s), "SWAP" \notin t.allowed
  PROVE  LeanStream(t, TRUE, LowerSwaps(s))
<1> DEFINE ss == [i \in DOMAIN s |-> IF s[i].gate = "SWAP" THEN LoweredSwap(s[i]) ELSE <<s[i]>>]
<1>1. /\ ss = [i \in DOMAIN s |-> ss[i]]
      /\ \A i \in DOMAIN s : ss[i] = IF s[i].gate = "SWAP" THEN LoweredSwap(s[i]) ELSE <<s[i]>>
  OBVIOUS
<1>2. LowerSwaps(s) = FlattenSeq(ss)
  BY DEF LowerSwaps
<1> HIDE DEF ss
<1>3. Listed(ss) /\ DOMAIN ss = DOMAIN s
  BY <1>1, MappedListed DEF SentStream
<1>4. ASSUME NEW i \in DOMAIN ss PROVE LeanStream(t, TRUE, ss[i])
  <2>1. Sent(t, TRUE, TRUE, s[i])
    BY <1>3 DEF SentStream
  <2>2. CASE s[i].gate = "SWAP"
    <3>1. ~ StaysAsIs(t, s[i])
      BY <2>2 DEF StaysAsIs, Opaque, Markers
    <3>2. /\ Len(s[i].qubits) = 2 /\ s[i].qubits[1] # s[i].qubits[2]
          /\ Router!IsConnected(s[i].qubits[1], s[i].qubits[2])
      BY <2>1, <2>2, <3>1 DEF Sent, Fit
    <3>3. ss[i] = LoweredSwap(s[i])
      BY <1>1, <1>3, <2>2
    <3> QED
      BY <3>2, <3>3, LoweredSwapLean
  <2>3. CASE s[i].gate # "SWAP"
    <3>1. ss[i] = <<s[i]>>
      BY <1>1, <1>3, <2>3
    <3>2. Lean(t, TRUE, s[i])
      <4> DEFINE d == s[i]
      <4>1. Sent(t, TRUE, TRUE, d) /\ d.gate # "SWAP"
        BY <2>1, <2>3
      <4> HIDE DEF d
      <4>2. Fit(TRUE, d) /\ (StaysAsIs(t, d) \/ (d.gate = "H" /\ Len(d.qubits) = 1))
        BY <4>1 DEF Sent
      <4>3. Lean(t, TRUE, d)
        <5>1. CASE StaysAsIs(t, d)
          BY <4>2, <5>1 DEF Lean
        <5>2. CASE d.gate = "H" /\ Len(d.qubits) = 1
          <6>1. Len(d.qubits) # 2 /\ d.gate \in Singles
            BY <5>2 DEF Singles
          <6> QED
            BY <4>2, <6>1 DEF Lean, Single
        <5> QED
          BY <4>2, <5>1, <5>2
      <4> QED
        BY <4>3 DEF d
    <3> QED
      BY <3>1, <3>2, OneListed DEF LeanStream
  <2> QED
    BY <2>2, <2>3
<1>5. \A i \in DOMAIN ss : Listed(ss[i]) /\ \A j \in DOMAIN ss[i] : Lean(t, TRUE, ss[i][j])
  BY <1>4 DEF LeanStream
<1> DEFINE f == FlattenSeq(ss)
<1>6. /\ Listed(f)
      /\ \A m \in DOMAIN f : \E i \in DOMAIN ss : \E j \in DOMAIN ss[i] : f[m] = ss[i][j]
  BY <1>3, <1>5, FlattenElements
<1> HIDE DEF f
<1>7. \A m \in DOMAIN f : Lean(t, TRUE, f[m])
  BY <1>5, <1>6
<1> QED
  BY <1>2, <1>6, <1>7 DEF LeanStream, f

-----------------------------------------------------------------------------
(* Phase by phase                                                           *)

\* The phases of a compilation for a device.
DevicePhases == {"compile", "route", "routed", "directions", "compiled", "unfit", "unrouted", "misdirected"}

\* The rest of the run neither starts from one nor ends in one.
LEMMA RunPhases ==
  ASSUME RunNext
  PROVE  phase \notin {"compile", "route", "routed", "directions", "compiled"}
         /\ (phase' \in DevicePhases => phase' = phase)
<1> USE DEF DevicePhases
<1>1. CASE Transpile
  <2>1. CASE RebaseOnce
    BY <2>1 DEF RebaseOnce
  <2>2. CASE Refuse
    BY <2>2 DEF Refuse
  <2>3. CASE OptStart
    BY <2>3 DEF OptStart, Optimise
  <2>4. CASE SkipRemoved
    BY <2>4 DEF SkipRemoved, Unchanging
  <2>5. CASE EnterRegion
    BY <2>5 DEF EnterRegion, Optimise
  <2>6. CASE LeaveBody
    <3>1. phase = "passes" /\ (phase' \in {"passes", "refused"} \/ phase' = phase)
      BY <2>6, Zenon DEF LeaveBody, Optimise
    <3> QED
      BY <3>1
  <2>7. CASE FinishPass
    BY <2>7 DEF FinishPass
  <2>8. CASE DropZero
    BY <2>8 DEF DropZero, Working, Unchanging
  <2>9. CASE CombineAdjacent
    BY <2>9 DEF CombineAdjacent, Working, Unchanging
  <2>10. CASE KeepAdjacent
    BY <2>10 DEF KeepAdjacent, Working, Unchanging
  <2>11. CASE CombineAcross
    BY <2>11 DEF CombineAcross, Working, Unchanging
  <2>12. CASE KeepAcross
    BY <2>12 DEF KeepAcross, Working, Unchanging
  <2>13. CASE Fuse
    BY <2>13 DEF Fuse
  <2> QED
    BY <1>1, <2>1, <2>2, <2>3, <2>4, <2>5, <2>6, <2>7, <2>8, <2>9, <2>10, <2>11, <2>12, <2>13
    DEF Transpile, TranspileNext, OptNext
<1>2. CASE Bind
  BY <1>2 DEF Bind
<1>3. CASE DispatchPart
  BY <1>3 DEF DispatchPart, transpileVars, optVars
<1>4. CASE StartBlocks
  BY <1>4 DEF StartBlocks
<1>5. CASE FuseBlocks
  BY <1>5 DEF FuseBlocks, transpileVars, optVars
<1>6. CASE TakeBlocks
  BY <1>6 DEF TakeBlocks
<1>7. CASE Run
  BY <1>7 DEF Run
<1>8. CASE Finished
  BY <1>8 DEF Finished, vars, transpileVars, optVars
<1> QED
  BY <1>1, <1>2, <1>3, <1>4, <1>5, <1>6, <1>7, <1>8 DEF RunNext

\* What the router writes for one command: fit, and what it had to stay.
LEMMA TranslatedSent ==
  ASSUME NEW t, device.directed \in BOOLEAN, NEW reb \in BOOLEAN, NEW c, Shaped(c),
         reb => StaysAsIs(t, c),
         NEW w, Listed(w), Len(w) = Len(c.qubits),
         Len(c.qubits) = 2 =>
           \/ Router!RunsAsIs(c.gate, w[1], w[2], device.directed)
           \/ Router!RunsFlipped(c.gate, w[1], w[2], device.directed)
  PROVE  SentStream(t, device.directed, reb, Translated(c, w))
<1> DEFINE dir == device.directed
<1>2. w = <<>> => c.gate \in Markers \cup {"GPhase", "Barrier"}
  <2>1. w = <<>> => c.qubits = <<>>
    <3>1. w = <<>> => Len(c.qubits) = 0
      OBVIOUS
    <3> QED
      BY <3>1 DEF Shaped, Listed
  <2> QED
    BY <2>1 DEF Shaped, HasOperands
<1>3. ASSUME NEW q, Listed(q), q = <<>> => c.gate \in Markers \cup {"GPhase", "Barrier"}
      PROVE  [c EXCEPT !.qubits = q].gate = c.gate /\ [c EXCEPT !.qubits = q].qubits = q
  BY <1>3, ShapedQubits
<1>4. CASE Len(w) = 2 /\ Router!RunsFlipped(c.gate, w[1], w[2], dir)
  <2> DEFINE h == Under(c, On("H", <<w[1]>>))
             k == Under(c, On("H", <<w[2]>>))
             q == <<w[2], w[1]>>
             x == [c EXCEPT !.qubits = q]
             s == <<h, k, x, h, k>>
             S == {h, k, x}
  <2>1. Translated(c, w) = s
    BY <1>4 DEF Translated, HConjugated
  <2>2. h.gate = "H" /\ h.qubits = <<w[1]>> /\ k.gate = "H" /\ k.qubits = <<w[2]>>
    BY UnderKeeps
  <2>3. Listed(q) /\ q # <<>>
    BY SomeTuples DEF Some
  <2>4. x.gate = c.gate /\ x.qubits = q
    BY <1>3, <2>3
  <2>5. /\ c.gate = "CX" /\ Router!IsConnected(w[1], w[2]) /\ Router!HasDirectedEdge(w[2], w[1])
    BY <1>4 DEF Router!RunsFlipped
  <2> HIDE DEF h, k, x
  <2>6. q[1] = w[2] /\ q[2] = w[1]
    OBVIOUS
  <2> HIDE DEF q
  <2>7. Fit(dir, x)
    BY <2>4, <2>5, <2>6 DEF Fit, AgainstEdge, Router!IsConnected
  <2>8. reb => StaysAsIs(t, x)
    BY <2>4 DEF StaysAsIs
  <2>9. Sent(t, dir, reb, x)
    BY <2>7, <2>8 DEF Sent
  <2>10. Single(h) /\ Single(k) /\ Len(h.qubits) = 1 /\ Len(k.qubits) = 1
    BY <2>2 DEF Single, Singles
  <2>11. Sent(t, dir, reb, h) /\ Sent(t, dir, reb, k)
    BY <2>2, <2>10, SingleFit DEF Sent
  <2>12. s \in Seq(S)
    OBVIOUS
  <2>13. \A d \in S : Sent(t, dir, reb, d)
    BY <2>9, <2>11
  <2> HIDE DEF s, S
  <2>14. Listed(s) /\ \A i \in DOMAIN s : s[i] \in S
    BY <2>12 DEF Listed
  <2> QED
    BY <2>1, <2>13, <2>14 DEF SentStream
<1>5. CASE ~ (Len(w) = 2 /\ Router!RunsFlipped(c.gate, w[1], w[2], dir))
  <2> DEFINE x == [c EXCEPT !.qubits = w]
  <2>1. Translated(c, w) = <<x>>
    BY <1>5 DEF Translated
  <2>2. x.gate = c.gate /\ x.qubits = w
    BY <1>2, <1>3
  <2> HIDE DEF x
  <2>3. Len(w) = 2 => Router!RunsAsIs(c.gate, w[1], w[2], dir)
    BY <1>5
  <2>4. Fit(dir, x)
    BY <2>2, <2>3 DEF Fit, AgainstEdge, Router!RunsAsIs
  <2>5. reb => StaysAsIs(t, x)
    BY <2>2 DEF StaysAsIs
  <2>6. Sent(t, dir, reb, x)
    BY <2>4, <2>5 DEF Sent
  <2> QED
    BY <2>1, <2>6, OneListed DEF SentStream
<1> QED
  BY <1>4, <1>5

LEMMA SentJoin ==
  ASSUME NEW t, NEW dir, NEW reb, NEW r, NEW s, SentStream(t, dir, reb, r), SentStream(t, dir, reb, s)
  PROVE  SentStream(t, dir, reb, r \o s)
<1>1. PICK A : r \in Seq(A)
  BY DEF SentStream, Listed
<1>2. PICK B : s \in Seq(B)
  BY DEF SentStream, Listed
<1> DEFINE C == A \cup B
           f == r \o s
<1>3. r \in Seq(C) /\ s \in Seq(C)
  BY <1>1, <1>2
<1>4. f \in Seq(C)
  BY <1>3
<1>5. \A i \in DOMAIN f : (\E j \in DOMAIN r : f[i] = r[j]) \/ (\E j \in DOMAIN s : f[i] = s[j])
  <2> TAKE i \in DOMAIN f
  <2>1. i \in 1 .. Len(r) + Len(s) /\ Len(r) \in Nat /\ Len(s) \in Nat
    BY <1>3
  <2>2. CASE i =< Len(r)
    BY <1>3, <2>1, <2>2
  <2>3. CASE i > Len(r)
    <3>1. f[i] = s[i - Len(r)] /\ i - Len(r) \in DOMAIN s
      BY <1>3, <2>1, <2>3
    <3> QED
      BY <3>1
  <2> QED
    BY <2>1, <2>2, <2>3
<1> HIDE DEF f, C
<1>6. Listed(f)
  BY <1>4 DEF Listed
<1> QED
  BY <1>5, <1>6 DEF SentStream, f

\* No two wires carry one qubit.
OneToOne ==
  /\ carried \in [Router!Qubits -> Router!Qubits]
  /\ \A a, b \in Router!Qubits : carried[a] = carried[b] => a = b

FitStream == Listed(stream) /\ \A i \in DOMAIN stream : Fit(device.directed, stream[i])

\* A compilation for a device, phase by phase.
Asked ==
  /\ target \in [allowed : SUBSET STRING, rules : STRING, registered : {<<>>}]
  /\ device \in [routed : BOOLEAN, directed : BOOLEAN, rebased : BOOLEAN]

UnderRouting ==
  /\ device.routed /\ ShapedStream(input)
  /\ device.rebased => InTarget(target, input)
  /\ SentStream(target, device.directed, device.rebased, stream)
  /\ routing = "routing" => OneToOne

AfterRouting == device.routed /\ SentStream(target, device.directed, device.rebased, stream)

AlongEdges == (device.rebased => InTarget(target, stream)) /\ (device.routed => FitStream)

DeviceInv ==
  /\ phase \in {"compile", "route", "routed", "directions", "compiled"} => Asked
  /\ phase = "compile" => ShapedStream(logical) /\ routing = "unplaced"
  /\ phase = "route" => UnderRouting
  /\ phase = "routed" => AfterRouting
  /\ phase = "directions" => device.routed
  /\ phase \in {"directions", "compiled"} => AlongEdges
  /\ phase # "misdirected"

LEMMA DeviceInvInit == DeviceInit => DeviceInv
<1> SUFFICES ASSUME DeviceInit PROVE DeviceInv
  OBVIOUS
<1>1. CASE RunInit
  BY <1>1 DEF RunInit, TranspileInit, DeviceInv
<1>2. CASE phase = "compile"
  <2>1. CASE RunInit
    BY <2>1 DEF RunInit, TranspileInit, DeviceInv
  <2>2. CASE ~ RunInit
    <3>1. PICK r \in Compilations : logical = Tagged(r.stream) /\ target = r.target /\ device = r.device
      BY <2>2 DEF DeviceInit
    <3>2. Asked
      BY <3>1, CompilationAssumption DEF Asked
    <3>3. ShapedStream(logical)
      BY <3>1, CompilationAssumption, StreamShaped, TaggedShaped
    <3> QED
      BY <1>2, <3>2, <3>3 DEF DeviceInv, DeviceInit
  <2> QED
    BY <2>1, <2>2
<1> QED
  BY <1>1, <1>2 DEF DeviceInit

LEMMA RebaseFirstInv ==
  ASSUME DeviceInv, RebaseFirst
  PROVE  DeviceInv'
<1> DEFINE first == IF device.routed THEN [target EXCEPT !.allowed = Routable(@)] ELSE target
           rebased == IF device.rebased THEN Rebased(first, logical) ELSE logical
<1>1. Asked /\ ShapedStream(logical) /\ phase = "compile"
  BY DEF DeviceInv, RebaseFirst
<1>2. /\ phase' = IF device.rebased /\ Throws(first, logical) THEN "refused"
                  ELSE IF device.routed THEN "route" ELSE "compiled"
      /\ input' = rebased /\ stream' = (IF device.routed THEN <<>> ELSE rebased)
      /\ target' = target /\ device' = device /\ routing' = routing /\ carried' = carried
  BY DEF RebaseFirst, Passed, routerVars
<1>3. IsTarget(first) /\ \A c : StaysAsIs(first, c) => StaysAsIs(target, c)
  <2>1. /\ first.registered = <<>> /\ first.allowed \subseteq target.allowed
        /\ first = [allowed |-> first.allowed, rules |-> first.rules, registered |-> first.registered]
    BY <1>1 DEF Asked, Routable, IsTarget
  <2> HIDE DEF first
  <2>2. IsTarget(first)
    BY <2>1 DEF IsTarget
  <2> QED
    BY <2>1, <2>2 DEF StaysAsIs
<1> HIDE DEF first
<1>4. ShapedStream(rebased)
  BY <1>1, <1>3, RebasedShaped
<1>5. device.rebased /\ ~ Throws(first, logical) => InTarget(target, rebased)
  BY <1>3 DEF Throws, InTarget
<1> HIDE DEF rebased
<1>6. Asked'
  BY <1>1, <1>2 DEF Asked
<1>7. CASE device.rebased /\ Throws(first, logical)
  BY <1>2, <1>7 DEF DeviceInv
<1>8. CASE ~ (device.rebased /\ Throws(first, logical)) /\ device.routed
  <2>1. phase' = "route" /\ input' = rebased /\ stream' = <<>>
    BY <1>2, <1>8
  <2>2. SentStream(target, device.directed, device.rebased, <<>>)
    BY SomeTuples DEF SentStream
  <2>3. routing # "routing"
    BY <1>1 DEF DeviceInv
  <2>4. UnderRouting'
    BY <1>2, <1>4, <1>5, <1>8, <2>1, <2>2, <2>3 DEF UnderRouting
  <2> QED
    BY <1>6, <2>1, <2>4 DEF DeviceInv
<1>9. CASE ~ (device.rebased /\ Throws(first, logical)) /\ ~ device.routed
  <2>1. phase' = "compiled" /\ stream' = rebased
    BY <1>2, <1>9
  <2>2. AlongEdges'
    BY <1>2, <1>5, <1>9, <2>1 DEF AlongEdges
  <2> QED
    BY <1>6, <2>1, <2>2 DEF DeviceInv
<1> QED
  BY <1>7, <1>8, <1>9

\* A step of the router that writes nothing keeps what routing has so far.
LEMMA RoutesKept ==
  ASSUME DeviceInv, Routes, phase' = phase, SentStream(target, device.directed, device.rebased, stream'),
         routing' = "routing" => OneToOne'
  PROVE  DeviceInv'
<1>1. Asked /\ UnderRouting /\ phase' = "route"
  BY DEF DeviceInv, Routes
<1>2. target' = target /\ device' = device /\ input' = input
  BY DEF Routes, Passed
<1>3. Asked'
  BY <1>1, <1>2 DEF Asked
<1>4. UnderRouting'
  BY <1>1, <1>2 DEF UnderRouting
<1> QED
  BY <1>1, <1>3, <1>4 DEF DeviceInv

LEMMA PlaceInv ==
  ASSUME DeviceInv, RoutePlace
  PROVE  DeviceInv'
<1>1. Routes /\ phase' = phase /\ stream' = stream /\ carried' \in Router!Placements
  BY DEF RoutePlace, Router!Place
<1>2. SentStream(target, device.directed, device.rebased, stream')
  BY <1>1 DEF DeviceInv, Routes, UnderRouting
<1>3. OneToOne'
  BY <1>1 DEF OneToOne, Router!Placements
<1> QED
  BY <1>1, <1>2, <1>3, RoutesKept

LEMMA CommandInv ==
  ASSUME DeviceInv, RouteCommand
  PROVE  DeviceInv'
<1>1. PICK i \in DOMAIN input :
        /\ Router!Run(i)
        /\ stream' = stream \o
             Translated(input[i], [k \in DOMAIN input[i].qubits |-> WireOf(input[i].qubits[k])])
  BY DEF RouteCommand
<1>2. Routes /\ phase' = phase /\ UnderRouting /\ Asked
  BY DEF DeviceInv, Routes, RouteCommand
<1>3. routing = "routing" /\ routing' = routing /\ carried' = carried
  BY <1>1 DEF Router!Run
<1>4. OneToOne /\ OneToOne'
  BY <1>2, <1>3 DEF UnderRouting, OneToOne
<1> DEFINE c == input[i]
           w == [k \in DOMAIN c.qubits |-> WireOf(c.qubits[k])]
<1>5. PICK v \in [DOMAIN c.qubits -> Router!Qubits] : Router!DeviceRuns(c, v)
  BY <1>1 DEF Router!Run
<1>6. Shaped(c) /\ (device.rebased => StaysAsIs(target, c))
  BY <1>2 DEF UnderRouting, ShapedStream, InTarget
<1>7. \A k \in DOMAIN c.qubits : w[k] = WireOf(c.qubits[k])
  OBVIOUS
<1>8. w = [k \in DOMAIN c.qubits |-> w[k]]
  OBVIOUS
<1> HIDE DEF c, w
<1>9. \A k \in DOMAIN c.qubits : w[k] = v[k]
  <2> TAKE k \in DOMAIN c.qubits
  <2>1. v[k] \in Router!Qubits /\ carried[v[k]] = c.qubits[k]
    BY <1>5 DEF Router!DeviceRuns
  <2>2. WireOf(c.qubits[k]) \in Router!Qubits /\ carried[WireOf(c.qubits[k])] = c.qubits[k]
    BY <2>1 DEF WireOf
  <2> QED
    BY <1>4, <1>7, <2>1, <2>2 DEF OneToOne
<1>10. /\ Len(c.qubits) =< 2
       /\ Len(c.qubits) = 2 =>
            \/ Router!RunsAsIs(c.gate, w[1], w[2], device.directed)
            \/ Router!RunsFlipped(c.gate, w[1], w[2], device.directed)
  <2>1. Len(c.qubits) = 2 => 1 \in DOMAIN c.qubits /\ 2 \in DOMAIN c.qubits
    BY <1>6 DEF Shaped, Listed
  <2> QED
    BY <1>5, <1>9, <2>1 DEF Router!DeviceRuns
<1>11. SentStream(target, device.directed, device.rebased, Translated(c, w))
  <2>1. device.directed \in BOOLEAN /\ device.rebased \in BOOLEAN
    BY <1>2 DEF Asked
  <2>2. Listed(w) /\ Len(w) = Len(c.qubits)
    BY <1>6, <1>8, MappedListed DEF Shaped
  <2> QED
    BY <1>6, <1>10, <2>1, <2>2, TranslatedSent
<1>12. SentStream(target, device.directed, device.rebased, stream')
  <2>1. stream' = stream \o Translated(c, w)
    BY <1>1 DEF c, w
  <2> QED
    BY <1>2, <1>11, <2>1, SentJoin DEF UnderRouting
<1> QED
  BY <1>2, <1>4, <1>12, RoutesKept

LEMMA SwapInv ==
  ASSUME DeviceInv, RouteSwap
  PROVE  DeviceInv'
<1>1. PICK a \in Router!Qubits, b \in Router!Qubits :
        a # b /\ Router!Swap(a, b) /\ stream' = Append(stream, On("SWAP", <<a, b>>))
  BY DEF RouteSwap
<1>2. Routes /\ phase' = phase /\ UnderRouting
  BY DEF DeviceInv, Routes, RouteSwap
<1>3. /\ routing = "routing" /\ Router!IsConnected(a, b)
      /\ carried' = [carried EXCEPT ![a] = carried[b], ![b] = carried[a]]
  BY <1>1 DEF Router!Swap
<1>4. OneToOne
  BY <1>2, <1>3 DEF UnderRouting
<1>5. OneToOne'
  <2>1. /\ carried' \in [Router!Qubits -> Router!Qubits]
        /\ \A p \in Router!Qubits :
             carried'[p] = IF p = b THEN carried[a] ELSE IF p = a THEN carried[b] ELSE carried[p]
    BY <1>1, <1>3, <1>4 DEF OneToOne
  <2> QED
    BY <1>1, <1>4, <2>1 DEF OneToOne
<1> DEFINE d == On("SWAP", <<a, b>>)
<1>6. d.gate = "SWAP" /\ d.qubits = <<a, b>>
  BY Fields DEF On, Make
<1> HIDE DEF d
<1>7. Sent(target, device.directed, device.rebased, d)
  BY <1>1, <1>3, <1>6 DEF Sent, Fit, AgainstEdge, Router!IsAsymmetric
<1>8. SentStream(target, device.directed, device.rebased, <<d>>)
  BY <1>7, OneListed DEF SentStream
<1>9. stream' = stream \o <<d>>
  BY <1>1, <1>2 DEF d, UnderRouting, SentStream, Listed
<1>10. SentStream(target, device.directed, device.rebased, stream')
  BY <1>2, <1>8, <1>9, SentJoin DEF UnderRouting
<1> QED
  BY <1>2, <1>5, <1>10, RoutesKept

LEMMA SecondInv ==
  ASSUME DeviceInv, RebaseSecond
  PROVE  DeviceInv'
<1> DEFINE lowered == SwapsLowered(stream)
<1>1. Asked /\ AfterRouting
  BY DEF DeviceInv, RebaseSecond
<1>2. /\ phase' = IF device.rebased /\ Throws(target, lowered) THEN "refused" ELSE "directions"
      /\ stream' = (IF device.rebased THEN Rebased(target, lowered) ELSE lowered)
      /\ target' = target /\ device' = device
  BY DEF RebaseSecond, Passed
<1>3. Asked'
  BY <1>1, <1>2 DEF Asked
<1>4. CASE device.rebased
  <2>1. LeanStream(target, device.directed, lowered)
    <3>1. CASE device.directed /\ "SWAP" \notin target.allowed
      <4>1. device.directed = TRUE /\ device.rebased = TRUE
        BY <1>1, <1>4, <3>1 DEF Asked
      <4>2. SentStream(target, TRUE, TRUE, stream)
        BY <1>1, <4>1 DEF AfterRouting
      <4>3. lowered = LowerSwaps(stream)
        BY <1>4, <3>1 DEF SwapsLowered
      <4> QED
        BY <3>1, <4>1, <4>2, <4>3, SwapsLoweredLean
    <3>2. CASE ~ (device.directed /\ "SWAP" \notin target.allowed)
      <4>1. lowered = stream
        BY <3>2 DEF SwapsLowered
      <4>2. ASSUME NEW c, Sent(target, device.directed, device.rebased, c)
            PROVE  Lean(target, device.directed, c)
        <5>1. Fit(device.directed, c)
          BY <4>2 DEF Sent
        <5>2. CASE StaysAsIs(target, c)
          BY <5>1, <5>2 DEF Lean
        <5>3. CASE c.gate = "H" /\ Len(c.qubits) = 1
          <6>1. Single(c)
            BY <5>3 DEF Single, Singles
          <6> QED
            BY <5>1, <6>1 DEF Lean
        <5>4. CASE c.gate = "SWAP" /\ Len(c.qubits) = 2 /\ ~ StaysAsIs(target, c)
          <6>1. "SWAP" \notin target.allowed
            BY <5>4 DEF StaysAsIs
          <6> QED
            BY <3>2, <5>1, <5>4, <6>1 DEF Lean
        <5> QED
          BY <1>4, <4>2, <5>2, <5>3, <5>4 DEF Sent
      <4> QED
        BY <1>1, <4>1, <4>2 DEF AfterRouting, SentStream, LeanStream
    <3> QED
      BY <3>1, <3>2
  <2> HIDE DEF lowered
  <2>2. LeanStream(target, device.directed, Rebased(target, lowered))
    <3>1. target.registered = <<>> /\ device.directed \in BOOLEAN
      BY <1>1 DEF Asked
    <3> QED
      BY <2>1, <3>1, RebasedLean
  <2>3. CASE Throws(target, lowered)
    BY <1>2, <1>4, <2>3 DEF DeviceInv
  <2>4. CASE ~ Throws(target, lowered)
    <3>1. phase' = "directions" /\ stream' = Rebased(target, lowered)
      BY <1>2, <1>4, <2>4
    <3>2. InTarget(target, stream')
      BY <2>4, <3>1 DEF Throws
    <3>3. FitStream'
      BY <1>2, <2>2, <3>1 DEF FitStream, LeanStream, Lean
    <3>4. AlongEdges'
      BY <1>2, <3>2, <3>3 DEF AlongEdges
    <3> QED
      BY <1>1, <1>2, <1>3, <3>1, <3>4 DEF DeviceInv, AfterRouting
  <2> QED
    BY <2>3, <2>4
<1>5. CASE ~ device.rebased
  <2>1. phase' = "directions" /\ stream' = stream
    BY <1>2, <1>5 DEF SwapsLowered
  <2>2. FitStream'
    BY <1>1, <1>2, <2>1 DEF FitStream, AfterRouting, SentStream, Sent
  <2>3. AlongEdges'
    BY <1>2, <1>5, <2>2 DEF AlongEdges
  <2> QED
    BY <1>1, <1>2, <1>3, <2>1, <2>3 DEF DeviceInv, AfterRouting
<1> QED
  BY <1>4, <1>5

\* What a device runs fits it: the last check of the directions finds nothing.
LEMMA DirectionsInv ==
  ASSUME DeviceInv, AssertDirections
  PROVE  DeviceInv'
<1>1. phase = "directions" /\ Asked /\ AlongEdges /\ device.routed
  BY DEF DeviceInv, AssertDirections
<1>2. target' = target /\ device' = device /\ stream' = stream
  BY DEF AssertDirections, Passed
<1>3. ~ (device.directed /\ \E i \in DOMAIN stream : AgainstEdge(stream[i]))
  BY <1>1 DEF AlongEdges, FitStream, Fit
<1>4. phase' = "compiled"
  BY <1>3 DEF AssertDirections
<1>5. Asked' /\ AlongEdges'
  BY <1>1, <1>2 DEF Asked, AlongEdges, FitStream
<1> QED
  BY <1>4, <1>5 DEF DeviceInv

LEMMA DeviceInvStep == DeviceInv /\ [DeviceNext]_deviceVars => DeviceInv'
<1> SUFFICES ASSUME DeviceInv, [DeviceNext]_deviceVars PROVE DeviceInv'
  OBVIOUS
<1>1. CASE RejectWidth
  BY <1>1 DEF RejectWidth, DeviceInv
<1>2. CASE RebaseFirst
  BY <1>2, RebaseFirstInv
<1>3. CASE RoutePlace
  BY <1>3, PlaceInv
<1>4. CASE RouteCommand
  BY <1>4, CommandInv
<1>5. CASE RouteSwap
  BY <1>5, SwapInv
<1>6. CASE RouteRefused
  BY <1>6 DEF RouteRefused, DeviceInv
<1>7. CASE RouteDone
  <2>1. Asked /\ UnderRouting /\ phase' = "routed"
    BY <1>7 DEF DeviceInv, RouteDone, Routes
  <2>2. target' = target /\ device' = device /\ stream' = stream
    BY <1>7 DEF RouteDone, Routes, Passed
  <2>3. Asked' /\ AfterRouting'
    BY <2>1, <2>2 DEF Asked, UnderRouting, AfterRouting
  <2> QED
    BY <2>1, <2>3 DEF DeviceInv
<1>8. CASE RebaseSecond
  BY <1>8, SecondInv
<1>9. CASE AssertDirections
  BY <1>9, DirectionsInv
<1>10. CASE Deliver
  BY <1>10 DEF Deliver, DeviceInv
<1>11. CASE RunNext /\ UNCHANGED <<device, logical, routerVars>>
  <2>1. phase' \notin {"compile", "route", "routed", "directions", "compiled"} /\ phase' # "misdirected"
    BY <1>11, RunPhases DEF DevicePhases, DeviceInv
  <2> QED
    BY <2>1 DEF DeviceInv
<1>12. CASE UNCHANGED deviceVars
  <2>1. /\ phase' = phase /\ target' = target /\ device' = device /\ logical' = logical /\ input' = input
        /\ stream' = stream /\ routing' = routing /\ carried' = carried
    BY <1>12 DEF deviceVars, vars, transpileVars, optVars, routerVars
  <2> QED
    BY <2>1 DEF DeviceInv, Asked, UnderRouting, AfterRouting, AlongEdges, FitStream, OneToOne
<1>13. CASE Rejected
  BY <1>12, <1>13 DEF Rejected
<1> QED
  BY <1>1, <1>2, <1>3, <1>4, <1>5, <1>6, <1>7, <1>8, <1>9, <1>10, <1>11, <1>12, <1>13
  DEF DeviceNext, Compile

THEOREM DevicePhasesHold == DeviceSpec => []DeviceInv
BY DeviceInvInit, DeviceInvStep, PTL DEF DeviceSpec

LEMMA DeviceInvFits == DeviceInv => FitsTheDevice
BY DEF DeviceInv, FitsTheDevice, AlongEdges, FitStream, Fit

\* Whatever the router chose and the rules wrote, a compiled stream has the gates
\* and the edges of its device.
THEOREM DeviceFits == DeviceSpec => []FitsTheDevice
BY DevicePhasesHold, DeviceInvFits, PTL

=============================================================================
