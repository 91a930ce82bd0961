-------------------------- MODULE RegisterSemantics --------------------------
(***************************************************************************)
(* What a command stream does to the register, exactly: the kernels of     *)
(* QarpSimulator::apply_command, the per-shot rules of                     *)
(* apply_command_trajectory and the branch dispatch of run                 *)
(* (simulator/qarp_simulator.cpp).  iSWAP, iSWAPdg and ECR have no kernel:  *)
(* theirs are the matrices the Qulacs emitter writes.                      *)
(*                                                                         *)
(* A basis state is the set of the qubits that read one.  Every amplitude  *)
(* is an integer combination of the first n powers of z = e^(i pi/n), over *)
(* a power of the square root of two, and z^n = -1.  It is the tuple of    *)
(* its n coefficients: n = 4 does for quarter turns, n = 32 for eighths of *)
(* them.  Phases are counted in units of e^(i pi/32).                      *)
(***************************************************************************)
EXTENDS Gates

ZeroOf(n) == [i \in 1 .. n |-> 0]
OneOf(n)  == [i \in 1 .. n |-> IF i = 1 THEN 1 ELSE 0]

Plus(x, y) == [i \in DOMAIN x |-> x[i] + y[i]]

\* x * e^(i pi e/32), for e a multiple of 32/n.
Turn(x, e) ==
  LET n == Len(x)
      steps == ((e % 64) * n) \div 32
      k == steps % n
      sign == IF steps < n THEN 1 ELSE -1
  IN [i \in 1 .. n |-> sign * (IF i > k THEN x[i - k] ELSE -x[i - k + n])]

TimesRootTwo(x) == Plus(Turn(x, 8), Turn(x, -8))

Flip(b, q) == (b \ {q}) \cup ({q} \ b)
Bit(b, q)  == IF q \in b THEN 1 ELSE 0

\* The gate a controlled gate applies to its last qubits.
Base ==
  [CX |-> "X", CY |-> "Y", CZ |-> "Z", CH |-> "H", CS |-> "S", CSdg |-> "Sdg",
   CSX |-> "SX", CSXdg |-> "SXdg", CRx |-> "Rx", CRy |-> "Ry", CRz |-> "Rz",
   CP |-> "P", CU |-> "U", CCX |-> "X", CSWAP |-> "SWAP", MCZ |-> "Z"]

BaseOf(g) == IF g \in DOMAIN Base THEN Base[g] ELSE g
ActedOn(c) == SubSeq(c.qubits, IF c.gate = "CSWAP" THEN 2 ELSE Len(c.qubits), Len(c.qubits))

\* Powers of the square root of two the kernel of gate g divides by.
Halving(g) ==
  CASE g \in {"H", "SX", "SXdg", "ECR"} -> 1
    [] g \in {"Rx", "Ry", "RXX", "RYY", "U"} -> 2
    [] OTHER -> 0

\* cos(v/2) on b and -i sin(v/2), turned by e, from the flipped state.
Rotation(v, b, flipped, e) == <<<<b, v>>, <<b, -v>>, <<flipped, v + 32 + e>>, <<flipped, e - v>>>>

\* The terms <<input state, phase>> that make up output state b when gate g
\* with angles v acts on the qubits t.
GateTerms(g, t, v, b) ==
  LET q == t[1]
      one == Bit(b, q)
      both == Flip(Flip(b, q), t[2])
      equal == one = Bit(b, t[2])
      sign == IF q \in b THEN 1 ELSE -1
  IN CASE g = "Z"      -> <<<<b, 32 * one>>>>
       [] g = "S"      -> <<<<b, 16 * one>>>>
       [] g = "Sdg"    -> <<<<b, -16 * one>>>>
       [] g = "T"      -> <<<<b, 8 * one>>>>
       [] g = "Tdg"    -> <<<<b, -8 * one>>>>
       [] g = "Rz"     -> <<<<b, sign * v[1]>>>>
       [] g = "P"      -> <<<<b, 2 * v[1] * one>>>>
       [] g = "RZZ"    -> <<<<b, IF equal THEN -v[1] ELSE v[1]>>>>
       [] g = "GPhase" -> <<<<b, 2 * v[1]>>>>
       [] g = "X"      -> <<<<Flip(b, q), 0>>>>
       [] g = "Y"      -> <<<<Flip(b, q), 16 * sign>>>>
       [] g = "SWAP"   -> <<<<IF equal THEN b ELSE both, 0>>>>
       [] g = "iSWAP"  -> <<IF equal THEN <<b, 0>> ELSE <<both, 16>>>>
       [] g = "iSWAPdg" -> <<IF equal THEN <<b, 0>> ELSE <<both, -16>>>>
       [] g = "ECR"    -> <<<<Flip(b, q), 0>>, <<both, -16 * sign>>>>
       [] g = "H"      -> <<<<b \ {q}, 0>>, <<b \cup {q}, 32 * one>>>>
       [] g = "SX"     -> <<<<b, 8>>, <<Flip(b, q), -8>>>>
       [] g = "SXdg"   -> <<<<b, -8>>, <<Flip(b, q), 8>>>>
       [] g = "Rx"     -> Rotation(v[1], b, Flip(b, q), 0)
       [] g = "RXX"    -> Rotation(v[1], b, both, 0)
       [] g = "RYY"    -> Rotation(v[1], b, both, IF equal THEN 32 ELSE 0)
       [] g = "Ry"     -> Rotation(v[1], b, Flip(b, q), 16 * sign)
       [] g = "U"      -> LET turned == Rotation(v[1], b, Flip(b, q), 16 * sign)
                          IN [k \in 1 .. 4 |-> <<turned[k][1], turned[k][2]
                                + 2 * v[2] * one + 2 * v[3] * Bit(turned[k][1], q)>>]
       [] OTHER        -> <<<<b, 0>>>>

\* Where a control reads zero the state stays, over the same denominator.
Idle(g, b) ==
  CASE Halving(g) = 0 -> <<<<b, 0>>>>
    [] Halving(g) = 1 -> <<<<b, 8>>, <<b, -8>>>>
    [] Halving(g) = 2 -> <<<<b, 0>>, <<b, 0>>>>

Terms(c, b, binding) ==
  LET g == BaseOf(c.gate)
      t == IF c.gate \in DOMAIN Base THEN ActedOn(c) ELSE c.qubits
      v == [k \in DOMAIN c.params |-> Value(c.params[k], binding)]
      moved == GateTerms(g, t, v, b)
  IN IF ~ (Operands(c) \ Range(t) \subseteq b) THEN Idle(g, b)
     ELSE IF c.gate = "CU" THEN [k \in DOMAIN moved |-> <<moved[k][1], moved[k][2] + 2 * v[4]>>]
     ELSE moved

\* A register operator, over sqrt(2)^scale: for each input basis state the
\* output states it reaches, with their amplitudes.
Identity(Q, n) ==
  [scale |-> 0, size |-> n, col |-> [b \in SUBSET Q |-> [a \in {b} |-> OneOf(n)]]]

Amplitude(op, b, a) == IF a \in DOMAIN op.col[b] THEN op.col[b][a] ELSE ZeroOf(op.size)

AsFunction(pairs) == [x \in {p[1] : p \in pairs} |-> (CHOOSE p \in pairs : p[1] = x)[2]]

ApplyGate(c, op, binding) ==
  LET terms == AsFunction({<<a, Terms(c, a, binding)>> : a \in DOMAIN op.col})
      zero == ZeroOf(op.size)
      Sum(v, t) == FoldLeft(LAMBDA x, k : IF k[1] \in DOMAIN v THEN Plus(x, Turn(v[k[1]], k[2])) ELSE x,
                            zero, t)
      Column(v) ==
        LET sums == {<<a, Sum(v, terms[a])>> : a \in DOMAIN op.col}
        IN AsFunction({p \in sums : p[2] # zero})
  IN [op EXCEPT !.scale = @ + Halving(BaseOf(c.gate)),
                !.col = AsFunction({<<b, Column(@[b])>> : b \in DOMAIN @})]

\* A Custom gate applies its factors in order.
ApplyUnitary(c, op, binding) ==
  IF c.gate = "Custom"
  THEN FoldLeft(LAMBDA o, f : ApplyGate(f, o, binding), op, c.factors)
  ELSE ApplyGate(c, op, binding)

\* P0_gate and P1_gate: keep the output states where q reads one or zero.
Project(q, one, op) ==
  [op EXCEPT !.col = [b \in DOMAIN @ |-> Restrict(@[b], {a \in DOMAIN @[b] : (q \in a) = one})]]

Holds(cond, reg) == \A k \in DOMAIN cond : reg[cond[k][1]] = cond[k][2]

\* apply_command_trajectory with the outcome of each measurement and reset
\* given, and the branch dispatch of run_range; off counts the regions being
\* skipped.
Step(c, st, outcome, binding) ==
  LET one == outcome[c.origin]
      flipX == Make("X", c.qubits, <<>>, <<>>, <<>>)
  IN CASE c.gate = "BranchBegin" ->
            [st EXCEPT !.off = IF @ = 0 /\ Holds(c.cond, st.reg) THEN 0 ELSE @ + 1]
       [] c.gate = "BranchElse" ->
            [st EXCEPT !.off = IF @ = 0 THEN 1 ELSE IF @ = 1 THEN 0 ELSE @]
       [] c.gate = "BranchEnd" -> [st EXCEPT !.off = IF @ = 0 THEN 0 ELSE @ - 1]
       [] c.gate \notin Markers /\ (st.off > 0 \/ ~ Holds(c.cond, st.reg)) -> st
       [] c.gate = "Measure" ->
            [st EXCEPT !.op = Project(c.qubits[1], one, @),
                       !.reg = IF c.cbits = <<>> THEN @ ELSE [@ EXCEPT ![c.cbits[1]] = one]]
       [] c.gate = "Reset" ->
            [st EXCEPT !.op = LET kept == Project(c.qubits[1], one, @)
                              IN IF one THEN ApplyGate(flipX, kept, binding) ELSE kept]
       [] c.gate = "Barrier" -> st
       [] OTHER -> [st EXCEPT !.op = ApplyUnitary(c, @, binding)]

\* One shot over the whole register from every basis state at once.
Shot(s, Q, B, n, outcome, binding) ==
  FoldLeft(LAMBDA st, c : Step(c, st, outcome, binding),
           [op |-> Identity(Q, n), reg |-> [b \in B |-> FALSE], off |-> 0], s)

\* Coefficients that do for the angles of the streams.
FineAngles(s, binding) ==
  \E i \in DOMAIN s : \E f \in {s[i]} \cup Range(s[i].factors) :
    \E k \in DOMAIN f.params : Value(f.params[k], binding) % 8 # 0

Size(s, t, binding) == IF FineAngles(s, binding) \/ FineAngles(t, binding) THEN 32 ELSE 4

\* x / sqrt(2)^m over the denominator sqrt(2)^n, n >= m.
Rescale(x, m, n) ==
  LET half == [i \in DOMAIN x |-> 2 ^ ((n - m) \div 2) * x[i]]
  IN IF (n - m) % 2 = 0 THEN half ELSE TimesRootTwo(half)

\* The same operator but for a phase.
SameUpTo(phase, f, g) ==
  LET n == IF f.scale > g.scale THEN f.scale ELSE g.scale
  IN \A b \in DOMAIN f.col :
       /\ DOMAIN f.col[b] = DOMAIN g.col[b]
       /\ \A a \in DOMAIN f.col[b] :
            Rescale(f.col[b][a], f.scale, n) = Turn(Rescale(g.col[b][a], g.scale, n), phase)

SameOperator(f, g) == SameUpTo(0, f, g)

Readouts(s) == {s[i].origin : i \in {j \in DOMAIN s : s[j].gate \in {"Measure", "Reset"}}}

\* The two streams make the same measurements and, for every outcome of them,
\* leave the same bits and, but for one of the phases, the same register.
SameMeaning(s, t, phases, Q, B, binding) ==
  /\ Readouts(s) = Readouts(t)
  /\ \E n \in {Size(s, t, binding)} : \A outcome \in [Readouts(s) -> BOOLEAN] :
       \E x \in {Shot(s, Q, B, n, outcome, binding)}, y \in {Shot(t, Q, B, n, outcome, binding)} :
         x.reg = y.reg /\ \E e \in phases : (e * n) % 32 = 0 /\ SameUpTo(e, x.op, y.op)

=============================================================================
