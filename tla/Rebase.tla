------------------------------- MODULE Rebase -------------------------------
(***************************************************************************)
(* Rebasing a stream to a target gate set: the decomposition rules of      *)
(* transpiler/decompositions.cpp, one pass of transpile_uncached_ and the  *)
(* checks around it (transpiler/transpiler.cpp).                           *)
(*                                                                         *)
(* A target is [allowed, rules, registered]: the gates of a GateSet, the   *)
(* rule table it names, and the rules registered over that table, each as  *)
(* the gates it writes and the operands they act on.  A Custom on one      *)
(* qubit carries its ZYZ factors, the angles decompose_custom solves its   *)
(* matrix for.                                                             *)
(***************************************************************************)
EXTENDS Gates

On(g, qs) == Make(g, qs, <<>>, <<>>, <<>>)
By(g, qs, p) == Make(g, qs, <<p>>, <<>>, <<>>)
Phase(p) == By("GPhase", <<>>, p)

\* Param * double, for a factor of one half or one quarter.
Half(p) == [p EXCEPT !.coeff = @ \div 2, !.offset = @ \div 2]
Quarter(p) == Half(Half(p))

\* pi/2 and pi/4.
PI_2 == Angle(1)
PI_4 == Half(PI_2)

OnBoth(g, qs) == <<On(g, <<qs[1]>>), On(g, <<qs[2]>>)>>
Conjugated(outer, inner) == outer \o inner \o outer

\* Half the rotation, undone behind a CX where the control reads zero.
Sandwich(g, c, t, p) ==
  <<By(g, <<t>>, Half(p)), On("CX", <<c, t>>), By(g, <<t>>, NegParam(Half(p))), On("CX", <<c, t>>)>>

OneQubitRules == {"U", "P", "Sdg", "Tdg", "SX", "SXdg", "Custom"}

OneQubitRule(g, q, p, factors) ==
  CASE g = "U"      -> <<Phase(Half(SumParam(p[2], p[3]))), By("Rz", q, p[3]), By("Ry", q, p[1]),
                         By("Rz", q, p[2])>>
    [] g = "P"      -> <<Phase(Half(p[1])), By("Rz", q, p[1])>>
    [] g = "Sdg"    -> <<By("P", q, NegParam(PI_2))>>
    [] g = "Tdg"    -> <<By("P", q, NegParam(PI_4))>>
    [] g = "SX"     -> <<Phase(PI_4), By("Rx", q, PI_2)>>
    [] g = "SXdg"   -> <<Phase(NegParam(PI_4)), By("Rx", q, NegParam(PI_2))>>
    [] g = "Custom" -> factors

\* GPhase is dropped by a target that does not express it, Id by all.
DroppedGates == {"GPhase", "Id"}

\* The controlled rotations and phases: CP leaves a global phase to correct.
ControlledRotationRules == {"CRx", "CRy", "CRz", "CP", "CS", "CSdg", "CSX", "CSXdg", "CU"}

CURule(c, t, p) ==
  LET half == Half(SumParam(p[2], p[3]))
      zero == Eighths(0)
      U(v) == Make("U", <<t>>, v, <<>>, <<>>)
  IN <<By("P", <<c>>, p[4]), By("P", <<c>>, half),
       By("P", <<t>>, Half(SumParam(p[3], NegParam(p[2])))),
       On("CX", <<c, t>>), U(<<NegParam(Half(p[1])), zero, NegParam(half)>>),
       On("CX", <<c, t>>), U(<<Half(p[1]), p[2], zero>>)>>

ControlledRotationRule(g, c, t, p) ==
  CASE g = "CRx"   -> Conjugated(<<On("H", <<t>>)>>, Sandwich("Rz", c, t, p[1]))
    [] g = "CRy"   -> Sandwich("Ry", c, t, p[1])
    [] g = "CRz"   -> Sandwich("Rz", c, t, p[1])
    [] g = "CP"    -> <<Phase(Quarter(p[1]))>> \o Sandwich("Rz", c, t, p[1])
                        \o <<By("Rz", <<c>>, Half(p[1]))>>
    [] g = "CS"    -> <<By("CP", <<c, t>>, PI_2)>>
    [] g = "CSdg"  -> <<By("CP", <<c, t>>, NegParam(PI_2))>>
    [] g = "CSX"   -> <<By("P", <<c>>, PI_4), By("CRx", <<c, t>>, PI_2)>>
    [] g = "CSXdg" -> <<By("P", <<c>>, NegParam(PI_4)), By("CRx", <<c, t>>, NegParam(PI_2))>>
    [] g = "CU"    -> CURule(c, t, p)

ControlledRules == {"CY", "CZ", "CH", "CCX", "CSWAP"}

ControlledRule(g, q) ==
  LET c == q[1]
      b == q[2]
      t == q[Len(q)]
      CX(x, y) == On("CX", <<x, y>>)
  IN CASE g = "CY"    -> <<On("Sdg", <<t>>), CX(c, t), On("S", <<t>>)>>
       [] g = "CZ"    -> Conjugated(<<On("H", <<t>>)>>, <<CX(c, t)>>)
       [] g = "CH"    -> <<By("Ry", <<t>>, PI_4), CX(c, t), By("Ry", <<t>>, NegParam(PI_4))>>
       [] g = "CSWAP" -> Conjugated(<<CX(t, b)>>, <<On("CCX", <<c, b, t>>)>>)
       [] g = "CCX"   -> <<On("H", <<t>>), CX(b, t), On("Tdg", <<t>>), CX(c, t), On("T", <<t>>),
                           CX(b, t), On("Tdg", <<t>>), CX(c, t), On("T", <<b>>), On("T", <<t>>),
                           On("H", <<t>>), CX(c, b), On("T", <<c>>), On("Tdg", <<b>>), CX(c, b)>>

PairRules == {"SWAP", "iSWAP", "iSWAPdg", "ECR", "RZZ", "RXX", "RYY"}

PairRule(g, q, p) ==
  LET there == On("CX", q)
      back == On("CX", <<q[2], q[1]>>)
      RotateX(v) == <<By("Rx", <<q[1]>>, v), By("Rx", <<q[2]>>, v)>>
      RZX(v) == Conjugated(<<there>>, <<By("Rz", <<q[2]>>, v)>>)
  IN CASE g = "SWAP"    -> <<there, back, there>>
       [] g = "iSWAP"   -> OnBoth("S", q) \o <<On("H", <<q[1]>>), there, back, On("H", <<q[2]>>)>>
       [] g = "iSWAPdg" -> <<On("H", <<q[2]>>), back, there, On("H", <<q[1]>>)>>
                             \o OnBoth("Sdg", <<q[2], q[1]>>)
       [] g = "ECR"     -> Conjugated(<<On("H", <<q[2]>>)>>,
                             RZX(PI_4) \o <<On("X", <<q[1]>>)>> \o RZX(NegParam(PI_4)))
       [] g = "RZZ"     -> RZX(p[1])
       [] g = "RXX"     -> Conjugated(OnBoth("H", q), <<By("RZZ", q, p[1])>>)
       [] g = "RYY"     -> RotateX(PI_2) \o <<By("RZZ", q, p[1])>> \o RotateX(NegParam(PI_2))

------------------------------------------------------------------------------
\* X on t where every control reads one, by a chain over at least m-2 borrowed
\* qubits: two sweeps, the second leaves the borrowed qubits as they were.
Twice(s) == s \o s

McxChain(c, t, anc) ==
  LET m == Len(c)
      down == [k \in 1 .. m - 3 |-> On("CCX", <<c[m - k], anc[m - 2 - k], anc[m - 1 - k]>>)]
  IN Twice(<<On("CCX", <<c[m], anc[m - 2], t>>)>> \o down
             \o <<On("CCX", <<c[1], c[2], anc[1]>>)>> \o Reverse(down))

Ladder(c, t, free) ==
  LET m == Len(c)
  IN CASE m = 0 -> <<On("X", <<t>>)>>
       [] m = 1 -> <<On("CX", <<c[1], t>>)>>
       [] m = 2 -> <<On("CCX", <<c[1], c[2], t>>)>>
       [] m > 2 -> McxChain(c, t, free)

\* mcx_dirty: with too few qubits to borrow, split around the first of them.  Each
\* half can borrow the controls of the other, so neither is split again.
Mcx(c, t, free) ==
  LET m == Len(c)
      k == (m + 1) \div 2
      lo == SubSeq(c, 1, k)
      hi == SubSeq(c, k + 1, m)
      A == Ladder(lo, free[1], Tail(free) \o hi \o <<t>>)
      B == Ladder(Append(hi, free[1]), t, Tail(free) \o lo)
  IN IF m =< 2 \/ Len(free) >= m - 2 THEN Ladder(c, t, free) ELSE Twice(A \o B)

\* mc_phase: P(v) on t where every control reads one, peeling the last control
\* each time; what was peeled may be borrowed.
Kicked(last, t, half, ladder) ==
  <<By("CP", <<last, t>>, half)>> \o ladder \o <<By("CP", <<last, t>>, NegParam(half))>> \o ladder

Peeled(c, t, v, j) ==
  Kicked(c[j], t, Half(Eighths(v \div 2 ^ (Len(c) - j))),
         Mcx(SubSeq(c, 1, j - 1), c[j], Append(Reverse(SubSeq(c, j + 1, Len(c))), t)))

McPhase(c, t, v) ==
  FlattenSeq([i \in 1 .. Len(c) - 1 |-> Peeled(c, t, v, Len(c) + 1 - i)])
    \o <<By("CP", <<c[1], t>>, Eighths(v \div 2 ^ (Len(c) - 1)))>>

MczRule(q) ==
  LET c == Front(q)
      t == Last(q)
  IN CASE Len(q) = 1 -> <<On("Z", q)>>
       [] Len(q) = 2 -> <<On("CZ", q)>>
       [] Len(q) = 3 -> Conjugated(<<On("H", <<t>>)>>, <<On("CCX", q)>>)
       [] Len(q) > 3 -> McPhase(c, t, 16)

\* The rewrites of the Rz-only targets.
RzOnlyRule(g, q, p) ==
  LET turned == Conjugated(<<On("H", q)>>, <<By("Rz", q, p[1])>>)
  IN IF g = "Rx" THEN turned ELSE <<On("Sdg", q)>> \o turned \o <<On("S", q)>>

\* The rewrites registered for the basis that ControlledBlock lowers to; H is
\* native to every other target.
PhaseKeptRules == {"H", "S", "T", "U"}

PhaseKeptRule(g, q, p) ==
  CASE g = "H" -> <<By("Rz", q, Angle(2)), By("Ry", q, PI_2), Phase(PI_2)>>
    [] g = "S" -> <<By("P", q, PI_2)>>
    [] g = "T" -> <<By("P", q, PI_4)>>
    [] g = "U" -> <<By("Rz", q, p[3]), By("Ry", q, p[1]), By("Rz", q, p[2]),
                    Phase(Half(SumParam(p[2], p[3])))>>

------------------------------------------------------------------------------
\* builtin_decompositions, clifford_t_rz_decompositions, and the built-in ones
\* with the rewrites of mc_basis_transpiler.
Overrides(rules) ==
  CASE rules = "clifford_t_rz" -> {"Rx", "Ry"}
    [] rules = "multi_control" -> PhaseKeptRules
    [] OTHER -> {}

Decomposable(rules) ==
  OneQubitRules \cup DroppedGates \cup ControlledRotationRules \cup ControlledRules
    \cup PairRules \cup {"MCZ"} \cup Overrides(rules)

Builtin(c) ==
  LET g == c.gate
      q == c.qubits
  IN CASE g \in DroppedGates            -> <<>>
       [] g \in OneQubitRules           -> OneQubitRule(g, q, c.params, c.factors)
       [] g \in ControlledRotationRules -> ControlledRotationRule(g, q[1], q[2], c.params)
       [] g \in ControlledRules         -> ControlledRule(g, q)
       [] g \in PairRules               -> PairRule(g, q, c.params)
       [] g = "MCZ"                     -> MczRule(q)
       [] g \in {"Rx", "Ry"}            -> RzOnlyRule(g, q, c.params)

\* register_decomposition: a registered rule overrides the table's.  It says
\* which operands of its command each of its gates acts on; an MCZ may have
\* one only.
IsRule(g, rule) ==
  LET least == IF g = "MCZ" THEN 1 ELSE NumQubits(g)
  IN rule \in Seq({r \in [gate : STRING, on : Seq(1 .. least) \ {<<>>}] : HasShape(On(r.gate, r.on))})

IsTarget(t) ==
  /\ t = [allowed |-> t.allowed, rules |-> t.rules, registered |-> t.registered]
  /\ \A g \in DOMAIN t.registered : IsRule(g, t.registered[g])

Registers(target, g) == g \in DOMAIN target.registered

Decompose(target, c) ==
  IF Registers(target, c.gate)
  THEN LET rule == target.registered[c.gate]
       IN [k \in DOMAIN rule |->
             On(rule[k].gate, [i \in DOMAIN rule[k].on |-> c.qubits[rule[k].on[i]]])]
  ELSE IF target.rules = "multi_control" /\ c.gate \in PhaseKeptRules
  THEN PhaseKeptRule(c.gate, c.qubits, c.params)
  ELSE Builtin(c)

\* Meta gates flow through; Custom only where the target admits it.
StaysAsIs(target, c) ==
  c.gate \in (Opaque \ {"Custom"}) \cup target.allowed

\* No rule, or a Custom that cannot be re-opened.
Refused(target, c) ==
  /\ ~ StaysAsIs(target, c) /\ ~ Registers(target, c.gate)
  /\ \/ c.gate \notin Decomposable(target.rules)
     \/ c.gate = "Custom" /\ Len(c.qubits) # 1

\* Mutant of Lowered: a rule's commands lose the condition of their source.
LoweredUnconditionally(target, c) ==
  LET rule == Decompose(target, c)
  IN IF StaysAsIs(target, c) THEN <<c>>
     ELSE [k \in DOMAIN rule |-> [rule[k] EXCEPT !.origin = c.origin]]

\* Every command a rule produces runs under the condition of its source.
UnderConditionOf(c, d) ==
  CommandOf(d.gate, d.qubits, d.params, d.cbits, c.cond, d.factors, c.origin)

Inheriting(c, rule) == [k \in DOMAIN rule |-> UnderConditionOf(c, rule[k])]

Lowered(target, c) ==
  IF StaysAsIs(target, c) THEN <<c>> ELSE Inheriting(c, Decompose(target, c))

RebasePass(target, s) == FlattenSeq([i \in DOMAIN s |-> Lowered(target, s[i])])

InTarget(target, s) == \A i \in DOMAIN s : StaysAsIs(target, s[i])

\* The whole cascade at once; asked tells whether it ran a registered rule.
MaxDecomposeDepth == 10

PassOver(target, run) ==
  IF InTarget(target, run.stream) \/ \E i \in DOMAIN run.stream : Refused(target, run.stream[i])
  THEN run
  ELSE [stream |-> RebasePass(target, run.stream),
        asked |-> run.asked \/ \E i \in DOMAIN run.stream :
                    Registers(target, run.stream[i].gate) /\ ~ StaysAsIs(target, run.stream[i])]

\* The choice from a singleton has TLC evaluate a pass once.
Cascade(target, s) ==
  LET run[k \in 0 .. MaxDecomposeDepth] ==
        IF k = 0 THEN [stream |-> s, asked |-> FALSE]
        ELSE CHOOSE over \in {PassOver(target, r) : r \in {run[k - 1]}} : TRUE
  IN run[MaxDecomposeDepth]

Rebased(target, s) == Cascade(target, s).stream
Throws(target, s) == ~ InTarget(target, Rebased(target, s))

\* unreachable_gates: every gate but the meta ones is a root of the search.
AllGates ==
  {"X", "Y", "Z", "H", "S", "T", "Rx", "Ry", "Rz", "CX", "MCZ"} \cup OneQubitRules
    \cup DroppedGates \cup ControlledRotationRules \cup ControlledRules \cup PairRules

Unreachable(target) ==
  AllGates \ (Opaque \cup target.allowed \cup Decomposable(target.rules)
                \cup DOMAIN target.registered)

=============================================================================
