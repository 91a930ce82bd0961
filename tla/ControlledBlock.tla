--------------------------- MODULE ControlledBlock ---------------------------
(***************************************************************************)
(* A block under quantum control (block/controlled_block.cpp): flatten     *)
(* puts n control qubits before the inner block's and replaces each of its *)
(* commands by one that acts where the controls read ctrl_state.  One      *)
(* control has a table of controlled gates; more of them take the block    *)
(* through the multi-control basis first.  Blocks nest: the block that     *)
(* comes out may be wrapped again, and is then compiled and run.           *)
(***************************************************************************)
EXTENDS DeviceCompile

CONSTANT
  Wrappings  \* a stream, the states of its controls, a target and a level

VARIABLES
  inner,     \* the stream of the innermost block
  controls,  \* the control states still to wrap, the inner ones first
  wrapped    \* what each control qubit must read, in the order of the qubits

controlVars == <<deviceVars, inner, controls, wrapped>>

\* multi_control_basis_gateset, with the rules of mc_basis_transpiler.
MultiControlBasis ==
  [allowed |-> {"X", "Y", "Z", "Rx", "Ry", "Rz", "P", "CX", "MCZ", "GPhase", "Barrier"},
   rules |-> "multi_control", registered |-> <<>>]

OneControl ==
  [X |-> "CX", Y |-> "CY", Z |-> "CZ", H |-> "CH", S |-> "CS", Sdg |-> "CSdg", SX |-> "CSX",
   SXdg |-> "CSXdg", Rx |-> "CRx", Ry |-> "CRy", Rz |-> "CRz", P |-> "CP", CX |-> "CCX",
   SWAP |-> "CSWAP"]

InTable(g) == g \in DOMAIN OneControl \cup {"U", "T", "Tdg", "Id", "GPhase", "MCZ", "Barrier"}

\* Mutant of ControlledPhase: a global phase nobody sees without a control.
PhaseForAll(p, k) == Phase(p)

\* The phase is seen where the control reads one.
ControlledPhase(p, k) == By("P", <<k>>, p)

\* A gate of its own; the condition of the inner command is not carried over.
FromTable(c, k) ==
  LET g == c.gate
      q == <<k>> \o c.qubits
  IN CASE g \in DOMAIN OneControl -> <<Make(OneControl[g], q, c.params, c.cbits, <<>>)>>
       [] g = "U"      -> <<Make("CU", q, Append(c.params, Eighths(0)), c.cbits, <<>>)>>
       [] g = "T"      -> <<By("CP", q, PI_4)>>
       [] g = "Tdg"    -> <<By("CP", q, NegParam(PI_4))>>
       [] g = "Id"     -> <<>>
       [] g = "GPhase" -> <<ControlledPhase(c.params[1], k)>>
       [] g \in {"MCZ", "Barrier"} -> <<[c EXCEPT !.qubits = Append(@, k)]>>

ForEach(Op(_), s) == [k \in DOMAIN s |-> Op(s[k])]

\* What is controlled piece by piece: all of it is in the table.
Pieces(c) ==
  LET Toffoli(d) == IF d.gate = "CCX" THEN Builtin(d) ELSE <<d>>
  IN CASE c.gate \in {"CCX", "CU"} -> Builtin(c)
       [] c.gate = "CSWAP" -> FlattenSeq(ForEach(Toffoli, Builtin(c)))
       [] OTHER -> Rebased(MultiControlBasis, <<c>>)

\* make_single_controlled
SinglyControlled(c, k) ==
  IF InTable(c.gate) THEN FromTable(c, k)
  ELSE FlattenSeq(ForEach(LAMBDA d : FromTable(d, k), Pieces(c)))

------------------------------------------------------------------------------
\* X on t where all of two or more controls read one, and where one or more do.
MczSandwich(ks, t) == Conjugated(<<On("H", <<t>>)>>, <<On("MCZ", Append(ks, t))>>)
ControlledX(ks, t) == IF Len(ks) = 1 THEN <<On("CX", <<ks[1], t>>)>> ELSE MczSandwich(ks, t)

Linear == [coeff : Int, symbol : STRING, offset : Int]

\* make_multi_controlled_rotation: half the angle, undone behind an X on the
\* last control, for one control after the other.
ControlledRotation[g \in {"Rx", "Ry", "Rz", "P"}, p \in Linear, t \in Nat, ks \in Seq(Nat)] ==
  LET Once(v, k) == <<By(OneControl[g], <<k, t>>, v)>>
      upper == Front(ks)
      ladder == ControlledX(upper, Last(ks))
  IN IF Len(ks) = 1 THEN Once(p, ks[1])
     ELSE Once(Half(p), Last(ks)) \o ladder \o Once(NegParam(Half(p)), Last(ks)) \o ladder
            \o ControlledRotation[g, Half(p), t, upper]

\* make_multi_controlled, for two controls or more.
MultiplyControlled(c, ks) ==
  LET g == c.gate
      t == Last(c.qubits)
  IN CASE g = "X"  -> MczSandwich(ks, t)
       [] g = "Y"  -> <<On("Sdg", <<t>>)>> \o MczSandwich(ks, t) \o <<On("S", <<t>>)>>
       [] g = "Z"  -> <<On("MCZ", Append(ks, t))>>
       [] g = "CX" -> MczSandwich(Append(ks, c.qubits[1]), t)
       [] g \in {"Rx", "Ry", "Rz", "P"} -> ControlledRotation[g, c.params[1], t, ks]
       [] g = "GPhase" -> ControlledRotation["P", c.params[1], Last(ks), Front(ks)]
       [] g \in {"MCZ", "Barrier"} -> <<[c EXCEPT !.qubits = @ \o ks]>>

\* What has no controlled version.
NotWrappable == Opaque \ {"Barrier"}

Uncontrollable(s, state) ==
  \/ \E i \in DOMAIN s : s[i].gate \in NotWrappable
  \/ Len(state) > 1 /\ Throws(MultiControlBasis, s)
  \/ Len(state) = 1 /\ \E i \in DOMAIN s :
       ~ InTable(s[i].gate) /\ s[i].gate \notin {"CCX", "CSWAP", "CU"}
         /\ Throws(MultiControlBasis, <<s[i]>>)

\* ControlledBlock::flatten
Flattened(s, state) ==
  LET n == Len(state)
      ks == [k \in 1 .. n |-> k - 1]
      zeros == ForEach(LAMBDA k : On("X", <<k>>), SelectSeq(ks, LAMBDA k : ~ state[k + 1]))
      Shifted(c) == [c EXCEPT !.qubits = [i \in DOMAIN @ |-> @[i] + n]]
      Each(c) == IF n = 1 THEN SinglyControlled(Shifted(c), 0) ELSE MultiplyControlled(Shifted(c), ks)
  IN zeros \o FlattenSeq(ForEach(Each, IF n = 1 THEN s ELSE Rebased(MultiControlBasis, s))) \o zeros

------------------------------------------------------------------------------
ControlInit ==
  \/ DeviceInit /\ inner = <<>> /\ controls = <<>> /\ wrapped = <<>>
  \/ /\ \E w \in Wrappings :
          /\ inner = w.stream /\ controls = w.controls
          /\ target = w.target /\ passes = PassesOf(w.level)
     /\ stream = inner /\ input = <<>> /\ wrapped = <<>>
     /\ phase = "wrap" /\ frames = <<>> /\ eliminated = 0 /\ depth = 0
     /\ source = <<>> /\ FuseInit
     /\ binding \in Bindings /\ dispatch \in Dispatches /\ parts = <<>> /\ kernels = <<>>
     /\ device = NoDevice /\ logical = <<>> /\ routing = "unplaced" /\ ran = <<>>
     /\ carried = OnNoWires /\ initialMap = OnNoWires /\ finalMap = OnNoWires

Wrapping ==
  /\ phase = "wrap"
  /\ UNCHANGED <<target, passes, frames, eliminated, depth, fuseVars, runVars,
                 device, logical, routerVars, inner>>

Wrap ==
  /\ Wrapping /\ controls # <<>> /\ ~ Uncontrollable(stream, Head(controls))
  /\ stream' = Flattened(stream, Head(controls))
  /\ wrapped' = Head(controls) \o wrapped
  /\ controls' = Tail(controls)
  /\ UNCHANGED <<input, phase>>

RefuseControl ==
  /\ Wrapping /\ controls # <<>> /\ Uncontrollable(stream, Head(controls))
  /\ phase' = "uncontrolled"
  /\ UNCHANGED <<input, stream, controls, wrapped>>

HandOver ==
  /\ Wrapping /\ controls = <<>>
  /\ phase' = "rebase"
  /\ input' = Tagged(stream) /\ stream' = input'
  /\ UNCHANGED <<controls, wrapped>>

Uncontrolled == phase = "uncontrolled" /\ UNCHANGED controlVars

ControlNext ==
  \/ Wrap \/ RefuseControl \/ HandOver \/ Uncontrolled
  \/ DeviceNext /\ UNCHANGED <<inner, controls, wrapped>>

ControlSpec == ControlInit /\ [][ControlNext]_controlVars

------------------------------------------------------------------------------
\* The operator on the inner qubits where the controls read what they must,
\* and the identity where they do not.
Controlled(op, state) ==
  LET n == Len(state)
      ks == 0 .. n - 1
      Own(b) == {q - n : q \in b \ ks}
      Back(b, a) == (b \cap ks) \cup {q + n : q \in a}
      Match(b) == \A k \in ks : (k \in b) = state[k + 1]
      one == Rescale(OneOf(op.size), 0, op.scale)
  IN [op EXCEPT !.col =
       [b \in {Back(c, a) : c \in SUBSET ks, a \in DOMAIN @} |->
          IF Match(b) THEN [a \in {Back(b, x) : x \in DOMAIN @[Own(b)]} |-> @[Own(b)][Own(a)]]
          ELSE [a \in {b} |-> one]]]

\* The contract of docs/contracts/qarp_conventions.md 6.1: the wrapped block
\* is the inner unitary, global phase included, where every control reads its
\* state, and the identity elsewhere, however deeply blocks are wrapped; and
\* every block of unitary gates can be wrapped (6.2).
ControlExact ==
  /\ phase = "uncontrolled" => \E i \in DOMAIN inner : inner[i].gate \in NotWrappable
  /\ phase = "wrap" /\ wrapped # <<>> =>
       LET s == Bound(inner, binding)
           t == Bound(stream, binding)
           n == Len(wrapped)
           own == Qubits(inner)
           all == (0 .. n - 1) \cup {q + n : q \in own}
       IN \E f \in {Shot(s, own, {}, 32, <<>>, binding).op}, g \in {Shot(t, all, {}, 32, <<>>, binding).op} :
            SameOperator(g, Controlled(f, wrapped))

=============================================================================
