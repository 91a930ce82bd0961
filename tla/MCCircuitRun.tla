---------------------------- MODULE MCCircuitRun ----------------------------
(***************************************************************************)
(* Instances of CircuitRun for TLC: every short stream over an alphabet    *)
(* that meets each rule of the passes, and longer streams with regions.    *)
(***************************************************************************)
EXTENDS ControlledBlock, TLC

Gate1(g, q) == Make(g, <<q>>, <<>>, <<>>, <<>>)
Gate2(g, p, q) == Make(g, <<p, q>>, <<>>, <<>>, <<>>)
Turned(g, qs, p) == Make(g, qs, <<p>>, <<>>, <<>>)
Measured(q, b) == Make("Measure", <<q>>, <<>>, <<b>>, <<>>)
If(b, v, c) == [c EXCEPT !.cond = <<<<b, v>>>>, !.bits = {b}]
Marker(g) == Make(g, <<>>, <<>>, <<>>, <<>>)
Begin(b, v) == If(b, v, Marker("BranchBegin"))
Else == Marker("BranchElse")
End == Marker("BranchEnd")

Rz(p) == Turned("Rz", <<0>>, p)
Barred(qs) == Make("Barrier", qs, <<>>, <<>>, <<>>)
Sx(q) == Gate1("SX", q)
SxDg(q) == Gate1("SXdg", q)

\* One letter for each rule: every gate family, both ways of conditioning, each fence.
Mixed ==
  {Gate1("H", 0), Gate1("S", 0), Gate1("X", 1), Rz(Angle(1)), Rz(Angle(0)),
   Rz(Symbol(1, "a", -1)), Gate2("CX", 0, 1), Gate2("CZ", 1, 0),
   Turned("RZZ", <<0, 1>>, Angle(1)), Turned("GPhase", <<>>, Angle(1)), Measured(0, 0),
   If(0, TRUE, Gate1("X", 1)), If(0, TRUE, Turned("GPhase", <<>>, Angle(1))),
   Barred(<<0>>), Barred(<<>>)}

\* Rotations and inverse pairs with gates that commute with them or do not.
Sliding ==
  {Rz(Angle(1)), Rz(Angle(-1)), Rz(Symbol(1, "a", 0)), Rz(Symbol(-1, "a", 0)),
   Gate2("CX", 0, 1), Gate1("X", 1), Gate1("H", 0)}

\* Measurements, resets and what reads the bits.
Classical ==
  {Measured(0, 0), Measured(1, 0), Make("Reset", <<0>>, <<>>, <<>>, <<>>),
   Gate1("H", 1), If(0, TRUE, Gate1("X", 0)), If(0, FALSE, Gate1("X", 0))}

WordsOver(A, n) == [1 .. n -> A]

\* A region between two commands, its bodies and what follows chosen freely.
Body == WordsOver({Gate1("X", 1), Gate1("T", 1), Gate1("Tdg", 1), Measured(1, 0)}, 2) \cup {<<>>}
Plain(u) == <<Begin(0, TRUE)>> \o u \o <<End>>
Choice(u, v) == <<Begin(0, TRUE)>> \o u \o <<Else>> \o v \o <<End>>

Regions ==
  LET around == {<<Gate1("H", 0), Measured(0, 0)>>, <<Gate1("X", 1)>>}
      after == {<<>>, <<Gate1("X", 1)>>, <<If(0, TRUE, Gate1("X", 1))>>}
  IN {p \o Choice(u, v) \o r : p \in around, u \in Body, v \in {<<>>, <<Gate1("X", 1), Gate1("X", 1)>>}, r \in after}
     \cup {p \o <<Gate1("X", 1)>> \o Plain(u \o Plain(v)) \o r :
              p \in around, u \in Body, v \in {<<Gate1("T", 1), Gate1("T", 1)>>, <<Gate1("X", 1), Gate1("X", 1)>>}, r \in after}

U(theta, phi, lambda) ==
  Make("U", <<0>>, <<Angle(theta), Angle(phi), Angle(lambda)>>, <<>>, <<>>)

\* Three qubits: cascades of cancellations, wide blocks, terminal measurements.
Long ==
  {<<Gate2("CX", 0, 1), Gate1("H", 2), Gate2("CX", 1, 2), Gate2("CX", 1, 2), Gate1("H", 2),
     Gate2("CX", 0, 1), Measured(0, 0), Measured(2, 1)>>,
   <<Gate1("H", 0), Gate2("CX", 0, 1), Gate2("CX", 1, 2), Gate1("S", 1), Measured(1, 0),
     Gate1("H", 0), Gate2("SWAP", 0, 2), Measured(1, 1)>>,
   <<Gate1("H", 0), Gate1("X", 2), Gate2("CX", 0, 1), Gate1("T", 2), Gate2("CX", 2, 0),
     Measured(1, 0), If(0, TRUE, Gate2("CZ", 0, 2)), If(0, TRUE, Gate1("H", 0)), Measured(0, 0)>>,
   <<Sx(0), Gate2("CX", 1, 0), SxDg(0), Turned("P", <<1>>, Angle(1)), Gate2("CX", 1, 0),
     Turned("P", <<1>>, Symbol(1, "a", 0)), Turned("CP", <<1, 2>>, Angle(1))>>,
   <<U(1, 0, 3), Gate1("H", 1), U(-1, -3, 0), U(1, 0, 3), U(-1, 0, -3), Gate1("S", 0)>>}

MCInputs ==
  WordsOver(Mixed, 1) \cup WordsOver(Mixed, 2) \cup WordsOver(Mixed, 3) \cup Regions \cup Long

Optimized == MCInputs \cup WordsOver(Sliding, 4)
Dispatched == MCInputs \cup WordsOver(Classical, 4)

MCBindings == {[a |-> 1]}

------------------------------------------------------------------------------
\* The gate sets of transpiler/gateset.cpp.
GateSet(gates) == [allowed |-> gates, rules |-> "", registered |-> <<>>]

Qulacs ==
  GateSet({"X", "Y", "Z", "H", "S", "Sdg", "T", "Tdg", "Rx", "Ry", "Rz", "CX", "CZ", "SWAP",
           "Measure", "Barrier", "GPhase"})

Native ==
  GateSet(Qulacs.allowed \cup
          {"P", "U", "CY", "CRx", "CRy", "CRz", "CP", "CU", "RZZ", "RXX", "RYY", "CCX", "MCZ",
           "SX", "SXdg", "Id", "CH", "CS", "CSdg", "CSX", "CSXdg", "Custom"})

Cudaq ==
  GateSet({"X", "Y", "Z", "H", "S", "T", "Rx", "Ry", "Rz", "P", "CX", "CZ", "SWAP",
           "Measure", "Barrier"})

CliffordT == GateSet({"H", "S", "T", "CX", "Measure", "Barrier"})

CliffordTRz ==
  [allowed |-> {"X", "Y", "Z", "H", "S", "Sdg", "CX", "CZ", "T", "Tdg", "Rz",
                "Measure", "Barrier", "GPhase"},
   rules |-> "clifford_t_rz", registered |-> <<>>]

OneAndTwo ==
  GateSet({"X", "Y", "Z", "H", "S", "Sdg", "T", "Tdg", "SX", "SXdg", "Id", "Rx", "Ry", "Rz", "P",
           "U", "Measure", "Barrier", "GPhase", "CX", "CY", "CZ", "SWAP", "ECR", "iSWAP",
           "iSWAPdg", "CH", "CS", "CSdg", "CSX", "CSXdg", "CRx", "CRy", "CRz", "CP", "RZZ",
           "RXX", "RYY", "CU"})

\* Toffolis and phases stay: the ladders of a wide MCZ as the rule writes them.
Ladders == GateSet(Native.allowed \ {"MCZ"})

\* Every rule: its gate alone, on swapped qubits, in a branch, under a condition.
Turn2 == Symbol(1, "a", 1)
Params(g) ==
  CASE g \in {"P", "CRx", "CRy", "CRz", "CP", "RZZ", "RXX", "RYY", "Rx", "Ry", "GPhase"} -> <<Turn2>>
    [] g = "U"  -> <<Angle(1), Turn2, Angle(3)>>
    [] g = "CU" -> <<Angle(1), Turn2, Angle(2), Angle(1)>>
    [] OTHER -> <<>>

Wide(g) ==
  CASE g = "GPhase" -> {<<>>}
    [] g \in OneQubitRules \cup {"Id", "Rx", "Ry"} -> {<<0>>}
    [] g \in {"CCX", "CSWAP"} -> {<<0, 1, 2>>, <<2, 0, 1>>}
    [] g = "MCZ" -> {<<1>>, <<0, 1>>, <<2, 0, 1>>, <<0, 2, 1, 3>>}
    [] OTHER -> {<<0, 1>>, <<1, 0>>}

Zyz == [On("Custom", <<0>>) EXCEPT
  !.factors = <<Phase(Angle(1)), By("Rz", <<0>>, Angle(1)), By("Ry", <<0>>, PI_4), By("Rz", <<0>>, PI_2)>>]

Ruled ==
  {Make(g, q, Params(g), <<>>, <<>>) :
     <<g, q>> \in UNION {{g} \X Wide(g) : g \in Decomposable("clifford_t_rz") \ {"Custom"}}}
  \cup {Zyz}

Conditioned(c) == <<Gate1("H", 4), Measured(4, 0), If(0, TRUE, c)>>
Branched(c) == <<Gate1("H", 4), Measured(4, 0)>> \o Choice(<<c>>, <<Gate1("X", 0)>>)

Narrow(c) == Len(c.qubits) < 4
RuleInputs ==
  {<<c>> : c \in Ruled} \cup {Conditioned(c) : c \in {r \in Ruled : Narrow(r)}}
    \cup {Branched(c) : c \in {r \in Ruled : Len(r.qubits) < 2}}
    \cup {<<On("Custom", <<0, 1>>)>>}

LadderInputs == {<<On("MCZ", <<0, 1, 2, 3, 4>>)>>, <<On("MCZ", <<5, 4, 3, 2, 1, 0>>)>>}

Misplaced ==
  {<<Gate1("X", 0), End>>, <<Begin(0, TRUE), Gate1("X", 0)>>,
   <<Begin(0, TRUE), Gate1("X", 0), Else, Gate1("X", 0), Else, End>>}

Request(s, t, l) == [stream |-> s, target |-> t, level |-> l]

MCRequests ==
  {Request(s, Native, 2) : s \in Optimized} \cup {Request(s, OneAndTwo, l) : s \in Dispatched, l \in {0, 1}}
    \cup {Request(s, t, 1) : s \in RuleInputs, t \in {Qulacs, Cudaq, CliffordTRz, CliffordT}}
    \cup {Request(s, Ladders, 1) : s \in LadderInputs}
    \cup {Request(s, Native, 1) : s \in Misplaced}

------------------------------------------------------------------------------
\* Devices of three wires, 0 -> 1 <- 2 when they have edges.
MCEdges == {<<0, 1>>, <<2, 1>>}
MCLayouts == {[q \in 0 .. 2 |-> q], [q \in 0 .. 2 |-> (q + 1) % 3]}

Device(routed, directed, rebased) == [routed |-> routed, directed |-> directed, rebased |-> rebased]

\* Gate sets with and without a SWAP of their own, one with wide gates.
NoSwap == GateSet({"X", "H", "S", "Sdg", "T", "Tdg", "Rz", "CX", "GPhase"})
WithSwap == GateSet(NoSwap.allowed \cup {"SWAP"})
WithWide == GateSet(NoSwap.allowed \cup {"CZ", "CCX", "MCZ", "CSWAP", "CY"})

Compilation(s, t, d) == [stream |-> s, target |-> t, device |-> d]

DeviceGates ==
  {Gate2("CX", 0, 2), Gate2("CY", 1, 0), Gate2("MCZ", 0, 2), Gate2("SWAP", 0, 2), Gate1("H", 0),
   Turned("P", <<1>>, Symbol(1, "a", 0)), Measured(0, 0)}

Later ==
  {Gate2("CX", 1, 0), Gate2("CY", 1, 2), Measured(1, 0), If(0, TRUE, Gate2("CX", 1, 0)),
   If(0, TRUE, Gate1("SX", 2))}

DeviceStreams ==
  WordsOver(DeviceGates, 1)
    \cup {<<c, d>> : c \in {Gate2("CX", 0, 2), Gate2("SWAP", 0, 2), Measured(0, 0)}, d \in Later}
    \cup {<<Measured(0, 0)>> \o Plain(<<Gate2("CX", 1, 0)>>) \o <<Gate2("CX", 0, 2)>>}

WideGates == {On("CCX", <<2, 0, 1>>), On("CSWAP", <<0, 1, 2>>), On("MCZ", <<0, 1, 2>>), On("Custom", <<0, 1>>)}

MCCompilations ==
  {Compilation(s, t, Device(TRUE, TRUE, TRUE)) : s \in DeviceStreams, t \in {NoSwap, WithSwap, WithWide}}
    \cup {Compilation(s, NoSwap, Device(TRUE, FALSE, TRUE)) : s \in DeviceStreams}
    \cup {Compilation(s, Native, Device(TRUE, TRUE, FALSE)) : s \in DeviceStreams}
    \cup {Compilation(<<c>>, t, Device(FALSE, FALSE, TRUE)) : c \in WideGates, t \in {NoSwap, WithWide}}
    \cup {Compilation(<<Gate1("H", 3)>>, NoSwap, Device(TRUE, FALSE, TRUE))}

\* Blocks under control: every gate, pairs of gates whose order matters, and
\* what may not be controlled; up to three controls, and controls of controls.
Whole == {<<c>> : c \in {r \in Ruled : Narrow(r)}} \cup {<<Gate1(g, 0)>> : g \in {"X", "Y", "Z", "H", "S", "T"}}
Rotations == {<<By(g, <<0>>, Turn2)>> : g \in {"Rx", "Ry", "Rz", "P"}} \cup {<<Phase(Turn2)>>}
Pairs == WordsOver({Gate1("H", 0), Gate1("S", 0), Phase(PI_2), Rz(Turn2), Gate2("CX", 1, 0), Barred(<<0>>)}, 2)

T == TRUE
F == FALSE
MCWrappings ==
  LET InControl(s, cs) == [stream |-> s, controls |-> cs, target |-> Native, level |-> 1]
  IN {InControl(s, cs) : s \in Whole, cs \in {<<<<T>>>>, <<<<F, T>>>>}}
       \cup {InControl(s, cs) : s \in Rotations \cup {<<Gate1("Y", 0)>>}, cs \in {<<<<T, F, T>>>>, <<<<F>>, <<T>>>>, <<<<T, T>>, <<F>>>>}}
       \cup {InControl(s, cs) : s \in Pairs, cs \in {<<<<F>>>>, <<<<T, T>>>>}}
       \cup {InControl(<<Gate1("H", 0), c>>, cs) :
               c \in {Measured(0, 0), Make("Reset", <<0>>, <<>>, <<>>, <<>>), On("Custom", <<0, 1>>), Begin(0, TRUE)},
               cs \in {<<<<T>>>>, <<<<T, F>>>>}}

\* Each level with one kind of dispatch; the rules' streams with the plain one.
Combination ==
  dispatch = CASE device # NoDevice -> "single"
               [] phase = "wrap" -> "none"
               [] target.rules # "" \/ target \in {Qulacs, Cudaq, CliffordT, Ladders} -> "none"
               [] passes = PassesOf(1) -> "single"
               [] OTHER -> "blocks"

MCInit == ControlInit /\ Combination

MCSpec == MCInit /\ [][ControlNext]_controlVars

\* The multi-controlled X of the ladders, whatever it may borrow: a control
\* that reads zero or one, and borrowed qubits in either state.
FlipsOf(s, b) ==
  FoldLeft(LAMBDA a, c : IF Range(Front(c.qubits)) \subseteq a THEN Flip(a, Last(c.qubits)) ELSE a, b, s)

ASSUME McxExact ==
  \A m \in 0 .. 5, k \in 1 .. 3 :
    LET c == [i \in 1 .. m |-> i]
        free == [i \in 1 .. k |-> m + i]
    IN \A b \in SUBSET (0 .. m + k) :
         FlipsOf(Mcx(c, 0, free), b) = IF Range(c) \subseteq b THEN Flip(b, 0) ELSE b

=============================================================================
