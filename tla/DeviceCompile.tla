---------------------------- MODULE DeviceCompile ----------------------------
(***************************************************************************)
(* Circuits run for a device: compile_for_device (compile_for_device.cpp)  *)
(* rebases to what can be routed, routes, lowers the SWAPs of a directed   *)
(* device along its edges, rebases to the whole gate set and checks every  *)
(* direction; what it returns is bound and run as CircuitRun has it.       *)
(*                                                                         *)
(* Of the router only its contract Routing is used, which both routers     *)
(* implement: any placement, any order the circuit allows, any SWAPs.      *)
(***************************************************************************)
EXTENDS CircuitRun

CONSTANTS
  NQubits, Edges,
  Compilations,  \* what is compiled for a device: a stream, a gate set, a device
  NoDevice,      \* circuits of TranspileAndOptimize
  Layouts,       \* the placements routers choose from
  MaxSwaps       \* bound on the SWAPs of one routing

\* compile_for_device makes a Transpiler of its own: nothing is registered with it.
ASSUME CompilationAssumption ==
  \A r \in Compilations :
    /\ IsStream(r.stream)
    /\ r.target \in [allowed : SUBSET STRING, rules : STRING, registered : {<<>>}]
    /\ r.device \in [routed : BOOLEAN, directed : BOOLEAN, rebased : BOOLEAN]

VARIABLES
  device,        \* [routed, directed, rebased]: has it an architecture, do
                 \* edges have a direction, has it a gate set
  logical,       \* the circuit asked for
  routing, carried, ran, initialMap, finalMap  \* of the router

routerVars == <<routing, carried, ran, initialMap, finalMap>>
deviceVars == <<vars, device, logical, routerVars>>

\* The router's circuit is input, the stream it emits is stream.
Router == INSTANCE Routing WITH
  circuit <- input, directed <- device.directed, outcome <- routing

OnNoWires == <<>>

DeviceInit ==
  /\ routing = "unplaced" /\ ran = <<>>
  /\ carried = OnNoWires /\ initialMap = OnNoWires /\ finalMap = OnNoWires
  /\ \/ RunInit /\ device = NoDevice /\ logical = <<>>
     \/ /\ \E r \in Compilations :
             /\ logical = Tagged(r.stream) /\ target = r.target /\ device = r.device
        /\ input = logical /\ stream = logical
        /\ phase = "compile" /\ passes = <<>> /\ frames = <<>> /\ eliminated = 0 /\ depth = 0
        /\ source = <<>> /\ FuseInit
        /\ binding \in Bindings /\ dispatch \in Dispatches /\ parts = <<>> /\ kernels = <<>>

Passed == UNCHANGED <<target, passes, frames, eliminated, depth, fuseVars, runVars, device, logical>>

Width(s) == Max({0} \cup {q + 1 : q \in UNION {Operands(s[i]) : i \in DOMAIN s}})

\* check_fits
RejectWidth ==
  /\ phase = "compile" /\ Width(logical) > NQubits
  /\ phase' = "unfit"
  /\ Passed /\ UNCHANGED <<input, stream, routerVars>>

\* routable_subset
Routable(gates) == gates \ {"CCX", "CSWAP", "MCZ"}

\* The first rebase: a router takes gates of two qubits at most.
RebaseFirst ==
  LET first == IF device.routed THEN [target EXCEPT !.allowed = Routable(@)] ELSE target
      rebased == IF device.rebased THEN Rebased(first, logical) ELSE logical
  IN /\ phase = "compile" /\ Width(logical) =< NQubits
     /\ phase' = IF device.rebased /\ Throws(first, logical) THEN "refused"
                 ELSE IF device.routed THEN "route"
                 ELSE "compiled"
     /\ input' = rebased
     /\ stream' = IF device.routed THEN <<>> ELSE rebased
     /\ Passed /\ UNCHANGED routerVars

------------------------------------------------------------------------------
(* Routing, and the stream it emits                                          *)

Routes == phase = "route" /\ Passed /\ UNCHANGED input

Under(c, d) == [d EXCEPT !.cond = c.cond, !.bits = c.bits]

\* emit_h_conjugated_cx: the CX driven over the reversed edge.
HConjugated(c, w) ==
  LET H(k) == Under(c, On("H", <<w[k]>>))
  IN <<H(1), H(2), [c EXCEPT !.qubits = <<w[2], w[1]>>], H(1), H(2)>>

\* translated_copy
Translated(c, w) ==
  IF Len(w) = 2 /\ Router!RunsFlipped(c.gate, w[1], w[2], device.directed)
  THEN HConjugated(c, w)
  ELSE <<[c EXCEPT !.qubits = w]>>

\* Mutant of WireOf: where the qubit sat before the first SWAP.
WireAtStart(l) == initialMap[l]

WireOf(l) == CHOOSE p \in Router!Qubits : carried[p] = l

RoutePlace ==
  /\ Routes /\ Router!Place /\ initialMap' \in Layouts
  /\ UNCHANGED <<stream, phase>>

RouteCommand ==
  /\ Routes
  /\ \E i \in DOMAIN input :
       /\ Router!Run(i)
       /\ stream' = stream \o
            Translated(input[i], [k \in DOMAIN input[i].qubits |-> WireOf(input[i].qubits[k])])
  /\ UNCHANGED phase

Swaps == Cardinality({i \in DOMAIN stream : stream[i].gate = "SWAP" /\ stream[i].origin = {}})

RouteSwap ==
  /\ Routes /\ Swaps < MaxSwaps
  /\ \E a, b \in Router!Qubits :
       a # b /\ Router!Swap(a, b) /\ stream' = Append(stream, On("SWAP", <<a, b>>))
  /\ UNCHANGED phase

\* What both routers refuse, each for its own reasons.
RouteRefused ==
  /\ Routes /\ Router!Refuse
  /\ phase' = "unrouted"
  /\ UNCHANGED stream

RouteDone ==
  /\ Routes /\ UNCHANGED carried /\ Router!Finish
  /\ phase' = "routed"
  /\ UNCHANGED stream

------------------------------------------------------------------------------
(* After routing                                                             *)

\* Mutant of AlongEdge: as the router named the wires.
AsNamed(q) == q

AlongEdge(q) == IF Router!HasDirectedEdge(q[1], q[2]) THEN q ELSE <<q[2], q[1]>>

\* lower_swap_directed: three CX along the stored edge, the middle one turned
\* round by H gates.
LoweredSwap(c) ==
  LET q == AlongEdge(c.qubits)
      cx == <<Under(c, On("CX", q))>>
      hh == <<Under(c, On("H", <<q[1]>>)), Under(c, On("H", <<q[2]>>))>>
  IN cx \o Conjugated(hh, cx) \o cx

LowerSwaps(s) ==
  FlattenSeq([i \in DOMAIN s |-> IF s[i].gate = "SWAP" THEN LoweredSwap(s[i]) ELSE <<s[i]>>])

\* A directed device without native SWAPs has them lowered before its rules
\* can write a CX against the edge.
SwapsLowered(s) ==
  IF device.directed /\ device.rebased /\ "SWAP" \notin target.allowed THEN LowerSwaps(s) ELSE s

\* The second rebase, to everything the device has.
RebaseSecond ==
  LET lowered == SwapsLowered(stream)
  IN /\ phase = "routed"
     /\ phase' = IF device.rebased /\ Throws(target, lowered) THEN "refused" ELSE "directions"
     /\ stream' = IF device.rebased THEN Rebased(target, lowered) ELSE lowered
     /\ Passed /\ UNCHANGED <<input, routerVars>>

AgainstEdge(c) ==
  /\ Len(c.qubits) = 2 /\ Router!IsAsymmetric(c.gate)
  /\ ~ Router!HasDirectedEdge(c.qubits[1], c.qubits[2])

\* assert_directions
AssertDirections ==
  /\ phase = "directions"
  /\ phase' = IF device.directed /\ \E i \in DOMAIN stream : AgainstEdge(stream[i])
              THEN "misdirected" ELSE "compiled"
  /\ Passed /\ UNCHANGED <<input, stream, routerVars>>

\* The engine keeps the compiled stream and does not optimise it.
Deliver ==
  /\ phase = "compiled" /\ phase' = "optimized"
  /\ input' = Tagged(stream) /\ stream' = input'
  /\ Passed /\ UNCHANGED routerVars

Compile ==
  \/ RejectWidth \/ RebaseFirst
  \/ RoutePlace \/ RouteCommand \/ RouteSwap \/ RouteRefused \/ RouteDone
  \/ RebaseSecond \/ AssertDirections \/ Deliver

Rejected == phase \in {"unfit", "unrouted", "misdirected"} /\ UNCHANGED deviceVars

DeviceNext ==
  \/ Compile
  \/ RunNext /\ UNCHANGED <<device, logical, routerVars>>
  \/ Rejected

DeviceSpec == DeviceInit /\ [][DeviceNext]_deviceVars

------------------------------------------------------------------------------
(* Properties                                                                *)

\* What a device runs is what it can run: gates of its set, pairs on its edges,
\* asymmetric gates along them.  The last check of a directed compilation has
\* nothing to find, whatever the router did and whatever the rules write.
FitsTheDevice ==
  /\ phase # "misdirected"
  /\ phase = "compiled" =>
       /\ device.rebased => InTarget(target, stream)
       /\ device.routed => \A i \in DOMAIN stream :
            /\ Len(stream[i].qubits) = 2 => Router!IsConnected(stream[i].qubits[1], stream[i].qubits[2])
            /\ device.directed => ~ AgainstEdge(stream[i])

\* An operator on wires, read where the two maps say the qubits are.
Located(op, from, to) ==
  LET Image(m, b) == {m[q] : q \in b}
  IN [op EXCEPT !.col = [b \in DOMAIN @ |->
        [a \in {x \in DOMAIN @ : Image(to, x) \in DOMAIN @[Image(from, b)]} |->
           @[Image(from, b)][Image(to, a)]]]]

\* The compiled stream, started on the wires of the initial map and read from
\* those of the final one, is the circuit asked for: for every state, every
\* outcome of its measurements and every bit, and every global phase the gate
\* set can express.
CompiledAsAsked ==
  phase = "compiled" =>
    LET from == IF device.routed THEN initialMap ELSE [q \in Router!Qubits |-> q]
        to   == IF device.routed THEN finalMap ELSE from
        bits == UNION {logical[i].bits : i \in DOMAIN logical}
        phases == IF ~ device.rebased \/ "GPhase" \in target.allowed THEN {0} ELSE 0 .. 63
        s == Bound(logical, binding)
        t == Bound(stream, binding)
    IN /\ Readouts(s) = Readouts(t)
       /\ \E n \in {Size(s, t, binding)} : \A o \in [Readouts(s) -> BOOLEAN] :
            \E x \in {Shot(s, Router!Qubits, bits, n, o, binding)},
               y \in {Shot(t, Router!Qubits, bits, n, o, binding)} :
              /\ x.reg = y.reg
              /\ \E e \in phases : (e * n) % 32 = 0 /\ SameUpTo(e, x.op, Located(y.op, from, to))

=============================================================================
