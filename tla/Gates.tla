-------------------------------- MODULE Gates --------------------------------
(***************************************************************************)
(* What the peephole passes know about a command: the tables of            *)
(* core/gates.h, Command::dagger and operator== (core/command.cpp), the    *)
(* sum of two linear parameters (core/param.cpp), and the rules that two   *)
(* commands cancel, merge or commute (transpiler/identities.cpp,           *)
(* dag/commutation.cpp).                                                   *)
(*                                                                         *)
(* A parameter is a linear form coeff * symbol + offset, in eighths of a   *)
(* quarter turn so that the rules may halve it; the symbol None makes it   *)
(* concrete.                                                               *)
(***************************************************************************)
EXTENDS CircuitDAG, SequencesExt

None == "none"

Eighths(k) == [coeff |-> 0, symbol |-> None, offset |-> k]

\* k quarter turns, and k quarter turns more than c times the symbol a.
Angle(k) == Eighths(8 * k)
Symbol(c, a, k) == [coeff |-> 8 * c, symbol |-> a, offset |-> 8 * k]

IsConcrete(p) == p.symbol = None
IsLinear(p) == p = [coeff |-> p.coeff, symbol |-> p.symbol, offset |-> p.offset]

\* In eighths of a quarter turn, each symbol bound to quarter turns.
Value(p, binding) ==
  p.offset + (IF IsConcrete(p) THEN 0 ELSE p.coeff * binding[p.symbol])

\* Param::operator- and the linear branches of Param::operator+.  A sum of two
\* different symbols leaves the linear form; can_merge never asks for one.
NegParam(p) == [p EXCEPT !.coeff = -@, !.offset = -@]

SumParam(p, r) ==
  [coeff  |-> p.coeff + r.coeff,
   symbol |-> IF IsConcrete(p) THEN r.symbol ELSE p.symbol,
   offset |-> p.offset + r.offset]

StaysLinear(p, r) == IsConcrete(p) \/ IsConcrete(r) \/ p.symbol = r.symbol

\* A command as the passes see it.  params has one entry for the additive
\* family and none otherwise, cond lists <<bit, value>> pairs, factors are the
\* gates whose product a Custom carries, origin the input positions it is from.
CommandOf(g, qs, ps, cs, cond, factors, origin) ==
  [gate |-> g, qubits |-> qs, params |-> ps, cbits |-> cs, cond |-> cond,
   bits |-> Range(cs) \cup {cond[k][1] : k \in DOMAIN cond},
   factors |-> factors, origin |-> origin]

Make(g, qs, ps, cs, cond) == CommandOf(g, qs, ps, cs, cond, <<>>, {})

\* Only a global phase, a fence and a branch marker do without qubits.
HasOperands(c) == c.qubits = <<>> => c.gate \in Markers \cup {"GPhase", "Barrier"}


Opaque  == Markers \cup {"Barrier", "Measure", "Reset", "Custom"}

IsPhysical(g) == g \notin Markers \cup {"Barrier", "Measure", "Reset", "GPhase"}

SelfAdjoint ==
  {"X", "Y", "Z", "H", "Id", "CX", "CY", "CZ", "SWAP", "CH", "CCX", "CSWAP", "MCZ", "ECR",
   "Barrier", "Reset"}

QubitSymmetric == {"CZ", "SWAP", "iSWAP", "iSWAPdg", "RXX", "RYY", "RZZ"}

Additive ==
  {"Rx", "Ry", "Rz", "P", "CRx", "CRy", "CRz", "CP", "RXX", "RYY", "RZZ", "GPhase"}

\* gate_num_qubits and gate_num_params; of the gates on any number of qubits
\* only a Custom takes parameters.
PairGates ==
  {"CX", "CY", "CZ", "SWAP", "ECR", "iSWAP", "iSWAPdg", "CH", "CS", "CSdg", "CSX", "CSXdg",
   "CRx", "CRy", "CRz", "CP", "RZZ", "RXX", "RYY", "CU"}

NumQubits(g) ==
  CASE g \in PairGates \cup {"MCZ"} -> 2
    [] g \in {"CCX", "CSWAP"} -> 3
    [] g \in Markers \cup {"GPhase"} -> 0
    [] OTHER -> 1

NumParams(g) ==
  CASE g \in Additive -> 1
    [] g = "U" -> 3
    [] g = "CU" -> 4
    [] OTHER -> 0

\* check_command_shape
HasShape(c) ==
  \/ c.gate \in Markers \cup {"Custom"}
  \/ c.gate \in {"MCZ", "Barrier"} /\ c.params = <<>>
  \/ Len(c.qubits) = NumQubits(c.gate) /\ Len(c.params) = NumParams(c.gate)

\* What the factories make: the bits of a command are those it writes, if it is
\* a Measure, and those of its condition; a Custom carries concrete gates.
IsPlain(f) ==
  /\ f = Make(f.gate, f.qubits, f.params, <<>>, <<>>)
  /\ f.qubits \in Seq(Nat) /\ (f.qubits = <<>> => f.gate = "GPhase")
  /\ f.params \in Seq({Eighths(p.offset) : p \in Range(f.params)})
  /\ HasShape(f)

IsCommand(c) ==
  /\ c = CommandOf(c.gate, c.qubits, c.params, c.cbits, c.cond, c.factors, c.origin)
  /\ c.qubits \in Seq(Nat) /\ c.cbits \in Seq(Nat) /\ c.cond \in Seq(Nat \X BOOLEAN)
  /\ c.params \in Seq(Range(c.params)) /\ \A p \in Range(c.params) : IsLinear(p)
  /\ HasShape(c) /\ HasOperands(c) /\ (c.gate # "Measure" => c.cbits = <<>>)
  /\ c.factors \in Seq(Range(c.factors))
  /\ \A f \in Range(c.factors) : IsPlain(f) /\ Operands(f) \subseteq Operands(c)

IsStream(s) == s \in Seq(Range(s)) /\ \A i \in DOMAIN s : IsCommand(s[i])

NamedPairs ==
  {<<"S", "Sdg">>, <<"T", "Tdg">>, <<"iSWAP", "iSWAPdg">>, <<"SX", "SXdg">>,
   <<"CS", "CSdg">>, <<"CSX", "CSXdg">>}

Adjoint(g) ==
  IF \E h \in NamedPairs : g \in {h[1], h[2]}
  THEN CHOOSE a \in UNION {{h[1], h[2]} : h \in NamedPairs} :
         a # g /\ \E h \in NamedPairs : {a, g} = {h[1], h[2]}
  ELSE g

\* Command::dagger: the adjoint of U and CU exchanges phi and lambda.
Dagger(c) ==
  LET Negated(order) == [c EXCEPT !.params = [k \in DOMAIN @ |-> NegParam(@[order[k]])]]
  IN CASE c.gate \in SelfAdjoint -> c
       [] Adjoint(c.gate) # c.gate -> [c EXCEPT !.gate = Adjoint(@)]
       [] c.gate \in {"U", "CU"} -> Negated(<<1, 3, 2, 4>>)
       [] OTHER -> Negated(<<1>>)

\* Command::operator== : everything but the matrix of a Custom gate.
SameCommand(a, b) ==
  /\ a.gate = b.gate /\ a.qubits = b.qubits /\ a.params = b.params
  /\ a.cbits = b.cbits /\ a.cond = b.cond

Swapped(c) == [c EXCEPT !.qubits = <<c.qubits[2], c.qubits[1]>>]

InversePair(a, b) ==
  /\ a.cond = b.cond
  /\ IsPhysical(a.gate) /\ a.gate # "Custom"
  /\ \/ SameCommand(Dagger(a), b)
     \/ /\ a.gate \in QubitSymmetric /\ Len(a.qubits) = 2
        /\ SameCommand(Swapped(Dagger(a)), b)

\* can_merge_rotations and can_merge_gphase.
CanMerge(a, b) ==
  /\ a.gate = b.gate /\ a.gate \in Additive
  /\ Len(a.params) = 1 /\ Len(b.params) = 1
  /\ a.cond = b.cond
  /\ StaysLinear(a.params[1], b.params[1])
  /\ \/ a.qubits = b.qubits
     \/ a.gate \in QubitSymmetric /\ Operands(a) = Operands(b)

IsZero(p) == IsConcrete(p) /\ p.offset = 0

DroppableZero(c) == c.gate \in Additive /\ Len(c.params) = 1 /\ IsZero(c.params[1])

\* qubit_basis: the Pauli a gate commutes with on its k-th qubit; the controls
\* come first and are diagonal, the other qubits share one axis.
Controls(g) ==
  IF g = "CCX" THEN 2
  ELSE IF g \in {"CX", "CY", "CRx", "CRy", "CRz", "CSX", "CSXdg", "CH", "CSWAP", "CU"} THEN 1
  ELSE 0

Axis(g) ==
  CASE g \in {"Z", "S", "Sdg", "T", "Tdg", "Rz", "P", "CZ", "CP", "RZZ", "CS", "CSdg",
              "MCZ", "CRz"} -> "Z"
    [] g \in {"X", "Rx", "SX", "SXdg", "RXX", "CX", "CRx", "CSX", "CSXdg", "CCX"} -> "X"
    [] g \in {"Y", "Ry", "RYY", "CY", "CRy"} -> "Y"
    [] OTHER -> None

Basis(c, k) == IF k =< Controls(c.gate) THEN "Z" ELSE Axis(c.gate)

\* commute(a, b): a sufficient condition, over the shared wires.
Commute(a, b) ==
  /\ a.gate \notin Opaque /\ b.gate \notin Opaque
  /\ a.bits \cap b.bits = {}
  /\ \A i \in DOMAIN a.qubits, j \in DOMAIN b.qubits :
       a.qubits[i] = b.qubits[j] =>
         Basis(a, i) # None /\ Basis(a, i) = Basis(b, j)

=============================================================================
