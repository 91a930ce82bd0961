---------------------------- MODULE CommandStream ----------------------------
(***************************************************************************)
(* Flat command streams (core/command.h): commands in program order, with  *)
(* BranchBegin .. BranchEnd delimiting what runs only when a condition     *)
(* over classical bits holds.  The order a pass must keep is the one       *)
(* CircuitDAG records: commands that share a wire stay in order, and a     *)
(* branch region is one block that nothing crosses.                        *)
(***************************************************************************)
EXTENDS Integers, Sequences, FiniteSets

Markers == {"BranchBegin", "BranchElse", "BranchEnd"}

\* A command keeps what routing looks at: its gate, its qubits, the classical
\* bits it writes or is conditioned on, and whether it carries a condition.
\* Only a global phase and a fence do without qubits (gate_num_qubits).
Command ==
  {c \in [gate : STRING, qubits : Seq(Nat), bits : SUBSET Nat, conditional : BOOLEAN] :
     /\ c.gate \in Markers => c.qubits = <<>>
     /\ c.qubits = <<>> => c.gate \in Markers \cup {"GPhase", "Barrier"}
     /\ IsFiniteSet(c.bits)}

Operands(c) == {c.qubits[k] : k \in DOMAIN c.qubits}

\* How many branches are open once the first i commands have passed.
Opened(s, i) == {j \in 1 .. i : s[j].gate = "BranchBegin"}
Closed(s, i) == {j \in 1 .. i : s[j].gate = "BranchEnd"}
Depth(s, i) == Cardinality(Opened(s, i)) - Cardinality(Closed(s, i))

\* Commands i and j, i before j, belong to one outermost branch region.
SameRegion(s, i, j) == i < j /\ \A k \in i .. j - 1 : Depth(s, k) > 0

InRegion(s, i) == Depth(s, i) > 0 \/ s[i].gate = "BranchEnd"

\* A Barrier without qubits fences the whole register and the global phase.
IsFence(c) == c.gate = "Barrier" /\ c.qubits = <<>>

UsesRegister(c) == c.qubits # <<>> \/ c.gate = "GPhase" \/ IsFence(c)

\* Commands i and j may not change places.
Ordered(s, i, j) ==
  \/ Operands(s[i]) \cap Operands(s[j]) # {}
  \/ s[i].bits \cap s[j].bits # {}
  \/ InRegion(s, i) \/ InRegion(s, j)
  \/ IsFence(s[i]) /\ UsesRegister(s[j])
  \/ IsFence(s[j]) /\ UsesRegister(s[i])
  \/ s[i].gate = "GPhase" /\ s[j].gate = "GPhase"

=============================================================================
