-------------------------- MODULE SingleQubitFusion --------------------------
(***************************************************************************)
(* fuse_single_qubit_gates (transpiler/fusion.cpp): one accumulator per    *)
(* qubit collects consecutive single-qubit gates of one classical          *)
(* condition; whatever must not overtake them flushes them first.  Both    *)
(* the optimiser's last pass and the simulator's narrow dispatch use it.   *)
(***************************************************************************)
EXTENDS RegisterSemantics

\* is_fusible_1q
IsFusible1Q(c) ==
  /\ Len(c.qubits) = 1
  /\ \/ c.gate \in {"X", "Y", "Z", "H", "S", "Sdg", "T", "Tdg"}
     \/ /\ c.gate \in {"Rx", "Ry", "Rz", "P", "U"}
        /\ \A k \in DOMAIN c.params : IsConcrete(c.params[k])

\* The gates a command applies: its own, or the product a Custom carries.
FactorsOf(c) == IF c.gate = "Custom" THEN c.factors ELSE <<c>>

\* The Custom that carries the product of acc, under their common condition.
FusedCustom(acc, qs) ==
  CommandOf("Custom", qs, <<>>, <<>>, acc[1].cond,
            FlattenSeq([k \in DOMAIN acc |-> FactorsOf(acc[k])]),
            UNION {acc[k].origin : k \in DOMAIN acc})

ProductIsIdentity(acc, q) ==
  LET id == Identity({q}, Size(acc, <<>>, <<>>))
  IN SameOperator(ApplyUnitary(FusedCustom(acc, <<q>>), id, <<>>), id)

\* What an accumulator emits.
Flushed(acc, q) ==
  CASE Len(acc) < 2 -> acc
    [] Len(acc) >= 2 /\ ProductIsIdentity(acc, q) -> <<>>
    [] OTHER -> <<FusedCustom(acc, <<q>>)>>

FlushQubits(st, qs) ==
  FoldLeft(LAMBDA t, q : [accs |-> [t.accs EXCEPT ![q] = <<>>],
                          out  |-> t.out \o Flushed(t.accs[q], q)],
           st, qs)

\* A set of numbers, ascending.
InOrder(S) ==
  [k \in 1 .. Cardinality(S) |-> CHOOSE m \in S : Cardinality({j \in S : j < m}) = k - 1]

\* Mutant of FlushedBy: a Measure leaves the readers of its bit open.
FlushedByQubits(c, accs) ==
  IF c.gate \in Markers \/ IsFence(c) THEN InOrder(DOMAIN accs) ELSE c.qubits

\* Mutant of FlushedBy: a Barrier on named qubits fences nothing.
FlushedByNoBarrier(c, accs) ==
  IF c.gate \in Markers \/ IsFence(c) THEN InOrder(DOMAIN accs)
  ELSE IF c.gate = "Barrier" THEN <<>> ELSE c.qubits

\* The accumulators a command flushes: all for a branch marker or a barrier
\* without qubits, otherwise its own qubits', and for a Measure also those
\* conditioned on a bit it writes.
FlushedBy(c, accs) ==
  IF c.gate \in Markers \/ IsFence(c)
  THEN InOrder(DOMAIN accs)
  ELSE c.qubits \o
       InOrder({q \in DOMAIN accs :
                  /\ c.gate = "Measure" /\ accs[q] # <<>>
                  /\ Range(c.cbits) \cap accs[q][1].bits # {}})

FuseCommand(st, c) ==
  IF IsFusible1Q(c)
  THEN LET q == c.qubits[1]
           open == IF st.accs[q] # <<>> /\ st.accs[q][1].cond # c.cond
                   THEN FlushQubits(st, <<q>>) ELSE st
       IN [open EXCEPT !.accs[q] = Append(@, c)]
  ELSE LET flushed == FlushQubits(st, FlushedBy(c, st.accs))
       IN [flushed EXCEPT !.out = Append(@, c)]

FuseSingleQubitGates(s) ==
  LET Q == UNION {Operands(s[i]) : i \in DOMAIN s}
      last == FoldLeft(FuseCommand, [accs |-> [q \in Q |-> <<>>], out |-> <<>>], s)
  IN FlushQubits(last, InOrder(Q)).out

=============================================================================
