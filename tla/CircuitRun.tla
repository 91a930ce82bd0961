----------------------------- MODULE CircuitRun -----------------------------
(***************************************************************************)
(* A circuit from the transpiler to the simulator: transpile_and_optimize, *)
(* then the binding of its symbols, then QarpSimulator::run, which fuses   *)
(* what it dispatches (fuse_for_dispatch) and either samples the final     *)
(* state once or runs every shot from the first command that needs one     *)
(* (simulator/qarp_simulator.cpp).                                         *)
(***************************************************************************)
EXTENDS TranspileAndOptimize, BlockFusion

CONSTANTS
  Bindings,   \* the parameter sets a circuit may be run with
  Dispatches  \* "none", "single" or "blocks": fusion_max_qubits 0, 1 or more

VARIABLES
  binding,
  dispatch,
  parts,      \* the command sequences still to fuse
  kernels     \* what is dispatched

runVars == <<binding, dispatch, parts, kernels>>
vars == <<transpileVars, fuseVars, runVars>>

\* Command::substitute, and the stream the simulator receives.
Substitute(c, b) ==
  [c EXCEPT !.params = [k \in DOMAIN @ |-> Eighths(Value(@[k], b))]]

Bound(s, b) == [i \in DOMAIN s |-> Substitute(s[i], b)]

\* needs_trajectory and first_trajectory_index
NeedsTrajectory(c) ==
  \/ c.gate = "Reset"
  \/ c.gate = "Measure" /\ c.cbits # <<>>
  \/ c.cond # <<>>
  \/ c.gate = "BranchBegin"

UnitaryPrefix(s) ==
  CHOOSE n \in 0 .. Len(s) :
    /\ \A i \in 1 .. n : ~ NeedsTrajectory(s[i])
    /\ n < Len(s) => NeedsTrajectory(s[n + 1])

\* Mutant of MeasurementsAreTerminal: a measured qubit may be used again.
NothingReadsBits(s) ==
  \A i \in DOMAIN s : s[i].gate \notin Markers \cup {"Reset"} /\ s[i].cond = <<>>

\* measurements_are_terminal: no command acts on a qubit after its recorded
\* measurement, and nothing depends on a bit.
IsRecorded(c) == c.gate = "Measure" /\ c.cbits # <<>>

MeasurementsAreTerminal(s) ==
  /\ \A i \in DOMAIN s : s[i].gate \notin Markers \cup {"Reset"} /\ s[i].cond = <<>>
  /\ \A i, j \in DOMAIN s :
       /\ i < j /\ IsRecorded(s[i])
       /\ s[j].gate \notin {"Barrier", "Measure"}
       => s[i].qubits[1] \notin Operands(s[j])

PartsOf(s) ==
  IF MeasurementsAreTerminal(s) THEN <<s>>
  ELSE LET n == UnitaryPrefix(s) IN <<SubSeq(s, 1, n), SubSeq(s, n + 1, Len(s))>>

\* emit: what the simulator dispatches for a block.
Emitted(s, gates) ==
  LET acc == [k \in DOMAIN gates |-> s[gates[k]]]
      qubits == UNION {Operands(acc[k]) : k \in DOMAIN acc}
  IN IF Len(acc) = 1 THEN acc
     ELSE IF Cardinality(qubits) = 1 THEN Flushed(acc, CHOOSE q \in qubits : TRUE)
     ELSE <<FusedCustom(acc, InOrder(qubits))>>

------------------------------------------------------------------------------
RunInit ==
  /\ TranspileInit
  /\ source = <<>> /\ FuseInit
  /\ binding \in Bindings
  /\ dispatch \in Dispatches
  /\ parts = <<>> /\ kernels = <<>>

Transpile == TranspileNext /\ UNCHANGED <<fuseVars, runVars>>

Bind ==
  /\ phase = "optimized"
  /\ phase' = "dispatch"
  /\ parts' = PartsOf(Bound(stream, binding))
  /\ UNCHANGED <<input, target, passes, frames, eliminated, stream, depth,
                 fuseVars, binding, dispatch, kernels>>

\* fuse_for_dispatch without blocks: nothing fused, or single-qubit gates.
DispatchPart ==
  /\ phase = "dispatch" /\ parts # <<>> /\ dispatch # "blocks"
  /\ kernels' = kernels \o (IF dispatch = "single" THEN FuseSingleQubitGates(Head(parts))
                            ELSE Head(parts))
  /\ parts' = Tail(parts)
  /\ UNCHANGED <<transpileVars, fuseVars, binding, dispatch>>

StartBlocks ==
  /\ phase = "dispatch" /\ parts # <<>> /\ dispatch = "blocks"
  /\ phase' = "blocks"
  /\ FuseStart(Head(parts))
  /\ UNCHANGED <<input, target, passes, frames, eliminated, stream, depth, runVars>>

FuseBlocks == phase = "blocks" /\ FuseNext /\ UNCHANGED <<transpileVars, runVars>>

TakeBlocks ==
  /\ phase = "blocks" /\ Fused
  /\ phase' = "dispatch"
  /\ kernels' = kernels \o FlattenSeq([m \in DOMAIN done |-> Emitted(source, done[m])])
  /\ parts' = Tail(parts)
  /\ FuseStart(<<>>)
  /\ UNCHANGED <<input, target, passes, frames, eliminated, stream, depth, binding, dispatch>>

\* Everything is dispatched; the shots are a function of kernels.
Run ==
  /\ phase = "dispatch" /\ parts = <<>>
  /\ phase' = "ran"
  /\ UNCHANGED <<input, target, passes, frames, eliminated, stream, depth, fuseVars, runVars>>

Finished == phase \in {"ran", "refused"} /\ UNCHANGED vars

RunNext ==
  \/ Transpile \/ Bind \/ DispatchPart \/ StartBlocks \/ FuseBlocks \/ TakeBlocks \/ Run
  \/ Finished

Spec == RunInit /\ [][RunNext]_vars

------------------------------------------------------------------------------
Qubits(s) == UNION {Operands(s[i]) : i \in DOMAIN s}
Bits(s) == UNION {s[i].bits : i \in DOMAIN s}

SameAsInput(s, phases) ==
  SameMeaning(Bound(input, binding), s, phases, Qubits(input), Bits(input), binding)

\* Rebasing keeps what the stream does, conditioned commands included, and its
\* global phase where the target can express one (the rules of
\* decompositions.cpp are exact, only decompose_gphase drops a phase).
RebaseKept ==
  phase = "rebased" /\ stream # input =>
    SameAsInput(Bound(stream, binding), IF "GPhase" \in target.allowed THEN {0} ELSE 0 .. 63)

\* A branch marker without its region, or a second else in one.
Misnested(s) ==
  \/ ~ WellFormed(s)
  \/ \E i, j \in DOMAIN s :
       /\ i < j /\ s[i].gate = "BranchElse" /\ s[j].gate = "BranchElse"
       /\ Depth(s, i) = Depth(s, j) /\ \A k \in i .. j : Depth(s, k) >= Depth(s, i)

\* A rule registered for a gate outside the target writes another such gate.
RulesLeave(t) ==
  \E g \in DOMAIN t.registered \ t.allowed : \E k \in DOMAIN t.registered[g] :
    ~ StaysAsIs(t, t.registered[g][k])

\* A stream is refused only where verify_closure reports a gap of the target,
\* for a Custom on several qubits the target does not admit, where a caller's
\* rule leaves the target, or by a pass that meets markers out of place: no
\* cascade of the built-in rules is too deep, and no optimisation leaves the
\* target or tears a region apart.
RefusalHasCause ==
  phase = "refused" =>
    \/ Unreachable(target) # {} \/ RulesLeave(target)
    \/ /\ "Custom" \notin target.allowed
       /\ \E i \in DOMAIN input : input[i].gate = "Custom" /\ Len(input[i].qubits) > 1
    \/ passes # <<>> /\ Misnested(input)

\* EQ-2 of dag/passes.h and simulator/fusion.h: neither the optimiser nor the
\* fusion changes what the circuit does, global phase, measurements and
\* conditioned commands included.
MeaningKept ==
  /\ phase = "optimized" => SameAsInput(Bound(stream, binding), {0})
  /\ phase = "ran" => SameAsInput(kernels, {0})

\* EQ-1: whatever was removed, merged or fused, two commands whose order
\* matters never change places; only commuting gates do, at O2.  No gate
\* crosses a barrier on its qubits.
InputOrderKept(s) ==
  \A i, j \in DOMAIN s : i < j =>
    \A p \in s[i].origin, q \in s[j].origin :
      q < p /\ Conflict(input[p], input[q]) => Commute(input[p], input[q])

OrderKept ==
  /\ phase = "optimized" => InputOrderKept(stream)
  /\ phase = "ran" => InputOrderKept(kernels)

\* prev and next are the nearest live nodes of the wire in every graph a pass
\* is working on, however many nodes it has removed.
GraphsExact == \A k \in DOMAIN frames : LinksExact(frames[k].graph)

\* cancel_wire_adjacent stops at a fixpoint: when a call of it has emptied its
\* worklist nothing adjacent can still combine.
CancelReachesFixpoint ==
  phase = "passes" /\ Head(passes) = "cancel" /\ top.region = 0 /\ top.work = <<>> =>
    \A id \in top.graph.live :
      /\ ~ CombinesWithNext(top.graph, id)
      /\ ~ (Rewritable(top.graph, id) /\ DroppableZero(top.graph.cmd[id]))

\* |x|^2, an amplitude of the same ring: coefficient j of x * conjugate(x).
Norm(x) ==
  LET n == Len(x)
      bar(d) == IF d = 0 THEN x[1] ELSE IF d > 0 THEN -x[n - d + 1] ELSE x[1 - d]
  IN [j \in 1 .. n |-> FoldLeft(LAMBDA sum, i : sum + x[i] * bar(j - i), 0, [i \in 1 .. n |-> i])]

\* The register that sample_terminal reads out of basis state a.
ReadOut(s, B, a) ==
  FoldLeft(LAMBDA reg, c : IF IsRecorded(c) THEN [reg EXCEPT ![c.cbits[1]] = c.qubits[1] \in a]
                           ELSE reg,
           [b \in B |-> FALSE], s)

\* When run samples the final state once, every basis state and register comes
\* out as often as if each shot had measured where the circuit says.
FastPathExact ==
  phase = "ran" /\ MeasurementsAreTerminal(Bound(stream, binding))
    /\ (\E i \in DOMAIN kernels : IsRecorded(kernels[i])) =>
    \E s \in {Bound(input, binding)} : \E n \in {Size(s, kernels, binding)} :
    \E fast \in {Shot(SelectSeq(kernels, LAMBDA c : c.gate # "Measure"),
                      Qubits(s), Bits(s), n, <<>>, binding).op},
       shots \in {{[outcome |-> o, result |-> Shot(s, Qubits(s), Bits(s), n, o, binding)] :
                     o \in [Readouts(s) -> BOOLEAN]}} :
    \E m \in {Max({fast.scale} \cup {x.result.op.scale : x \in shots})} :
    LET Weight(op, b, a) ==
          IF a \in DOMAIN op.col[b] THEN Rescale(Norm(op.col[b][a]), 2 * op.scale, 2 * m) ELSE ZeroOf(n)
        Total(b, a, reg) ==
          FoldSet(LAMBDA x, w : Plus(w, Weight(x.result.op, b, a)), ZeroOf(n),
                  {x \in shots : x.result.reg = reg /\ a \in DOMAIN x.result.op.col[b]})
    IN \A b, a \in SUBSET Qubits(s), reg \in {x.result.reg : x \in shots} :
         Total(b, a, reg) = IF reg = ReadOut(kernels, Bits(s), a) THEN Weight(fast, b, a) ELSE ZeroOf(n)

=============================================================================
