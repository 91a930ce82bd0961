------------------------ MODULE TranspileAndOptimize ------------------------
(***************************************************************************)
(* Transpiler::transpile_and_optimize (transpiler/transpiler.cpp): the     *)
(* passes of transpile_uncached_ over the stream, until one changes        *)
(* nothing or kMaxDecomposeDepth of them have run, then                    *)
(* optimize_in_target.  A stream that cannot be rebased is refused.        *)
(***************************************************************************)
EXTENDS OptimizeInTarget

CONSTANT
  Requests  \* the streams, with the target and the level of the call

\* The gates of GateType; only a Custom carries factors, and those are what
\* decompose_custom writes.
IsProgram(s) ==
  /\ IsStream(s)
  /\ \A i \in DOMAIN s :
       /\ s[i].gate \in AllGates \cup Opaque
       /\ \A f \in Range(s[i].factors) : s[i].gate = "Custom" /\ f.gate \in {"GPhase", "Rz", "Ry"}

ASSUME RequestAssumption ==
  \A r \in Requests : r.level \in 0 .. 2 /\ IsProgram(r.stream) /\ IsTarget(r.target)

VARIABLE
  depth     \* decomposition passes run

transpileVars == <<optVars, depth>>

TranspileInit ==
  /\ \E r \in Requests :
       input = Tagged(r.stream) /\ target = r.target /\ passes = PassesOf(r.level)
  /\ frames = <<>>
  /\ eliminated = 0
  /\ stream = input
  /\ phase = "rebase"
  /\ depth = 0

Refusal == \E i \in DOMAIN stream : Refused(target, stream[i])

\* One pass.  One that changes nothing was the last; after as many as are
\* allowed, require_in_target_ decides.
RebaseOnce ==
  /\ phase = "rebase" /\ ~ Refusal
  /\ stream' = RebasePass(target, stream)
  /\ depth' = depth + 1
  /\ phase' = IF ~ InTarget(target, stream) /\ depth' < MaxDecomposeDepth THEN "rebase"
              ELSE IF InTarget(target, stream') THEN "rebased" ELSE "refused"
  /\ UNCHANGED <<input, target, passes, frames, eliminated>>

\* A command has no rule, or its rule throws.
Refuse ==
  /\ phase = "rebase" /\ Refusal
  /\ phase' = "refused"
  /\ UNCHANGED <<input, target, passes, frames, eliminated, stream, depth>>

TranspileNext ==
  \/ RebaseOnce \/ Refuse
  \/ OptNext /\ UNCHANGED depth

=============================================================================
