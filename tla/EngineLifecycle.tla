-------------------------- MODULE EngineLifecycle --------------------------
(***************************************************************************)
(* The life of compiled circuits between primitives and engines            *)
(* (qarp/engines): build, batch_run, run and run_gradient of several       *)
(* engines over shared primitives, with the user editing primitives and    *)
(* noise models in between.  Circuits live on the primitive, stamped with  *)
(* the settings and the binding they were compiled under; each engine      *)
(* keeps the primitives of its last build, a cache of gradient shift plans *)
(* keyed by build generation, and a simulator holding a copy of its noise  *)
(* model.                                                                  *)
(*                                                                         *)
(* A call is one step: the engines run on one Python thread.  What is hard *)
(* is a call that raises half way and what earlier calls left behind.      *)
(***************************************************************************)
EXTENDS Integers, Sequences

CONSTANTS
  Engines,
  Primitives,
  Amplitudes,     \* StateVector-like primitives: refused under noise; the
                  \* others average counts and may have a constant operator
  Noisy,          \* engines whose device carries a noise model
  Inputs,         \* what a primitive is asked to measure
  Constant,       \* ... an operator without a Pauli term: no circuit to run
  Nothing,        \* what was derived before the first derivation
  Stamps,         \* compile settings
  Fits,           \* the inputs that compile under a setting, as pairs
  Bindings,       \* values build(params=) binds
  Unbound,        \* the empty binding
  Channels,       \* compositions of an enabled noise model
  Off,            \* a disabled noise model, or none
  MaxList,        \* bound on the length of a primitive list
  MaxGenerations  \* bound on the build generations of each engine

ASSUME KindsAssumption ==
  /\ Amplitudes \subseteq Primitives /\ Noisy \subseteq Engines
  /\ Nothing \notin Inputs
  /\ Constant \in Inputs
  /\ Unbound \in Bindings /\ Off \notin Channels
ASSUME SizesAssumption == MaxList \in Nat /\ MaxGenerations \in [Engines -> Nat]

VARIABLES
  input,       \* ket and operator of each primitive, as the user left them
  derived,     \* the input its post-processing was last derived from
  compiled,    \* prim.compiled, its circuits as one: they are compiled at once
  builtEmpty,  \* prim.built_empty
  settings,    \* _compile_stamp() of each engine, fixed by its constructor
  primitives,  \* _primitives
  generation,  \* _build_generation
  plans,       \* _shift_plans: the circuits each plan was rewritten from,
               \* planned all at once for the circuits' symbol
  noise,       \* the live noise model
  sim,         \* the copy of it the simulator holds
  simEnabled,  \* _sim_noise_enabled
  disturbed    \* circuits changed behind the engine's back (history)

primitiveVars == <<derived, compiled, builtEmpty>>
simVars == <<sim, simEnabled>>
engineVars == <<settings, primitives, generation, plans, disturbed>>
vars == <<input, primitiveVars, engineVars, noise, simVars>>

Circuit == [input : Inputs, stamp : Stamps, bound : Bindings]
Compiled == {{}} \cup {{c} : c \in Circuit}
Lists == UNION {[1 .. n -> Primitives] : n \in 0 .. MaxList}
MembersOf(l) == {l[i] : i \in DOMAIN l}

Init ==
  /\ input \in [Primitives -> Inputs \ {Constant}]
  /\ derived = [p \in Primitives |-> Nothing]
  /\ compiled = [p \in Primitives |-> {}]
  /\ builtEmpty = [p \in Primitives |-> FALSE]
  /\ settings \in [Engines -> Stamps]
  /\ primitives = [e \in Engines |-> <<>>]
  /\ generation = [e \in Engines |-> 0]
  /\ plans = [e \in Engines |-> [generation |-> 0, from |-> <<>>]]
  /\ noise = [e \in Engines |-> Off]
  /\ sim = noise /\ simEnabled = [e \in Engines |-> FALSE]
  /\ disturbed = [e \in Engines |-> FALSE]

-----------------------------------------------------------------------------
(* The user between two calls.                                             *)

EditPrimitive(p, in) ==
  /\ p \in Amplitudes => in # Constant
  /\ input' = [input EXCEPT ![p] = in]
  /\ UNCHANGED <<primitiveVars, engineVars, noise, simVars>>

\* engine.noise_model is live: toggled, or given other channels.
EditNoise(e, nm) ==
  /\ e \in Noisy
  /\ noise' = [noise EXCEPT ![e] = nm]
  /\ UNCHANGED <<input, primitiveVars, engineVars, simVars>>

-----------------------------------------------------------------------------
(* Helpers of the engine's calls.                                          *)

\* _validate_primitive
Rejects(e, p) == p \in Amplitudes /\ noise[e] # Off

\* Mutant: the simulator is rebuilt when the enabled flag flips only.
SyncedOnFlip(e) ==
  IF (noise[e] # Off) # simEnabled[e] THEN noise[e] ELSE sim[e]

\* _sync_sim_noise rebuilds the simulator whenever noise is wanted, and once
\* more when it no longer is.
SyncedSim(e) ==
  IF noise[e] # Off \/ simEnabled[e] THEN noise[e] ELSE sim[e]

\* _pre_run
SyncSimNoise(e) ==
  /\ sim' = [sim EXCEPT ![e] = SyncedSim(e)]
  /\ simEnabled' = [simEnabled EXCEPT ![e] = noise[e] # Off]

\* Mutant: only the circuits of the first primitive are looked through.
BindsSymbolInFirst(e) ==
  primitives[e] # <<>> /\ \E c \in compiled[primitives[e][1]] : c.bound # Unbound

\* _reject_bound: a circuit of the built primitives has the symbol bound.
BindsSymbol(e) ==
  \E p \in MembersOf(primitives[e]) : \E c \in compiled[p] : c.bound # Unbound

\* Mutant: the binding of the circuits is not compared.
ReusableAnyBinding(e, p, b) ==
  /\ compiled[p] # {}
  /\ \A c \in compiled[p] : c.stamp = settings[e]

Reusable(e, p, b) ==
  /\ compiled[p] # {}
  /\ \A c \in compiled[p] : c.stamp = settings[e] /\ c.bound = b

\* One round of the compile loop: whether it keeps the circuits of p, whether
\* it raises, and the circuits it compiles if it does neither.
Reuses(e, p, b, rebuild) == ~rebuild /\ Reusable(e, p, b)

Raises(e, p, b, rebuild) ==
  \/ Rejects(e, p)
  \/ ~Reuses(e, p, b, rebuild) /\ input[p] # Constant
     /\ <<settings[e], input[p]>> \notin Fits

CircuitsFor(e, p, b) ==
  IF input[p] = Constant THEN {}
  ELSE {[input |-> input[p], stamp |-> settings[e], bound |-> b]}

\* The loop of _compile_primitives stops at the first primitive that raises;
\* a fresh one lost its circuits before.  No round reads what another wrote,
\* unless a primitive is listed twice, when the second round repeats the first.
Raising(e, l, b, rebuild) == {i \in DOMAIN l : Raises(e, l[i], b, rebuild)}
Reached(e, l, b, rebuild) ==
  {i \in DOMAIN l : \A j \in 1 .. i - 1 : j \notin Raising(e, l, b, rebuild)}
Fresh(e, l, b, rebuild) ==
  {l[i] : i \in {j \in Reached(e, l, b, rebuild) : ~Reuses(e, l[j], b, rebuild)}}

\* Mutant: the circuits are only replaced once the new ones exist.
CompileKeepingOld(e, l, b, rebuild) ==
  LET fresh == Fresh(e, l, b, rebuild) IN
  /\ derived' = [p \in Primitives |-> IF p \in fresh THEN input[p] ELSE derived[p]]
  /\ compiled' = [p \in Primitives |->
       IF p \in fresh /\ ~Raises(e, p, b, rebuild) THEN CircuitsFor(e, p, b)
       ELSE compiled[p]]
  /\ builtEmpty' = [p \in Primitives |->
       IF p \notin fresh THEN builtEmpty[p]
       ELSE ~Raises(e, p, b, rebuild) /\ input[p] = Constant]

CompilePrimitives(e, l, b, rebuild) ==
  LET fresh == Fresh(e, l, b, rebuild) IN
  /\ derived' = [p \in Primitives |-> IF p \in fresh THEN input[p] ELSE derived[p]]
  /\ compiled' = [p \in Primitives |->
       IF p \notin fresh THEN compiled[p]
       ELSE IF Raises(e, p, b, rebuild) THEN {}
       ELSE CircuitsFor(e, p, b)]
  /\ builtEmpty' = [p \in Primitives |->
       IF p \notin fresh THEN builtEmpty[p]
       ELSE ~Raises(e, p, b, rebuild) /\ input[p] = Constant]

\* Whose circuits the call replaced without a new generation of that engine.
Disturb(e, newGeneration, fresh) ==
  disturbed' = [f \in Engines |->
    IF f = e /\ newGeneration THEN FALSE
    ELSE disturbed[f] \/ MembersOf(primitives[f]) \cap fresh # {}]

-----------------------------------------------------------------------------
(* The engine's calls.                                                     *)

\* The generation and the set change before anything can raise.
Build(e, l, b, rebuild) ==
  /\ generation[e] < MaxGenerations[e]
  /\ generation' = [generation EXCEPT ![e] = @ + 1]
  /\ primitives' = [primitives EXCEPT ![e] = l]
  /\ CompilePrimitives(e, l, b, rebuild)
  /\ Disturb(e, TRUE, Fresh(e, l, b, rebuild))
  /\ UNCHANGED <<input, settings, plans, noise, simVars>>

\* A sweep over primitives nobody compiled is refused.
Uncompiled(l) ==
  \E p \in MembersOf(l) : compiled[p] = {} /\ ~builtEmpty[p]

RefuseBatchRun(e, l) ==
  /\ Uncompiled(l)
  /\ SyncSimNoise(e)
  /\ UNCHANGED <<input, primitiveVars, engineVars, noise>>

\* Mutant: a sweep counts as a new generation only when it was asked to rebuild.
BatchRunBumpsOnRebuild(e, l, rebuild) ==
  LET fresh == Fresh(e, l, Unbound, rebuild)
      bump == rebuild /\ Raising(e, l, Unbound, rebuild) = {}
  IN
  /\ ~rebuild => ~Uncompiled(l)
  /\ bump => generation[e] < MaxGenerations[e]
  /\ SyncSimNoise(e)
  /\ CompilePrimitives(e, l, Unbound, rebuild)
  /\ generation' = IF bump THEN [generation EXCEPT ![e] = @ + 1] ELSE generation
  /\ Disturb(e, Raising(e, l, Unbound, rebuild) = {}, fresh)
  /\ UNCHANGED <<input, settings, primitives, plans, noise>>

\* The generation changes only when the compile loop returns, with some
\* primitive compiled afresh.
BatchRun(e, l, rebuild) ==
  LET fresh == Fresh(e, l, Unbound, rebuild)
      bump == fresh # {} /\ Raising(e, l, Unbound, rebuild) = {}
  IN
  /\ ~rebuild => ~Uncompiled(l)
  /\ bump => generation[e] < MaxGenerations[e]
  /\ SyncSimNoise(e)
  /\ CompilePrimitives(e, l, Unbound, rebuild)
  /\ generation' = IF bump THEN [generation EXCEPT ![e] = @ + 1] ELSE generation
  /\ Disturb(e, bump, fresh)
  /\ UNCHANGED <<input, settings, primitives, plans, noise>>

\* named: whether params names the circuits' symbol.
Run(e, named) ==
  /\ named => ~BindsSymbol(e)
  /\ SyncSimNoise(e)
  /\ UNCHANGED <<input, primitiveVars, engineVars, noise>>

\* What the post-processing of p does without a circuit: an averaging
\* primitive returns its constant unless it was derived with Pauli terms, any
\* other misses its results.
ReturnsWithoutCircuits(p) ==
  p \notin Amplitudes /\ derived[p] \in {Nothing, Constant}

\* Whether run() returns, a value given exactly for the free symbols.
RunReturns(e) ==
  \A p \in MembersOf(primitives[e]) :
    /\ ~Rejects(e, p)
    /\ compiled[p] = {} => ReturnsWithoutCircuits(p)

\* _shift_plan: the cache starts afresh with each generation.  (The plans of
\* generation 0 are those of no primitive, cached or not.)
ShiftPlans(e) ==
  plans' = IF plans[e].generation = generation[e] THEN plans
           ELSE [plans EXCEPT ![e] =
                   [generation |-> generation[e],
                    from |-> [i \in DOMAIN primitives[e] |-> compiled[primitives[e][i]]]]]

\* run_gradient by parameter shift, naming the circuits' symbol.
RunGradient(e) ==
  /\ ~BindsSymbol(e)
  /\ SyncSimNoise(e)
  /\ IF \E p \in MembersOf(primitives[e]) : Rejects(e, p)
     THEN UNCHANGED plans
     ELSE ShiftPlans(e)
  /\ UNCHANGED <<input, primitiveVars, settings, primitives, generation,
                 disturbed, noise>>

\* What the engines of E may be called with, on lists of L.
Calls(E, L) ==
  \/ \E e \in E, nm \in Channels \cup {Off} : EditNoise(e, nm)
  \/ \E e \in E, l \in L, b \in Bindings, rebuild \in BOOLEAN : Build(e, l, b, rebuild)
  \/ \E e \in E, l \in L : RefuseBatchRun(e, l)
  \/ \E e \in E, l \in L, rebuild \in BOOLEAN : BatchRun(e, l, rebuild)
  \/ \E e \in E, named \in BOOLEAN : Run(e, named)
  \/ \E e \in E : RunGradient(e)

Next ==
  \/ \E p \in Primitives, in \in Inputs : EditPrimitive(p, in)
  \/ Calls(Engines, Lists)

Spec == Init /\ [][Next]_vars

-----------------------------------------------------------------------------
(* Properties.                                                             *)

\* Types: a plan's generation, too, is one the engine had.
TypeOK ==
  /\ input \in [Primitives -> Inputs]
  /\ derived \in [Primitives -> Inputs \cup {Nothing}]
  /\ compiled \in [Primitives -> Compiled]
  /\ builtEmpty \in [Primitives -> BOOLEAN]
  /\ settings \in [Engines -> Stamps]
  /\ primitives \in [Engines -> Lists]
  /\ generation \in [Engines -> Nat]
  /\ noise \in [Engines -> Channels \cup {Off}]
  /\ sim \in [Engines -> Channels \cup {Off}]
  /\ simEnabled \in [Engines -> BOOLEAN]
  /\ disturbed \in [Engines -> BOOLEAN]
  /\ plans \in [Engines -> [generation : Nat, from : Seq(Compiled)]]

\* The circuits of a primitive are those its post-processing (groups, masks,
\* observables) was derived for, whatever raised in between: a primitive
\* whose build or validation fails keeps no circuits of an earlier input.
CircuitsMatchDerivation ==
  \A p \in Primitives : \A c \in compiled[p] : c.input = derived[p]

\* batch_run(rebuild=False) may take built_empty for a missing build's
\* excuse: only a primitive without Pauli terms is empty, and one that was
\* compiled under any settings is not.
EmptyOnlyIfConstant ==
  \A p \in Primitives :
    builtEmpty[p] => compiled[p] = {} /\ derived[p] = Constant

\* A build or a sweep that does not raise leaves every listed primitive with
\* circuits of this engine's settings and of this call's binding, reused ones
\* included, or built without a circuit.
Honoured(e, l, b) ==
  \A p \in MembersOf(l) :
    /\ compiled'[p] # {} \/ builtEmpty'[p]
    /\ \A c \in compiled'[p] : c.stamp = settings[e] /\ c.bound = b

ReturningBuild(e, l, b, rebuild) ==
  Build(e, l, b, rebuild) /\ Raising(e, l, b, rebuild) = {}
ReturningBatchRun(e, l, rebuild) ==
  BatchRun(e, l, rebuild) /\ Raising(e, l, Unbound, rebuild) = {}

BuildHonoured ==
  [][\A e \in Engines, rebuild \in BOOLEAN : generation'[e] # generation[e] =>
       /\ \A b \in Bindings :
            ReturningBuild(e, primitives'[e], b, rebuild) =>
              Honoured(e, primitives'[e], b)
       /\ \A l \in Lists :
            ReturningBatchRun(e, l, rebuild) => Honoured(e, l, Unbound)]_vars

\* What a call of any engine is about to simulate is under its live noise
\* model, channels added while it stayed enabled included.
SimulatesLiveNoise == \A e \in Engines : SyncedSim(e) = noise[e]

\* When run() returns, the shift plans of the current generation were made
\* from the circuits it evaluates, so that the gradient is that of its value.
PlansFresh ==
  \A e \in Engines : RunReturns(e) /\ plans[e].generation = generation[e] =>
    \A i \in DOMAIN plans[e].from : plans[e].from[i] = compiled[primitives[e][i]]

\* ... unless another engine compiled a primitive of the set, or a sweep
\* raised after it had compiled one: generations catch everything else.
PlansFreshUndisturbed ==
  \A e \in Engines : ~disturbed[e] /\ plans[e].generation = generation[e] =>
    /\ DOMAIN plans[e].from = DOMAIN primitives[e]
    /\ \A i \in DOMAIN primitives[e] : plans[e].from[i] = compiled[primitives[e][i]]

\* No plan differentiates circuits the symbol is gone from, which would give
\* a silent zero.
PlansUnbound ==
  \A e \in Engines : \A i \in DOMAIN plans[e].from :
    \A c \in plans[e].from[i] : c.bound = Unbound

\* The circuits a returning run() evaluates were compiled under the engine's
\* settings: a compiled circuit is valid on an engine of an equal stamp.
RunsOwnSettings ==
  \A e \in Engines : RunReturns(e) =>
    \A p \in MembersOf(primitives[e]) : \A c \in compiled[p] : c.stamp = settings[e]

-----------------------------------------------------------------------------
(* The inductive invariant of the proofs.                                  *)

\* A simulator that holds noise is known to.
NoiseFlagged == \A e \in Engines : sim[e] # Off => simEnabled[e]

\* No plan is of a generation to come, so that a new generation has none.
PlansOfThePast == \A e \in Engines : plans[e].generation <= generation[e]

IInv ==
  /\ TypeOK /\ CircuitsMatchDerivation /\ EmptyOnlyIfConstant
  /\ PlansFreshUndisturbed /\ PlansUnbound /\ PlansOfThePast /\ NoiseFlagged
=============================================================================
