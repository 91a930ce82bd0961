# A verification development for OpenQARP

TLA+ models of the parts of OpenQARP whose correctness depends on the order of
steps, the TLC runs that check small instances of them, and TLAPS proofs of the
results that hold for every instance. OpenQARP is a Python package (`qarp/`)
over a C++ library (`cpp/libqarpx`): circuits are built as trees of blocks,
compiled to a command stream, rewritten for a device and simulated, and
algorithms drive that through *engines* and *primitives*. Paths below are
relative to the repository.

Contents: 1 inventory, 2 plan, 3 modules and their code, 4 runs and bounds,
5 fairness, 6 proofs, 7 where code and documents disagree, 8 observations,
9 what is not modelled.

## 1. Inventory

| component | state it keeps | operations | talks to |
|---|---|---|---|
| OpenBLAS callback pool (`parallel/blas_threads.cpp`) | workers, one atomic call word, a `Jobs` pointer, two counters, the call mutex, the exit flag | the callback, fork handlers, exit handler | OpenBLAS calls it from any application thread |
| OpenBLAS installation (`qarp/_blas_threads.py`) | libraries installed, packages examined | `install`, `uninstall` | hands the callback to OpenBLAS; run at each first simulation |
| Thread pool (`parallel/thread_pool.cpp`) | queue, stop flag, sleeping workers | `submit`, destructor, worker loop | `transpile_parallel`, the simulator |
| Transpiler (`transpiler/`) | rule table, topology cache | `transpile`, `transpile_parallel`, `transpile_and_optimize`, `register_decomposition` | device compilation; several pool threads at once |
| Engines (`qarp/engines`) | the primitives of the last build, a build generation, gradient shift plans, a simulator with a copy of the noise model, a plan cache for structured programs | `build`, `run`, `batch_run`, `run_gradient`, `kernels` | write `prim.compiled`, shared with every other engine |
| Primitives (`qarp/algorithms/_primitives`) | input circuit and operator, derived post-processing, compiled circuits | `build`, `run` | an engine, composite algorithms |
| Composite algorithms, optimizers | parameters, history | optimisation loops | engines |
| Block tree (`block/`, `qarp/blocks`) | children with their placement, widths, a queue of bindings, renames and daggers, `built_` | `build`, `add_child`, `set_symbols`, `replace_symbols`, `dagger`, flattening to commands | everything that needs a circuit |
| Structured programs (`qarp/_program.py`) | none of their own | `plan_structure` on the tree of blocks | the engines, which dispatch a plan instead of a stream |
| Command stream, circuit DAG (`core/`, `dag/`) | nodes linked per wire | `from_commands`, `to_commands`, remove and replace | the passes, SABRE |
| DAG passes (`dag/passes.cpp`) | a worklist of node ids | cancel, commute and cancel | the DAG, which they edit while walking it |
| Simulators (`simulator/`) | a statevector, classical bits, open blocks of fused gates | run, sample, expectation | the engines |
| Device, architecture, noise model (`device/`) | edges, gate set, channels | edge and path queries, live edits of the noise model | the routers, the engines' simulators |
| Routers (`compilation/router.cpp`, `sabre.cpp`) | `l2p`, `p2l`, a Kahn state or a cursor, the best result of a portfolio | `route`, `reindex_sampling_result` | the DAG, the architecture, device compilation |
| Device compilation (`compile_for_device.cpp`) | none | rebase, route, lower SWAPs, rebase, check | the transpiler and the routers |
| Synthesis, operators, emitters, absorbers, cutting, resources | none that outlives a call | pure functions | — |

What is hard in it, and what makes each part correct:

* **Callback pool.** Every thread of the process may call BLAS at any time, may
  fork in the middle, and one of them exits. Both hand-offs poll and then sleep,
  notify outside the lock, and notify only if somebody was counted asleep. The
  jobs of a call busy-wait for one another, so one missing worker hangs the
  process. Correct: no job is run from a `Jobs` object whose caller has left, no
  wake-up is lost, each job of a call runs once, calls do not overlap, a call
  returns, and OpenBLAS is not torn down under a job.
* **Thread pool and the calls on it.** `submit` notifies one worker after it has
  released the mutex; the destructor races with tasks of a call that raised;
  a Python rule needs the interpreter lock that the caller may hold. Correct: no
  worker sleeps beside a queued task, a destroyed pool has run everything, each
  call answers its blocks in order or raises the first of their exceptions,
  and every wait ends.
* **Topology cache.** Results are looked up by what a circuit looks like after
  renaming qubits, bits and symbols, and outlive changes of the rules. Correct:
  a hit gives the query what transpiling it would have given.
* **Engine lifecycle.** Circuits live on the primitive, plans and generations on
  the engine, noise in a live object the user edits; a call may raise after it
  changed half of that. Correct: circuits always fit the post-processing that
  will read them, a call that returns honoured its settings and binding, a
  gradient differentiates the circuits `run` evaluates, and every simulation
  uses the noise model as it is now.
* **From a stream to shots.** Decomposition rules that know nothing of conditions,
  passes that delete and move commands while walking the graph, a fusion that
  folds a gate into any open block, and a shortcut that samples once when it
  takes all measurements for terminal. Correct: register, bits and every
  distribution of outcomes are those of the input.
* **Block tree.** Operations on a block are queued and replayed later, in a fixed
  order, or baked into a shell when the block is wired into a parent; the planner
  reads unbuilt children. Correct: the stream that comes out is what carrying
  out every operation at once gives.
* **Routers.** A permutation is kept in two arrays and in the SWAPs of the output;
  commands are reordered along a graph; SWAPs must stay out of conditional
  bodies; termination of SABRE rests on an anti-livelock bound; its portfolio
  keeps one result through trials that may throw. Correct: the routed stream is
  the circuit, on its own operands, over edges the device has, in an order the
  circuit allows, the two reported maps say where each qubit started and ended,
  and a call throws only for a documented cause.

`PROJECT.json` lists each hazard at its line, with the properties that address it.

## 2. Plan

Most important behaviour first: concurrency, then the state every user of the
library touches, then the compiler. Done, in this order: `BlasCall`, `BlasPool`
and proofs; `EngineLifecycle` and proofs; `Architecture`, `CommandStream`,
`Routing`, `RouteLite` and proofs; `CircuitDAG`, `SabreCore`, `RouterContract`;
`WireGraph` and proofs; `Gates`, `RegisterSemantics`, `SingleQubitFusion`,
`Rebase`, `OptimizeInTarget`, `TranspileAndOptimize`, `BlockFusion` and their
composition `CircuitRun`, with proofs; `ThreadPool`, `TopologyCache` and their
composition `TranspilerCalls`, with proofs; `BlockTree`; `RouteCall`, one call of
either router with SABRE's portfolio; `DeviceCompile` and `ControlledBlock` in front
of `CircuitRun`.

Open, in this order:

1. Proofs about `BlockTree`: it computes with recursive functions over trees, so
   the statements in reach are those about one queue, not about a whole tree.
2. Else bodies of conditionals, structured-program plans and their cache in the
   engine.

The abstract specifications are `BlasCall` for the callback pool, `Routing` for
both routers, the exact semantics `RegisterSemantics` for everything between a
stream and its shots, what the rules at the start of a call give (`Answer` in
`TopologyCache`) for the cached transpiler, and in `BlockTree` the stream each block
is meant to be.

## 3. Modules and their code

### Threads

**`BlasCall`** states what the callback promises: one call at a time, each job
of it once, a return with every job done, and only the exiting thread after
`exit`. **`BlasPool`** is `blas_threads.cpp` step by step. Each application thread has a
program counter over the callback (`Enter`, `Park`, `Admit`, `RunInline`,
`LeaveInline`), `Pool::run` (`LockPool` to `Return`), and the fork and exit
handlers; worker `w` has one over `next_call` and `work`. A step is what happens
between two accesses of shared atomics or under one holding of a mutex. A wait
on a condition variable is two steps, asleep and woken, and wakes spuriously at
any time. Polling is the free choice to stop polling. `Jobs` objects live on the
caller's stack, so a pointer is named by its call, and using it after that call
is what `JobsAlive` forbids. `fork` continues in the parent or in the child, where
only the forking thread is left. External: OpenBLAS's jobs, which end only once
all jobs of the call began, and its teardown.

**`ThreadPool`** is `parallel/thread_pool.cpp`: a critical section is one step, and
between the push of a task and its notification the mutex is free.
**`TopologyCache`** is `Transpiler::transpile` with its cache: the relabelling of
`core/canonical.cpp` by order of first use, the key, and the names written back on
a hit; what the rules give is the operator `Answer`, and `Transparent` says a
result is that. **`TranspilerCalls`** composes them: clients that call
`transpile_parallel` over the global pool or over one they own and destroy, single calls
through the cache, registration of rules between calls, the interpreter lock.

### Engines

**`EngineLifecycle`** has one action per engine call, since engines run on one Python
thread: the difficulty is what a raising call leaves behind, so an action's
outcome depends on the first primitive that raises (`Raising`), and
`CompilePrimitives` changes exactly those before it as the loop in `_engine.py:510-539` does.
A primitive's circuits are compiled together, so they are one value stamped with
input, settings and binding; `EditPrimitive` and `EditNoise` are the user between calls.
`disturbed` is a history variable: circuits changed without the generation
knowing, by another engine or by a sweep that raised.

### From a stream to shots

**`CommandStream`** is the shape of a command, branch depth, and `Ordered`: which
commands may not be exchanged. **`CircuitDAG`** is the graph `from_commands`
builds, nodes named by the position of their first command. **`WireGraph`** keeps its
`prev` and `next` links while nodes are removed and replaced. **`Gates`** holds what
the passes know of a gate: the tables of `core/gates.h`, the merge, inverse and
commutation rules; a parameter is a linear form in one symbol, in eighths of a
quarter turn. `CommandOf` and `IsStream` are what the factories of `core/command.h`
guarantee of a command: its bits are those it writes and those of its condition,
only a phase, a fence or a marker has no qubit, and a Custom carries plain gates;
`IsProgram` adds that gates are those of `GateType` and that only a Custom carries
factors, those `decompose_custom` solves for.

**`RegisterSemantics`** is the yardstick: the operator of a stream on the register,
exactly, in integers. The amplitudes of all gates used lie in a cyclotomic ring, so
global phases and distributions are compared without rounding. It follows the
simulator's kernels, trajectory rules and branch dispatch.

**`Rebase`** is every decomposition rule with one pass of the transpiler over the
stream and the cascade of at most ten passes; the recursions of `mcx_dirty` and
`mc_phase` are unrolled, since a half of a split ladder never splits again and a
peeled control is never met twice; **`SingleQubitFusion`** the accumulators of `fuse_single_qubit_gates`;
**`OptimizeInTarget`** the two worklist passes, one node per step, recursing into
branch bodies with a stack of graphs, and refusing a stream or a body whose
markers are out of place (`Optimise`); **`TranspileAndOptimize`** the cascade and what
follows it; **`BlockFusion`** the simulator's fusion, one command or one block sent out
per step. **`CircuitRun`** composes them with binding and the choice of `run` between
sampling once and a trajectory per shot. **`DeviceCompile`** puts
`compile_for_device` in front of the run: width check, rebase, any routing that keeps
the contract `Routing`, SWAPs lowered along the stored edges, rebase, check of
directions. **`ControlledBlock`** puts a stream under control in front of either:
`make_single_controlled` with its table, `make_multi_controlled` with its basis,
nested wrappings, and what raises.

### Blocks

**`BlockTree`** is the Python `Block` and `CompositeBlock` over their C++ bases. A
user works on a shelf of block variables: creates, places, binds, renames,
reverses, adds to a composite or a conditional, builds. Next to each block stands
the stream it is meant to be, obtained by carrying out every operation at once;
the block itself queues, bakes and flattens as the code does.

### Routers

**`Architecture`** is the edge set with the queries the routers make. The
breadth-first search visits sorted neighbours, so `shortest_path`'s first hop
(`IsNextHop`) is the least of those that come closer. **`Routing`** is the contract. It
describes the output by what it does: `carried` says which logical qubit's state
each wire carries after the SWAPs emitted so far, `ran` which commands ran, on
which qubits. `Run` requires the operands to sit on an edge the device can use in
that direction, `Swap` an edge and no half emitted branch, `Finish` that everything
ran and that the maps locate the qubits. It has no notion of `l2p`, so it cannot
be satisfied by two wrong records that agree.

**`RouteLite`** is `route_lite` with `resolve_initial_mapping`, `step_swap` and
`resolve`: a cursor, the branch depth, the mapping and its inverse, and each
rejection as its own action. `Reindexed` is `reindex_sampling_result`.
**`SabreCore`** is `sabre_core`: the ready list with its in-degrees per wire, emission
(`EmitNode`, `EmitInRegion`), the front layer, the SWAP choice and the forced walk.
The heuristic's choice is any edge touching the front, which covers every score,
decay and tie-break seed. **`RouteCall`** is one call of `route` with either router:
argument checks, the pinned and the perfect layout, the portfolio's trials and
rounds with forward, reverse and scored passes, the result kept through
exceptions, and Lite as the last word. **`RouterContract`** runs both routers on one
circuit with the mapping pinned.

### Assumptions about what is around the modelled code

* The 64-bit topology hash has no collisions. A registered rule acts on the
  operands of its command, whatever they are called, and writes gates without
  angles (`IsRule`); the commands of a query have the shape that
  `check_command_shape` admits. Rules and cache are changed only while nothing
  runs, and the cache is on only for single calls, one at a time: the code has no
  lock on either. A Python host has no binding for the cache. A pool that is destroyed is a user's own, as in
  `tests/cpp/test_cpu_budget.cpp:225`; the global one lives forever, and nothing is
  submitted to a stopped pool.
* A parameter has at most one symbol. iSWAP, iSWAPdg and ECR have no kernel in
  the simulator; their matrices are those the Qulacs emitter writes.
* Free choices stand for: which embedding and which seeds SABRE finds (its search
  has a node budget), and which of two streams with as many SWAPs is shorter.
  Any router that keeps `Routing` serves `DeviceCompile`; `RouteCall` checks that
  both do.
* The user of blocks: renames to fresh symbols, does not bind what is queued as
  bound, appends gates before building, adds children to composites that have
  nothing queued and whose width is open or not affected, leaves a block alone
  once it is part of another, and gives up a block whose build raised. Section 8
  says what happens outside this discipline.

## 4. Runs and bounds

| run | what it shows | bounds |
|---|---|---|
| `blas_pool` | safety, the inductive invariant, the refinement of `BlasCall`, and that every admitted call and fork ends | 2 application threads, up to 3 jobs (2 workers), 2 calls, 1 fork, 1 exit |
| `transpile_parallel` | no worker asleep beside work, drained pools, exact hits, exact calls, every wait ends | 2 workers, 2 clients with one call each, up to 2 blocks per call, 2 rule sets, single calls before or after; `Bound` in `MCTranspilerCalls` |
| `engine_calls` | one noisy engine, or two engines over shared primitives: safety and `BuildHonoured` | 2 primitives, lists up to 2, 3 inputs (one constant), 2 bindings, 2 noise compositions, 2 generations (2 and 1 for two engines) |
| `circuit_run` | from blocks under control, a device compilation or the optimiser to what is dispatched | `Window` 2 (8 in the code), `MaxFused` 2, one binding; all words of up to 3 over 15 letters, of 4 over two smaller alphabets, regions, longer streams; every decomposition rule plain, conditional and in a branch for 4 gate sets; devices `0 -> 1 <- 2` with 2 layouts, 1 SWAP and 3 gate sets; every gate under one and two controls, rotations under three and under nested ones |
| `route_calls` | both routers: maps, order, contract, portfolio, causes of a throw, an answer | 5 wires (a line with mixed directions and an isolated wire); circuits of up to 2 commands, of 3 CX, branches, stray markers; 2 trials, 2 rounds, 2 seeds, `StallBound` 2 |
| `block_tree` | what a built block flattens to, its symbols, what the planner reads | 2 variables, 4 operations, depth 3, 4 commands, 1 rename, 2 qubits |
| `engine_stale_plan`, `engine_foreign_circuits`, `router_throw_contract`, `transpile_parallel_python_rule`, `topology_cache_contract`, `block_tree_aliases` | the disagreements of section 7 | as above; a line of 4 and all pairs of CX for the third |

Why these are enough to meet the hazards:

* Three jobs is the least for which a call may involve fewer workers than the pool
  has (two jobs after three), which is where counting goes wrong; two callers
  are the least for contention on the call mutex; two calls let a late worker of
  the first meet the second. With one fork and one exit they combine: a fork
  before, between and after calls, an exit while another thread is in a call.
* Two workers are the least for which a notification can go to the wrong one or
  be spent on a worker that finds the queue empty; two clients let one call raise
  and leave tasks behind that run under the other.
* Two primitives and lists of two allow a call to raise at the first, at the
  second or not at all, and a list to name the same primitive twice. Two
  generations tell a plan of the current one from a stale one.
* Three letters are enough for something to come between two gates that merge or
  cancel, four for a cancellation that makes another one possible, and a window
  of 2 for a partner just out of it. The alphabet has one letter of each gate
  family, both ways of conditioning and every fence. Rules and controls are
  checked one gate at a time, in full.
* Five wires with distance 3 across the line give routes of two SWAPs, gates
  against an edge, and pairs without a path; three CX give SWAPs that undo
  one another's placement. `StallBound` is `2 n^2 + 16` in the code and 2 in the
  runs, so that the forced walk is reached. Two trials of two rounds let a trial
  throw after it, or an earlier one, kept a result.
* Four operations suffice to bind, rename and reverse a child before and after it
  is wired, or to wire it twice down.

Deadlock is not checked (`CHECK_DEADLOCK FALSE`) in `blas_pool`, `transpile_parallel`
with its variants and `block_tree` with its variant: there a process may really
stop, when all its calls are made, its other threads are parked after `exit`, or
the user has done enough.

Mutants: for every property of a passing run, `PROJECT.json` names a plausible
slip in a modelled definition (a counter not incremented, a wake-up sent to one
waiter, a map updated one-sidedly, a wire forgotten, a phase on the wrong
control value) that makes TLC report that property.

## 5. Fairness

* `BlasPool`: weak fairness of each thread and each worker, and of the fork and
  exit handlers: the operating system runs what can run. `Enter`, `BeginFork` and
  `BeginExit` are the application's choices and have none, and spurious wake-ups
  have none: they may happen but nothing relies on them. Nothing is assumed of
  OpenBLAS beyond its jobs ending once all of them began.
* `TranspilerCalls`: weak fairness of each client inside a call (submit, notify,
  get), of each worker (take, run, leave) and of the destructor. That a client
  calls, registers a rule or destroys its pool is its own choice.
* `RouteCall`: weak fairness of the whole routine, a single-threaded loop that
  waits for nothing. Nothing is assumed about which SWAP is chosen.
* `EngineLifecycle`, `CircuitRun` and what it is composed of, `BlockTree`: none; no
  liveness is claimed. That the optimiser, the fusion and device compilation end is
  the deadlock check together with their loops having finite measures; it is not
  stated as a property.

## 6. Proofs

All theorems are for every value of the constants; each module's assumptions are
its named `ASSUME`s, evaluated by TLC in the runs.

**`BlasPoolProofs`.** `IInv` adds to the type invariant and the safety
properties: who holds which mutex at which program counter (`LockInv`); the
call word seen by each worker against the one published (`WorkerInv`,
`CallInv`); `remaining_` as the cardinality of the set of workers that still
have a job of the call (`CountInv`); `sleeping_` as that of the workers asleep
(`SleepInv`); which jobs ran (`RanInv`); and the exit protocol (`ExitInv`).
The safety properties alone are not inductive: that the pointer a worker loads is
the current call's follows only from the caller being unable to leave while that
worker is in the set `remaining_` counts. Proved: `Inductive`, `TypeCorrect`,
`NoDanglingJobs`, `NoLostWakeup`, `QuietTeardown`, and `PoolImplementsCall`, the
refinement of `BlasCall`.

**`TranspilerCallsProofs`.** The pool's invariant counts: queued tasks against
workers awake and notifications still to come. Over it `NobodySleepsOnWork` and
`DestructorDrains`; with the results of the tasks that ran and those still queued,
`CallsStayExact`: each call returns what the rules at its start give for its own
blocks in their order, or raises at the first refused one.
`HitsStayExact` is about the cache: renaming qubits, bits and symbols commutes with
the whole cascade. Two commands are twins when one is the other under new names
(`Renaming`); every rule of the tables, the chains of a multi-controlled Z with any
number of controls included, writes twins for twins, so a pass and ten passes do;
the relabelled stream is a twin of the query; and what is written back undoes the
relabelling because a rule names no qubit, bit or symbol its command does not.
`CacheInv` adds to `HitsExact` that an entry is what the rules of its own time gave for
the stream it came from.

**`EngineLifecycleProofs`.** `IInv` is the safety properties with two additions:
a plan's generation is at most the engine's (`PlansOfThePast`), so that a new
generation starts without plans, and a simulator holding noise is flagged
(`NoiseFlagged`). `CompileLoop` states once what the loop does to any
primitive, whichever one raises. Proved: `Inductive`, each safety property
and the action property `BuildHonoured` (`CallsHonoured`).

**`StreamProofs`** is shared: how the branch depth moves along a stream, that the
nodes of a well-formed stream partition its commands, that two commands which
may not change places share a wire, and that a stream reversed node by node is
well-formed again, which SABRE's backward passes need. It also holds what the
rules write: twins for twins, rule by rule, well-shaped commands, in gates nearer to
the target (`TableRank`), and the cascade as at most ten passes; and that streams cut
out of a stream between markers of one depth, or joined, nest.

**`SabreCoreProofs`.** One pass of `sabre_core`. `IInv` says that a node has finished
when its last command is out, that `indegree` counts the wires on which something
before the node has not finished, and that inside a region exactly the commands
before its cursor are out (`PassInvariant`). From it `ReadyTheorem`: the ready list is
the nodes all of whose predecessors are out; and `CoreImplementsRouting`: whichever
edges the heuristic picks, and through the forced walk, every step is a step or a
stutter of `Routing`. The forced walk needs that a first hop exists and comes
closer, which is proved of `Distance` by a least counterexample, not by induction
over its definition.

**`RouteCallProofs`.** Lite first: `IInv` joins types, maps, operands and order; the
cursor determines what ran, so `Done` is an initial segment, and branch depth is
that of the segment, so a SWAP is only emitted between regions. Proved: the
invariant and its parts (`OperandsAreCurrent` and `SweepKeepsOrder` are proved only, no
run repeats them), `ReindexIsRight`, and `LiteImplementsRouting`, the refinement of
`Routing` on every device and circuit. Then the call with its portfolio: `CallInv`
adds which circuit and layout each pass has, forwards or backwards, and what is
kept. Proved: `PassesKeepTheirBooks` and `PassesRoute` (every pass of every trial and
round keeps the invariant of `SabreCoreProofs` and implements `Routing`),
`ResultIsOnePass` (whatever trials threw, the maps and the stream returned are of
one forward pass), `LiteInCall`, and `OnlyListedCauses`. The last needs `CauseInv`: a SWAP
goes along an edge, so it moves qubits only inside a connected part of the
device, and a gate whose operands lie in different parts at the end did so at
the start.

**`CircuitRunProofs`.** Five results, over the rules of `StreamProofs`: every built-in
one, the multi-controlled ones included, writes well-shaped commands, so every
stream of the run has the shape `IsProgram` states.
`FusionKeepsOrder`: commands that share a qubit, a written bit or a fence leave the
fusion in order; open blocks which share a wire are ordered by their id, and
`front` remembers the latest on each.
`LinksStayExact`: building, removing and replacing keep `prev` and `next` exact in
every graph on the stack of calls.
`CancelStopsAtFixpoint`: when a call of `cancel_wire_adjacent` has emptied its
worklist, none of its rules applies. `CancelInv` says that every node a rule applies
to is on the worklist of its call. It is inductive because an edit makes a rule
apply only to a node that precedes a removed one on one of its wires, and those
are what the code requeues; because `from_commands` of a body starts with every
node on the list; and because a caller waits on a region node, to which no
rule applies and whose replacement changes no other node's links.
`RefusalsHaveCause`: `transpile_and_optimize` throws only for a gap of the target that
`verify_closure` reports, a Custom on several qubits it does not admit, a caller's
rule that writes gates outside it, or branch markers out of place. `RefInv` follows the
stream from phase to phase. While it is rebased, each gate outside the target has a
rank (`TableRank`, 6 at most) that its rule lowers in all three tables, so at most
six of the ten passes change anything. In the passes every command and span of
every graph on the stack stays in the target and the regions nest (`SoundStack`):
the bodies cut out of a region, optimised and joined again make a region, so no
call of `from_commands` meets a stray marker unless the caller's stream had one.
The fusion, run only where Custom is admitted, writes nothing else
(`FusionAdmitted`).
`OrderIsKept`: of the rebased stream, two commands whose order the program may depend
on change places neither in the optimiser, nor in either fusion, nor between the
parts `QarpSimulator::run` dispatches, except where they commute. `origin` names the
input commands a command stands for, and `SetFit` says that two such sets may be sent
one before the other. `OrdInv` follows that from phase to phase. In the passes a
command resembles every command it stands for (`Traced`: gate, bits, and qubits up to
the symmetry of the gate), so what commutes with it commutes with them; the nodes of
every graph are in order (`OrderedGraph`), and what a call works on lies inside the
body its caller cut out (`KeptCalls`). A merge moves one command over those
between: they are none on its wires, or the walk of `commute_and_cancel` has found
each of them commuting; fences and regions, being on every wire, stop both. After
the passes a command only has to meet every qubit, bit and fence its input commands
meet (`Solid`), since the fusions move a command only past what it does not conflict
with: `Fusion` says so of what `fuse_single_qubit_gates` holds back for each qubit,
`FuseInv` of the blocks.

**`DeviceCompileProofs`.** `DeviceFits`: a compiled circuit runs what the device can
run, whatever the router did within its contract. `DeviceInv` follows a command
phase by phase: after the first rebase it has two operands at most, the router
runs it on distinct wires joined by an edge, the second rebase meets only gates
it keeps, gates on one qubit, CX along an edge and SWAPs of an undirected device;
the cascade is ten passes, each of which keeps that (`Lean`).

**Only model-checked.**

* Liveness (`CallReturns`, `EveryWaitEnds`, `CallAnswered`): fairness and `ENABLED` are
  outside what the proof system handles.
* What compares amplitudes (`MeaningKept`, `RebaseKept`, `FastPathExact`, `ControlExact`,
  `CompiledAsAsked`): the operator of a stream is a fold over its commands with
  values in a ring of dimension that depends on the stream, so a proof would be an
  induction over data and an algebra of that ring.
* `BlockTree`, whose recursive operators the proof system does not admit.

The type invariants of `BlasPool` and `EngineLifecycle` are checked as a part of
`IInv`; that of `RouteLite` is proved only.

## 7. Where code and documents disagree

Each is a run that TLC ends with a counterexample.

1. **A sweep that raises leaves a stale gradient** (`engine_stale_plan`).
   `_batch_setup` starts a new build generation only after the compile loop
   returned (`_engine.py:646`). If the loop compiled one primitive afresh and raised
   on the next, the shift plans of the old circuits stay current while `run`
   evaluates the new ones.
2. **`run` evaluates another engine's circuits** (`engine_foreign_circuits`): it
   dispatches `prim.compiled` without looking at the stamp (`_engine.py:603`),
   which `_engine.py:165-166` says decides validity.
3. **SABRE throws where Lite routes** (`router_throw_contract`), although
   `sabre.h:23-26` promises identical throw conditions. The front layer judges a
   conditional gate before the gates beside it have been routed. Without a pinned
   mapping every trial may throw for this reason, and `sabre_route` then rethrows
   (line 610) before it would consult Lite.
4. **A Python rule hangs `transpile_parallel`** (`transpile_parallel_python_rule`): the
   binding keeps the interpreter lock while it waits for workers that need it
   (`bindings.cpp:1147`).
5. **The cache answers for another circuit** (`topology_cache_contract`): its hash
   leaves out a Custom gate's matrix, and entries outlive the rules they were
   computed with (`transpiler.cpp:66`), against the contract its test states.
6. **A baked child loses its bits** (`block_tree_aliases`): a child with `target_cbits`
   and a queued operation is placed on bits of its own (`_block.py:1593`).

## 8. Observations

On the compiler and the simulator:

* `transpile_and_optimize` is not idempotent at O2: `Z(0) S(0) X(0) CX(1,0) X(0) CX(1,0)
  Z(0)` shrinks again on its own output, because the worklist is refilled with
  direct neighbours only, while the commutation rule looks further
  (`tests/cpp/test_dag_commutation.cpp:271` says "Idempotent on its own output", of
  the streams it tries).
* The optimiser may remove the only readers of a bit, and with them shrink the
  width of the classical register the simulator infers.
* A mid-circuit `Measure` that records nothing is a no-op when the final state is
  sampled once and collapses the state on the trajectory path; no outcome that is
  reported tells them apart.
* `fuse_single_qubit_gates` would skip the flush of readers for a `Measure` of several
  qubits; no factory writes one.
* `install_clifford_t_rz_decompositions` overwrites every registered rule of a
  built-in gate, where its comment speaks of Rx and Ry; `verify_closure` accepts
  rules that only feed one another. `n_threads` of `transpile_parallel` is ignored.
* When a future throws, `transpile_parallel` returns while other tasks still hold
  references to the caller's blocks. With the cache on, its tasks would race on
  the map.
* `ControlledBlock`: `make_single_controlled` and `make_multi_controlled` drop the
  condition of an inner command, which only absorbed or hand-made commands carry
  (the inputs of `ControlExact` have none), and a Barrier without qubits becomes one
  on the controls. `qarp_conventions.md` section 6.2 says only Measure and Reset
  raise; the code refuses Custom gates too.

On the routers:

* They refuse SWAPs for a conditional gate because they "would corrupt state when
  the condition is false". The contract and its proof do not use this refusal: an
  unconditional SWAP moves the qubits whatever the condition is, and the map
  follows it. Inside a branch body the refusal is needed, as the mutant
  `StepSwapInBranch` shows.
* A trial of SABRE fails when its reverse pass throws on a conditional gate, though
  the forward pass succeeds; the exception of the last trial is rethrown although
  Lite might succeed.
* A two-qubit `Custom` gate is not among `is_asymmetric_2q`, so on a directed
  device it runs over a reversed edge unchanged, while CP, which is symmetric, is
  refused there. The model follows the code.
* `HeuristicSwap` always has a candidate: the gates of the front layer are
  neither adjacent nor disconnected, so both their wires have edges. The code's
  "no candidate SWAP" and the second "disconnected" throw are unreachable and
  have no action.

On engines: `build` installs its list before compiling and keeps it on failure, so
a `run` after a build that raised returns the initial 0.0 for a Pauli average
that was never built.

On blocks:

* A failed build of a child leaves its earlier siblings wired while `_n_wired` stays
  0, so they would be wired twice by a retry; `build()` marks the C++ block built
  before `_finalize` and `_post_build_check`, so a second `build()` after a raise returns
  silently. `plan_structure` never runs `_post_build_check`.
* A composite child that holds a dead-branch alias and has queued operations is
  baked into a simple block, which the check then scans again and refuses.
* `replace_symbols` on an unbuilt composite is applied twice; and after
  `set_symbols({a: 1}).replace_symbols({b: a})` the symbol b is bound too, while
  `symbols` reports a as free.
* Widths are resolved once: a child added after the first build, or a conditional's
  body built after the conditional was made, does not widen its parent, and a
  simple block measured after its build keeps its old count of bits. A reversed
  composite swaps the automatic bit ranges of its children. A conditional's
  width ignores its bodies' `target_cbits`, and a `MeasureBlock` has one bit whatever
  its index.
* `_Planner._parts` (`_program.py:440-480`) plans a declared part of a built block
  without looking at its pending dagger, which `_collect_parts` does for an unbuilt
  one.

## 9. What is not modelled

* *Numerics*: amplitudes over general angles, matrices, synthesis, estimators,
  optimizers, operator algebra, noise channels. No control worth a state machine, or
  results that are real numbers.
* *Formats*: emitters and absorbers, plotting, resource tables.
* *Environment*: thread counts, CPU masks, MPI variables: they decide one number,
  which is a constant of the models. The installation of the callback is one pass
  over the loaded libraries whose steps are calls of the dynamic loader.
* *Parts of modelled components*: shots, initial states, seeds, structured programs with
  their plan cache, and the other gradient methods of the engines; else bodies of
  conditional blocks; the placement and rebinding of a `ControlledBlock`; the
  kernels the planner recognises; the node budget of the perfect-layout search;
  `verify_closure`; expectation values, threads over the statevector and GPU
  dispatch of the simulator. Each component's note in `PROJECT.json` is precise.
* Third-party code (csim, Eigen, pybind11), benchmarks and examples.
