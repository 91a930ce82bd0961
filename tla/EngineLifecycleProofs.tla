---------------------- MODULE EngineLifecycleProofs ----------------------
(***************************************************************************)
(* Proofs about EngineLifecycle, for any engines, primitives, settings and *)
(* inputs.  IInv is inductive; the properties the runs check follow.       *)
(***************************************************************************)
EXTENDS EngineLifecycle, TLAPS

-----------------------------------------------------------------------------
(* What one call of the compile loop does.                                 *)

\* Every compiled primitive was reached, and it is one of the list.
LEMMA FreshListed ==
  ASSUME NEW e, NEW l, NEW b, NEW rebuild
  PROVE  Fresh(e, l, b, rebuild) \subseteq MembersOf(l)
BY DEF Fresh, Reached, MembersOf

LEMMA ListsTyped ==
  ASSUME NEW l \in Lists
  PROVE  /\ \A i \in DOMAIN l : l[i] \in Primitives
         /\ MembersOf(l) \subseteq Primitives
BY DEF Lists, MembersOf

LEMMA CircuitsForTyped ==
  ASSUME TypeOK, NEW e \in Engines, NEW p \in Primitives, NEW b \in Bindings
  PROVE  CircuitsFor(e, p, b) \in Compiled
BY DEF TypeOK, CircuitsFor, Compiled, Circuit

\* The primitives the loop compiles afresh fit what they were derived from,
\* and the others are untouched.
LEMMA CompileLoop ==
  ASSUME TypeOK, CircuitsMatchDerivation, EmptyOnlyIfConstant,
         NEW e \in Engines, NEW l \in Lists, NEW b \in Bindings,
         NEW rebuild \in BOOLEAN,
         CompilePrimitives(e, l, b, rebuild), UNCHANGED input
  PROVE  /\ derived' \in [Primitives -> Inputs \cup {Nothing}]
         /\ compiled' \in [Primitives -> Compiled]
         /\ builtEmpty' \in [Primitives -> BOOLEAN]
         /\ CircuitsMatchDerivation' /\ EmptyOnlyIfConstant'
         /\ \A p \in Primitives \ Fresh(e, l, b, rebuild) :
              compiled'[p] = compiled[p]
<1> DEFINE fresh == Fresh(e, l, b, rebuild)
<1>1. derived' = [p \in Primitives |-> IF p \in fresh THEN input[p] ELSE derived[p]]
  BY DEF CompilePrimitives
<1>2. compiled' = [p \in Primitives |->
        IF p \notin fresh THEN compiled[p]
        ELSE IF Raises(e, p, b, rebuild) THEN {} ELSE CircuitsFor(e, p, b)]
  BY DEF CompilePrimitives
<1>3. builtEmpty' = [p \in Primitives |->
        IF p \notin fresh THEN builtEmpty[p]
        ELSE ~Raises(e, p, b, rebuild) /\ input[p] = Constant]
  BY DEF CompilePrimitives
<1> HIDE DEF fresh
<1>4. derived' \in [Primitives -> Inputs \cup {Nothing}]
  BY <1>1 DEF TypeOK
<1>5. compiled' \in [Primitives -> Compiled]
  <2>1. \A p \in Primitives : compiled[p] \in Compiled
    BY DEF TypeOK
  <2>2. {} \in Compiled
    BY DEF Compiled
  <2> QED
    BY <1>2, <2>1, <2>2, CircuitsForTyped
<1>6. builtEmpty' \in [Primitives -> BOOLEAN]
  BY <1>3, Zenon DEF TypeOK
<1>7. CircuitsMatchDerivation'
  BY <1>1, <1>2 DEF CircuitsMatchDerivation, CircuitsFor
<1>8. EmptyOnlyIfConstant'
  <2> SUFFICES ASSUME NEW p \in Primitives, builtEmpty'[p]
               PROVE  compiled'[p] = {} /\ derived'[p] = Constant
    BY DEF EmptyOnlyIfConstant
  <2>1. CASE p \notin fresh
    <3>1. builtEmpty[p]
      BY <1>3, <2>1
    <3> QED
      BY <1>1, <1>2, <2>1, <3>1 DEF EmptyOnlyIfConstant
  <2>2. CASE p \in fresh
    <3>1. ~Raises(e, p, b, rebuild) /\ input[p] = Constant
      BY <1>3, <2>2
    <3> QED
      BY <1>1, <1>2, <2>2, <3>1 DEF CircuitsFor
  <2> QED
    BY <2>1, <2>2
<1>9. \A p \in Primitives \ fresh : compiled'[p] = compiled[p]
  BY <1>2
<1> QED
  BY <1>4, <1>5, <1>6, <1>7, <1>8, <1>9 DEF fresh

\* Synchronising the simulator keeps the flag truthful.
LEMMA SyncKeeps ==
  ASSUME TypeOK, NoiseFlagged, NEW e \in Engines, SyncSimNoise(e)
  PROVE  /\ sim' \in [Engines -> Channels \cup {Off}]
         /\ simEnabled' \in [Engines -> BOOLEAN]
         /\ NoiseFlagged'
<1>1. SyncedSim(e) \in Channels \cup {Off}
  BY DEF TypeOK, SyncedSim
<1>2. sim' \in [Engines -> Channels \cup {Off}]
  BY <1>1 DEF SyncSimNoise, TypeOK
<1>3. simEnabled' \in [Engines -> BOOLEAN]
  BY Zenon DEF SyncSimNoise, TypeOK
<1>4. SyncedSim(e) # Off => noise[e] # Off
  BY DEF SyncedSim, NoiseFlagged
<1>5. ASSUME NEW f \in Engines, sim'[f] # Off PROVE simEnabled'[f]
  <2>1. CASE f = e
    <3>1. sim'[e] = SyncedSim(e)
      BY DEF SyncSimNoise, TypeOK
    <3>2. simEnabled'[e] = (noise[e] # Off)
      BY Zenon DEF SyncSimNoise, TypeOK
    <3> QED
      BY <1>4, <1>5, <2>1, <3>1, <3>2
  <2>2. CASE f # e
    <3>1. sim'[f] = sim[f]
      BY <2>2 DEF SyncSimNoise, TypeOK
    <3>2. simEnabled'[f] = simEnabled[f]
      BY <2>2, Zenon DEF SyncSimNoise, TypeOK
    <3> QED
      BY <1>5, <3>1, <3>2 DEF NoiseFlagged
  <2> QED
    BY <2>1, <2>2
<1> QED
  BY <1>2, <1>3, <1>5 DEF NoiseFlagged

-----------------------------------------------------------------------------
(* The shift plans.                                                        *)

\* A compile loop that counts as a new generation of e, or of no engine,
\* leaves the plans of every undisturbed engine fresh.
LEMMA PlansStayFresh ==
  ASSUME TypeOK, TypeOK', PlansFreshUndisturbed, PlansOfThePast,
         NEW e \in Engines, NEW bump \in BOOLEAN, NEW fresh,
         \A p \in Primitives \ fresh : compiled'[p] = compiled[p],
         Disturb(e, bump, fresh), UNCHANGED plans,
         generation' = IF bump THEN [generation EXCEPT ![e] = @ + 1] ELSE generation,
         \A f \in Engines : ~(f = e /\ bump) => primitives'[f] = primitives[f]
  PROVE  PlansFreshUndisturbed' /\ PlansOfThePast'
<1>1. \A f \in Engines : plans[f].generation \in Nat /\ generation[f] \in Nat
  BY DEF TypeOK
<1>2. PlansOfThePast'
  BY <1>1 DEF PlansOfThePast, TypeOK
<1>3. ASSUME NEW f \in Engines, ~disturbed'[f],
             plans'[f].generation = generation'[f]
      PROVE  /\ DOMAIN plans'[f].from = DOMAIN primitives'[f]
             /\ \A i \in DOMAIN primitives'[f] :
                  plans'[f].from[i] = compiled'[primitives'[f][i]]
  <2>1. CASE f = e /\ bump
    <3>1. generation'[e] = generation[e] + 1
      BY <2>1 DEF TypeOK
    <3> QED
      BY <1>1, <1>3, <2>1, <3>1 DEF PlansOfThePast
  <2>2. CASE ~(f = e /\ bump)
    <3>1. generation'[f] = generation[f] /\ primitives'[f] = primitives[f]
      BY <2>2 DEF TypeOK
    <3>2. ~disturbed[f] /\ MembersOf(primitives[f]) \cap fresh = {}
      BY <1>3, <2>2 DEF Disturb
    <3>3. /\ DOMAIN plans[f].from = DOMAIN primitives[f]
          /\ \A i \in DOMAIN primitives[f] :
               plans[f].from[i] = compiled[primitives[f][i]]
      BY <1>3, <3>1, <3>2 DEF PlansFreshUndisturbed
    <3>4. primitives[f] \in Lists
      BY DEF TypeOK
    <3>5. \A i \in DOMAIN primitives[f] : primitives[f][i] \in Primitives \ fresh
      BY <3>2, <3>4, ListsTyped DEF MembersOf
    <3> QED
      BY <3>1, <3>3, <3>5
  <2> QED
    BY <2>1, <2>2
<1> QED
  BY <1>2, <1>3 DEF PlansFreshUndisturbed

\* Planning caches the circuits of the primitives, whose symbol is free.
LEMMA Planning ==
  ASSUME IInv, NEW e \in Engines, ~BindsSymbol(e), ShiftPlans(e),
         UNCHANGED <<primitiveVars, primitives, generation, disturbed>>
  PROVE  /\ plans' \in [Engines -> [generation : Nat, from : Seq(Compiled)]]
         /\ PlansFreshUndisturbed' /\ PlansUnbound' /\ PlansOfThePast'
<1> DEFINE from == [i \in DOMAIN primitives[e] |-> compiled[primitives[e][i]]]
           new == [generation |-> generation[e], from |-> from]
<1>1. CASE plans[e].generation = generation[e]
  <2>1. UNCHANGED plans
    BY <1>1 DEF ShiftPlans
  <2> QED
    BY <2>1 DEF IInv, TypeOK, PlansFreshUndisturbed, PlansUnbound, PlansOfThePast,
                primitiveVars
<1>2. CASE plans[e].generation # generation[e]
  <2>1. plans' = [plans EXCEPT ![e] = new]
    BY <1>2 DEF ShiftPlans
  <2>a. primitives[e] \in Lists
    BY DEF IInv, TypeOK
  <2>2. PICK n \in 0 .. MaxList : primitives[e] \in [1 .. n -> Primitives]
    BY <2>a DEF Lists
  <2>3. from \in [1 .. n -> Compiled]
    BY <2>2 DEF IInv, TypeOK
  <2>4. n \in Nat
    BY <2>2, SizesAssumption
  <2>5. from \in Seq(Compiled)
    BY <2>3, <2>4
  <2>6. new \in [generation : Nat, from : Seq(Compiled)]
    BY <2>5 DEF IInv, TypeOK
  <2>7. plans' \in [Engines -> [generation : Nat, from : Seq(Compiled)]]
    BY <2>1, <2>6 DEF IInv, TypeOK
  <2>8. plans'[e] = new /\ \A f \in Engines \ {e} : plans'[f] = plans[f]
    BY <2>1 DEF IInv, TypeOK
  <2>9. new.generation = generation[e] /\ new.from = from
    OBVIOUS
  <2>10. DOMAIN from = DOMAIN primitives[e]
         /\ \A i \in DOMAIN primitives[e] : from[i] = compiled[primitives[e][i]]
    OBVIOUS
  <2> HIDE DEF new, from
  <2>11. PlansFreshUndisturbed'
    BY <2>8, <2>9, <2>10 DEF IInv, PlansFreshUndisturbed, primitiveVars
  <2>12. PlansOfThePast'
    <3>1. generation[e] \in Nat
      BY DEF IInv, TypeOK
    <3> QED
      BY <2>8, <2>9, <3>1 DEF IInv, PlansOfThePast
  <2>13. PlansUnbound'
    <3>1. \A i \in DOMAIN from : \A c \in from[i] : c.bound = Unbound
      BY <2>10 DEF BindsSymbol, MembersOf
    <3> QED
      BY <2>8, <2>9, <3>1 DEF IInv, PlansUnbound
  <2> QED
    BY <2>7, <2>11, <2>12, <2>13
<1> QED
  BY <1>1, <1>2

-----------------------------------------------------------------------------
(* The invariant.                                                          *)

LEMMA InitIInv == Init => IInv
<1> SUFFICES ASSUME Init PROVE IInv
  OBVIOUS
<1>1. <<>> \in Lists
  <2>1. <<>> \in [1 .. 0 -> Primitives] /\ 0 \in 0 .. MaxList
    BY SizesAssumption
  <2> QED
    BY <2>1 DEF Lists
<1>2. plans \in [Engines -> [generation : Nat, from : Seq(Compiled)]]
  BY DEF Init
<1>3. \A e \in Engines : plans[e].generation = 0 /\ plans[e].from = <<>>
  BY DEF Init
<1>4. TypeOK
  <2>1. {} \in Compiled
    BY DEF Compiled
  <2>2. compiled \in [Primitives -> Compiled]
    BY <2>1 DEF Init
  <2>3. primitives \in [Engines -> Lists]
    BY <1>1 DEF Init
  <2>4. sim = [e \in Engines |-> Off] /\ noise = [e \in Engines |-> Off]
    BY DEF Init
  <2>5. /\ builtEmpty \in [Primitives -> BOOLEAN]
        /\ simEnabled \in [Engines -> BOOLEAN] /\ disturbed \in [Engines -> BOOLEAN]
    BY Zenon DEF Init
  <2> QED
    BY <1>2, <2>2, <2>3, <2>4, <2>5 DEF Init, TypeOK
<1>5. CircuitsMatchDerivation /\ EmptyOnlyIfConstant
  BY DEF Init, CircuitsMatchDerivation, EmptyOnlyIfConstant
<1>6. PlansFreshUndisturbed
  <2>1. \A e \in Engines : primitives[e] = <<>>
    BY DEF Init
  <2> QED
    BY <1>3, <2>1 DEF PlansFreshUndisturbed
<1>7. PlansUnbound
  BY <1>3 DEF PlansUnbound
<1>8. PlansOfThePast
  <2> SUFFICES ASSUME NEW e \in Engines
               PROVE  plans[e].generation <= generation[e]
    BY DEF PlansOfThePast
  <2>1. generation[e] = 0 /\ plans[e].generation = 0
    BY <1>3 DEF Init
  <2> QED
    BY <2>1
<1>9. NoiseFlagged
  BY DEF Init, NoiseFlagged
<1> QED
  BY <1>4, <1>5, <1>6, <1>7, <1>8, <1>9 DEF IInv

\* One case per action; what the user does touches none of the invariant's
\* parts but the types.
LEMMA NextIInv == IInv /\ [Next]_vars => IInv'
<1> SUFFICES ASSUME IInv, [Next]_vars PROVE IInv'
  OBVIOUS
<1> USE DEF primitiveVars, engineVars, simVars
<1>1. ASSUME NEW p \in Primitives, NEW in \in Inputs, EditPrimitive(p, in)
      PROVE  IInv'
  BY <1>1 DEF EditPrimitive, IInv, TypeOK, CircuitsMatchDerivation,
       EmptyOnlyIfConstant, PlansFreshUndisturbed, PlansUnbound, PlansOfThePast,
       NoiseFlagged
<1>2. ASSUME NEW e \in Engines, NEW nm \in Channels \cup {Off}, EditNoise(e, nm)
      PROVE  IInv'
  BY <1>2 DEF EditNoise, IInv, TypeOK, CircuitsMatchDerivation,
       EmptyOnlyIfConstant, PlansFreshUndisturbed, PlansUnbound, PlansOfThePast,
       NoiseFlagged
<1>3. ASSUME NEW e \in Engines, NEW l \in Lists, NEW b \in Bindings,
             NEW rebuild \in BOOLEAN, Build(e, l, b, rebuild)
      PROVE  IInv'
  <2> DEFINE fresh == Fresh(e, l, b, rebuild)
  <2>1. /\ CompilePrimitives(e, l, b, rebuild) /\ UNCHANGED input
        /\ Disturb(e, TRUE, fresh)
        /\ primitives' = [primitives EXCEPT ![e] = l]
        /\ generation' = [generation EXCEPT ![e] = @ + 1]
        /\ UNCHANGED <<settings, plans, noise, sim, simEnabled>>
    BY <1>3 DEF Build
  <2>2. /\ derived' \in [Primitives -> Inputs \cup {Nothing}]
        /\ compiled' \in [Primitives -> Compiled]
        /\ builtEmpty' \in [Primitives -> BOOLEAN]
        /\ CircuitsMatchDerivation' /\ EmptyOnlyIfConstant'
        /\ \A p \in Primitives \ fresh : compiled'[p] = compiled[p]
    BY <2>1, CompileLoop DEF IInv
  <2> HIDE DEF fresh
  <2>3. disturbed' \in [Engines -> BOOLEAN]
    BY <2>1, Zenon DEF Disturb, IInv, TypeOK
  <2>4. primitives' \in [Engines -> Lists] /\ generation' \in [Engines -> Nat]
    BY <2>1 DEF IInv, TypeOK
  <2>5. TypeOK'
    BY <2>1, <2>2, <2>3, <2>4 DEF IInv, TypeOK
  <2>6. \A f \in Engines : f # e => primitives'[f] = primitives[f]
    BY <2>1 DEF IInv, TypeOK
  <2>7. PlansFreshUndisturbed' /\ PlansOfThePast'
    BY <2>1, <2>2, <2>5, <2>6, PlansStayFresh DEF IInv
  <2>8. PlansUnbound' /\ NoiseFlagged'
    BY <2>1 DEF IInv, PlansUnbound, NoiseFlagged
  <2> QED
    BY <2>2, <2>5, <2>7, <2>8 DEF IInv
<1>4. ASSUME NEW e \in Engines, NEW l \in Lists, RefuseBatchRun(e, l)
      PROVE  IInv'
  <2>1. /\ sim' \in [Engines -> Channels \cup {Off}]
        /\ simEnabled' \in [Engines -> BOOLEAN] /\ NoiseFlagged'
    BY <1>4, SyncKeeps DEF RefuseBatchRun, IInv
  <2> QED
    BY <1>4, <2>1 DEF RefuseBatchRun, IInv, TypeOK, CircuitsMatchDerivation,
         EmptyOnlyIfConstant, PlansFreshUndisturbed, PlansUnbound, PlansOfThePast
<1>5. ASSUME NEW e \in Engines, NEW l \in Lists, NEW rebuild \in BOOLEAN,
             BatchRun(e, l, rebuild)
      PROVE  IInv'
  <2> DEFINE fresh == Fresh(e, l, Unbound, rebuild)
             bump == fresh # {} /\ Raising(e, l, Unbound, rebuild) = {}
  <2>1. /\ CompilePrimitives(e, l, Unbound, rebuild) /\ UNCHANGED input
        /\ SyncSimNoise(e)
        /\ Disturb(e, bump, fresh)
        /\ generation' = IF bump THEN [generation EXCEPT ![e] = @ + 1]
                         ELSE generation
        /\ UNCHANGED <<settings, primitives, plans, noise>>
    BY <1>5 DEF BatchRun
  <2>2. /\ derived' \in [Primitives -> Inputs \cup {Nothing}]
        /\ compiled' \in [Primitives -> Compiled]
        /\ builtEmpty' \in [Primitives -> BOOLEAN]
        /\ CircuitsMatchDerivation' /\ EmptyOnlyIfConstant'
        /\ \A p \in Primitives \ fresh : compiled'[p] = compiled[p]
    BY <2>1, CompileLoop, KindsAssumption DEF IInv
  <2>3. bump \in BOOLEAN
    BY Zenon
  <2> HIDE DEF fresh, bump
  <2>4. disturbed' \in [Engines -> BOOLEAN]
    BY <2>1, Zenon DEF Disturb, IInv, TypeOK
  <2>5. generation' \in [Engines -> Nat]
    BY <2>1 DEF IInv, TypeOK
  <2>6. /\ sim' \in [Engines -> Channels \cup {Off}]
        /\ simEnabled' \in [Engines -> BOOLEAN] /\ NoiseFlagged'
    BY <2>1, SyncKeeps DEF IInv
  <2>7. TypeOK'
    BY <2>1, <2>2, <2>4, <2>5, <2>6 DEF IInv, TypeOK
  <2>8. PlansFreshUndisturbed' /\ PlansOfThePast'
    BY <2>1, <2>2, <2>3, <2>7, PlansStayFresh DEF IInv
  <2>9. PlansUnbound'
    BY <2>1 DEF IInv, PlansUnbound
  <2> QED
    BY <2>2, <2>6, <2>7, <2>8, <2>9 DEF IInv
<1>6. ASSUME NEW e \in Engines, NEW named \in BOOLEAN, Run(e, named)
      PROVE  IInv'
  <2>1. /\ sim' \in [Engines -> Channels \cup {Off}]
        /\ simEnabled' \in [Engines -> BOOLEAN] /\ NoiseFlagged'
    BY <1>6, SyncKeeps DEF Run, IInv
  <2> QED
    BY <1>6, <2>1 DEF Run, IInv, TypeOK, CircuitsMatchDerivation,
         EmptyOnlyIfConstant, PlansFreshUndisturbed, PlansUnbound, PlansOfThePast
<1>7. ASSUME NEW e \in Engines, RunGradient(e)
      PROVE  IInv'
  <2>1. /\ sim' \in [Engines -> Channels \cup {Off}]
        /\ simEnabled' \in [Engines -> BOOLEAN] /\ NoiseFlagged'
    BY <1>7, SyncKeeps DEF RunGradient, IInv
  <2>2. UNCHANGED <<input, primitiveVars, settings, primitives, generation,
                    disturbed, noise>>
    BY <1>7 DEF RunGradient
  <2>3. /\ plans' \in [Engines -> [generation : Nat, from : Seq(Compiled)]]
        /\ PlansFreshUndisturbed' /\ PlansUnbound' /\ PlansOfThePast'
    <3>1. CASE ShiftPlans(e)
      BY <1>7, <2>2, <3>1, Planning DEF RunGradient
    <3>2. CASE UNCHANGED plans
      BY <2>2, <3>2 DEF IInv, TypeOK, PlansFreshUndisturbed, PlansUnbound,
                        PlansOfThePast
    <3> QED
      BY <1>7, <3>1, <3>2 DEF RunGradient
  <2> QED
    BY <2>1, <2>2, <2>3 DEF IInv, TypeOK, CircuitsMatchDerivation, EmptyOnlyIfConstant
<1>8. ASSUME UNCHANGED vars PROVE IInv'
  BY <1>8 DEF vars, IInv, TypeOK, CircuitsMatchDerivation, EmptyOnlyIfConstant,
       PlansFreshUndisturbed, PlansUnbound, PlansOfThePast, NoiseFlagged
<1> QED
  BY <1>1, <1>2, <1>3, <1>4, <1>5, <1>6, <1>7, <1>8 DEF Next, Calls

-----------------------------------------------------------------------------
(* The theorems.                                                           *)

\* The lifecycle's invariant, for any number of engines and primitives.
THEOREM Inductive == Spec => []IInv
BY InitIInv, NextIInv, PTL DEF Spec

\* Type correctness.
THEOREM TypeCorrect == Spec => []TypeOK
<1>1. IInv => TypeOK
  BY DEF IInv
<1> QED
  BY Inductive, <1>1, PTL

\* A primitive never holds circuits of another input than its post-processing
\* was derived for, however calls raised (_compile_primitives).
THEOREM CircuitsFitPostProcessing == Spec => []CircuitsMatchDerivation
<1>1. IInv => CircuitsMatchDerivation
  BY DEF IInv
<1> QED
  BY Inductive, <1>1, PTL

\* built_empty is the mark of a constant operator and of nothing else.
THEOREM BuiltEmptyIsConstant == Spec => []EmptyOnlyIfConstant
<1>1. IInv => EmptyOnlyIfConstant
  BY DEF IInv
<1> QED
  BY Inductive, <1>1, PTL

\* Build generations keep shift plans fresh but for foreign builds and sweeps
\* that raise.
THEOREM GenerationsKeepPlansFresh == Spec => []PlansFreshUndisturbed
<1>1. IInv => PlansFreshUndisturbed
  BY DEF IInv
<1> QED
  BY Inductive, <1>1, PTL

\* No shift plan is made of circuits that have the symbol bound.
THEOREM PlansKeepTheSymbol == Spec => []PlansUnbound
<1>1. IInv => PlansUnbound
  BY DEF IInv
<1> QED
  BY Inductive, <1>1, PTL

\* Every call simulates the live noise model.
THEOREM LiveNoise == Spec => []SimulatesLiveNoise
<1>1. IInv => SimulatesLiveNoise
  BY DEF IInv, NoiseFlagged, SimulatesLiveNoise, SyncedSim
<1> QED
  BY Inductive, <1>1, PTL

\* A loop no primitive of which raises honours its settings and its binding,
\* for reused circuits as for new ones.
LEMMA LoopHonours ==
  ASSUME NEW e \in Engines, NEW l \in Lists, NEW b, NEW rebuild \in BOOLEAN,
         CompilePrimitives(e, l, b, rebuild), Raising(e, l, b, rebuild) = {}
  PROVE  Honoured(e, l, b)
<1> DEFINE fresh == Fresh(e, l, b, rebuild)
<1>1. SUFFICES ASSUME NEW p \in MembersOf(l)
               PROVE  /\ compiled'[p] # {} \/ builtEmpty'[p]
                      /\ \A c \in compiled'[p] : c.stamp = settings[e] /\ c.bound = b
  BY DEF Honoured
<1>2. p \in Primitives
  BY ListsTyped
<1>3. ~Raises(e, p, b, rebuild)
  BY DEF Raising, MembersOf
<1>4. CASE Reuses(e, p, b, rebuild)
  <2>1. p \notin fresh
    BY <1>4 DEF Fresh
  <2>2. compiled'[p] = compiled[p]
    BY <1>2, <2>1 DEF CompilePrimitives
  <2> QED
    BY <1>4, <2>2 DEF Reuses, Reusable
<1>5. CASE ~Reuses(e, p, b, rebuild)
  <2>1. p \in fresh
    BY <1>5 DEF Fresh, Reached, MembersOf
  <2>2. compiled'[p] = CircuitsFor(e, p, b)
    BY <1>2, <1>3, <2>1 DEF CompilePrimitives
  <2>3. builtEmpty'[p] = (input[p] = Constant)
    BY <1>2, <1>3, <2>1, Zenon DEF CompilePrimitives
  <2>4. CASE input[p] = Constant
    <3>1. compiled'[p] = {} /\ builtEmpty'[p]
      BY <2>2, <2>3, <2>4, Zenon DEF CircuitsFor
    <3> QED
      BY <3>1, Zenon
  <2>5. CASE input[p] # Constant
    <3>1. compiled'[p] = {[input |-> input[p], stamp |-> settings[e], bound |-> b]}
      BY <2>2, <2>5, Zenon DEF CircuitsFor
    <3> QED
      BY <3>1
  <2> QED
    BY <2>4, <2>5
<1> QED
  BY <1>4, <1>5

\* A build or a sweep that returns leaves each of its primitives compiled under
\* this engine's settings and this call's binding, or built without a circuit.
THEOREM CallsHonoured == Spec => BuildHonoured
<1> DEFINE Step ==
  \A e \in Engines, rebuild \in BOOLEAN : generation'[e] # generation[e] =>
    /\ \A b \in Bindings :
         ReturningBuild(e, primitives'[e], b, rebuild) => Honoured(e, primitives'[e], b)
    /\ \A l \in Lists :
         ReturningBatchRun(e, l, rebuild) => Honoured(e, l, Unbound)
<1>1. IInv' => Step
  <2> SUFFICES ASSUME IInv', NEW e \in Engines, NEW rebuild \in BOOLEAN
               PROVE  /\ \A b \in Bindings :
                           ReturningBuild(e, primitives'[e], b, rebuild) =>
                             Honoured(e, primitives'[e], b)
                      /\ \A l \in Lists :
                           ReturningBatchRun(e, l, rebuild) => Honoured(e, l, Unbound)
    OBVIOUS
  <2>1. primitives'[e] \in Lists
    BY DEF IInv, TypeOK
  <2>2. ASSUME NEW b \in Bindings, ReturningBuild(e, primitives'[e], b, rebuild)
        PROVE  Honoured(e, primitives'[e], b)
    BY <2>1, <2>2, LoopHonours DEF ReturningBuild, Build
  <2>3. ASSUME NEW l \in Lists, ReturningBatchRun(e, l, rebuild)
        PROVE  Honoured(e, l, Unbound)
    BY <2>3, LoopHonours DEF ReturningBatchRun, BatchRun
  <2> QED
    BY <2>2, <2>3
<1>2. IInv' => [Step]_vars
  BY <1>1
<1>3. [][Step]_vars => BuildHonoured
  BY PTL DEF BuildHonoured
<1> QED
  BY Inductive, <1>2, <1>3, PTL
=============================================================================
