------------------------------ MODULE RouteCall ------------------------------
(***************************************************************************)
(* One call of route (compilation/router.cpp) with either router.  Lite is *)
(* one greedy sweep.  SABRE (sabre_route in compilation/sabre.cpp) runs    *)
(* its core once from a pinned or a perfect mapping; else it runs a        *)
(* portfolio: each trial takes a layout through rounds of a forward, a     *)
(* reverse and a scored pass and the best scored pass is kept; an          *)
(* exception ends its trial only.  Then Lite routes the same call, and     *)
(* wins with strictly fewer SWAPs.                                         *)
(*                                                                         *)
(* The variables of RouteLite are Lite's; pass... are those of the core.   *)
(***************************************************************************)
EXTENDS RouteLite, CircuitDAG

CONSTANTS
  StallBound,    \* stall_bound: 2 n^2 + 16 in the code
  Trials,        \* n_trials: 4, 8 or 32 in the code, by the circuit's length
  Rounds,        \* kRefineRounds: 3 in the code
  Seeds          \* the layouts trials 1, 2, ... start from

\* Every seeded layout is a shuffle of the qubits; NoMap is none.
ASSUME RouteCallAssumption ==
  /\ StallBound \in Nat /\ Trials \in Nat \ {0} /\ Rounds \in Nat \ {0}
  /\ Seeds \subseteq Placements /\ NoMap \notin Placements

VARIABLES
  router,                      \* opts.router: "Lite" or "Sabre"
  stage,                       \* "called", "sabre", "lite", "returned", "thrown"
  leg,                         \* "single", "forward", "reverse", "scored", or between passes
  trial, round,                \* the loop counters of the portfolio
  start,                       \* the layout of this pass; between passes, refined
  result,                      \* the RoutingResult kept so far, or <<>>
  swaps,                       \* count_swaps of the stream being emitted
  passCircuit, passOutcome, passL2p, passP2l, indegree, ready, inRegion, stalled,
  passCarried, passRan, passInitialMap, passFinalMap

lite == vars
portfolio == <<leg, trial, round, start>>
pass == <<passCircuit, passOutcome, passL2p, passP2l, indegree, ready, inRegion, stalled,
          passCarried, passRan, passInitialMap, passFinalMap>>
callVars == <<lite, router, stage, portfolio, result, swaps, pass>>

Core == INSTANCE SabreCore WITH
  Starts <- Placements, circuit <- passCircuit, pin <- start, outcome <- passOutcome,
  l2p <- passL2p, p2l <- passP2l, carried <- passCarried, ran <- passRan,
  initialMap <- passInitialMap, finalMap <- passFinalMap

CallInit ==
  /\ Init
  /\ router \in {"Lite", "Sabre"} /\ stage = "called"
  /\ leg = "between" /\ trial = 0 /\ round = 0 /\ start = NoMap
  /\ result = <<>> /\ swaps = 0
  /\ passCircuit = circuit /\ passOutcome = "unplaced"
  /\ passL2p = NoMap /\ passP2l = NoMap /\ passCarried = NoMap
  /\ indegree = <<>> /\ ready = {} /\ inRegion = 0 /\ stalled = 0 /\ passRan = <<>>
  /\ passInitialMap = NoMap /\ passFinalMap = NoMap

-----------------------------------------------------------------------------
(* Passes of the core                                                      *)

\* The core about to run kind l of pass over its stream, from layout m.
NewPass(l, m) ==
  /\ leg' = l /\ start' = m
  /\ passCircuit' = IF l = "reverse" THEN Reversed(circuit) ELSE circuit
  /\ passOutcome' = "unplaced"
  /\ passL2p' = NoMap /\ passP2l' = NoMap /\ passCarried' = NoMap
  /\ indegree' = <<>> /\ ready' = {} /\ inRegion' = 0 /\ stalled' = 0 /\ passRan' = <<>>
  /\ passInitialMap' = NoMap /\ passFinalMap' = NoMap
  /\ swaps' = 0

\* Only a pass that emits a stream has SWAPs to count.
Counted(before, after) ==
  IF before \in [Qubits -> Qubits] /\ before # after THEN swaps + 1 ELSE swaps

Pass ==
  /\ stage = "sabre" /\ leg # "between" /\ Core!Route
  /\ swaps' = IF leg \in {"single", "scored"} THEN Counted(passCarried, passCarried') ELSE 0
  /\ UNCHANGED <<lite, router, stage, portfolio, result>>

PassDone == stage = "sabre" /\ passOutcome = "done"

PassFailed == stage = "sabre" /\ passOutcome = "refused"

\* What the caller gets, with what the stream does: where the contents of each
\* wire started.
Routed(from, to, wires, n) ==
  [initialMap |-> from, finalMap |-> to, swaps |-> n, origin |-> [p \in Qubits |-> from[wires[p]]]]

PassResult == Routed(start, passFinalMap, passCarried, swaps)

-----------------------------------------------------------------------------
(* The choice of the passes                                                *)

Dispatch ==
  /\ stage = "called" /\ router = "Lite" /\ stage' = "lite"
  /\ UNCHANGED <<lite, router, portfolio, result, swaps, pass>>

\* find_perfect_layout finds an embedding of the interaction graph, if any, and
\* the identity when no two qubits interact.
Perfect(m) ==
  LET pairs == {i \in DOMAIN circuit : Len(circuit[i].qubits) = 2
                                         /\ Operands(circuit[i]) \subseteq Qubits}
  IN /\ pairs = {} => m = Identity
     /\ \A i \in pairs : IsConnected(m[circuit[i].qubits[1]], m[circuit[i].qubits[2]])

HasPerfect == ~directed /\ \E m \in Placements : Perfect(m)

StartSingle ==
  /\ stage = "called" /\ router = "Sabre" /\ stage' = "sabre"
  /\ \/ pin # NoMap /\ NewPass("single", pin)
     \/ pin = NoMap /\ ~directed /\ \E m \in Placements : Perfect(m) /\ NewPass("single", m)
  /\ UNCHANGED <<lite, router, trial, round, result>>

StartTrials ==
  /\ stage = "called" /\ router = "Sabre" /\ stage' = "sabre"
  /\ pin = NoMap /\ ~HasPerfect
  /\ NewPass("forward", Identity)
  /\ round' = 1
  /\ UNCHANGED <<lite, router, trial, result>>

\* Back to the state before the first pass, with r the result.
LeavePortfolio(r) ==
  /\ NewPass("between", NoMap)
  /\ trial' = 0 /\ round' = 0 /\ result' = r
  /\ UNCHANGED <<lite, router>>

FinishSingle ==
  /\ PassDone /\ leg = "single" /\ stage' = "lite"
  /\ LeavePortfolio(PassResult)

\* What sabre_route checks, or its only pass throws, reaches the caller.
Throw ==
  /\ PassFailed /\ (leg = "single" \/ passInitialMap = NoMap) /\ stage' = "thrown"
  /\ LeavePortfolio(result)

StartReverse ==
  /\ PassDone /\ leg = "forward" /\ NewPass("reverse", passFinalMap)
  /\ UNCHANGED <<lite, router, stage, trial, round, result>>

StartScored ==
  /\ PassDone /\ leg = "reverse" /\ NewPass("scored", passFinalMap)
  /\ UNCHANGED <<lite, router, stage, trial, round, result>>

\* Fewer SWAPs win, then the shorter stream: with directedness a stream may be
\* longer for the CX it turns round.
Better == result # <<>> => swaps < result.swaps

MayBeShorter == ~Better /\ directed /\ swaps = result.swaps

KeepBestAlwaysMovesMaps ==
  \/ Better /\ result' = PassResult
  \/ ~Better /\ result' = [result EXCEPT !.finalMap = passFinalMap]

KeepBest ==
  \/ (Better \/ MayBeShorter) /\ result' = PassResult
  \/ ~Better /\ UNCHANGED result

EndRound ==
  /\ PassDone /\ leg = "scored"
  /\ KeepBest
  /\ NewPass("between", start)
  /\ UNCHANGED <<lite, router, stage, trial, round>>

\* The catch block: the later rounds of the trial are given up.
EndTrial ==
  /\ PassFailed /\ leg # "single" /\ passInitialMap # NoMap
  /\ NewPass("between", NoMap)
  /\ round' = Rounds
  /\ UNCHANGED <<lite, router, stage, trial, result>>

Between == stage = "sabre" /\ leg = "between"

NextRound ==
  /\ Between /\ round < Rounds /\ round' = round + 1
  /\ NewPass("forward", start)
  /\ UNCHANGED <<lite, router, stage, trial, result>>

NextTrial ==
  /\ Between /\ round = Rounds /\ trial < Trials - 1
  /\ trial' = trial + 1 /\ round' = 1
  /\ \E m \in Seeds : NewPass("forward", m)
  /\ UNCHANGED <<lite, router, stage, result>>

EndTrials ==
  /\ Between /\ round = Rounds /\ trial = Trials - 1
  /\ stage' = IF result = <<>> THEN "thrown" ELSE "lite"
  /\ LeavePortfolio(result)

-----------------------------------------------------------------------------
(* Lite: the whole call, or the last word after SABRE                      *)

Sweep ==
  /\ stage = "lite" /\ Route
  /\ swaps' = Counted(carried, carried')
  /\ UNCHANGED <<router, stage, portfolio, result, pass>>

ReturnLite ==
  /\ stage = "lite" /\ outcome = "done"
  /\ router = "Sabre" => swaps < result.swaps
  /\ stage' = "returned"
  /\ result' = Routed(initialMap, finalMap, carried, swaps)
  /\ UNCHANGED <<lite, router, portfolio, swaps, pass>>

\* Lite's exception is swallowed here.
ReturnSabre ==
  /\ stage = "lite" /\ router = "Sabre"
  /\ outcome = "refused" \/ (outcome = "done" /\ swaps >= result.swaps)
  /\ stage' = "returned"
  /\ UNCHANGED <<lite, router, portfolio, result, swaps, pass>>

ThrowLite ==
  /\ stage = "lite" /\ router = "Lite" /\ outcome = "refused" /\ stage' = "thrown"
  /\ UNCHANGED <<lite, router, portfolio, result, swaps, pass>>

Step ==
  \/ Dispatch \/ StartSingle \/ StartTrials
  \/ Pass \/ FinishSingle \/ Throw \/ StartReverse \/ StartScored
  \/ EndRound \/ EndTrial \/ NextRound \/ NextTrial \/ EndTrials
  \/ Sweep \/ ReturnLite \/ ReturnSabre \/ ThrowLite

Answered == stage \in {"returned", "thrown"} /\ UNCHANGED callVars

CallNext == Step \/ Answered

CallSpec == CallInit /\ [][CallNext]_callVars

\* The call runs on one thread without waiting for anything.
CallFairness == WF_callVars(Step)

-----------------------------------------------------------------------------
(* Properties                                                              *)

\* In every pass of every trial, counting links down finds exactly the nodes whose
\* predecessors have run: none is emitted early, none is lost; and the mapping
\* arrays agree with what the wires carry (sabre.cpp:94-131, 261-275).
CoreStateExact == Core!TypeOK /\ Core!ReadyIsFrontier /\ Core!MapsFollowTheState

\* Whatever SWAPs the heuristic picks, every pass, forward or reverse, from
\* whatever layout, routes its stream as the contract allows (sabre.cpp:81-433).
PassesImplementRouting ==
  [][Core!Contract!Next \/ passOutcome' = "unplaced"]_Core!Contract!routingVars

\* The stream kept and the two maps kept with it belong to one pass, whichever
\* rounds and trials threw or lost since: what starts on initialMap[l] ends on
\* finalMap[l]; and a call that has a result does not throw (sabre.cpp:581-610).
ResultOfOnePass ==
  /\ result # <<>> => \A l \in Qubits : result.origin[result.finalMap[l]] = result.initialMap[l]
  /\ stage = "thrown" => result = <<>>
  /\ stage = "returned" => result # <<>>

\* Why command i may not be routed from layout m.
CannotRoute(i, m) ==
  LET c == circuit[i] IN
  \/ ~(Operands(c) \subseteq Qubits)
  \/ Len(c.qubits) > 2
  \/ /\ Len(c.qubits) = 2
     /\ \/ directed /\ IsAsymmetric(c.gate) /\ (c.gate = "CX" => c.qubits[1] = c.qubits[2])
        \/ c.conditional
        \/ Depth(circuit, i) > 0
        \/ Distance[m[c.qubits[1]]][m[c.qubits[2]]] = NQubits

\* A call throws only for the causes router.h lists: a bad mapping, ill-formed
\* branch markers, a qubit out of range, a wide gate, a gate that cannot be turned
\* round, operands in separate parts of the device, or a pair under a condition
\* or in a branch.  In particular a plain CX circuit on a connected device is
\* routed, however many SWAPs and branches it takes.
ThrowsHaveCause ==
  stage = "thrown" =>
    \/ Wanted \notin Placements
    \/ router = "Sabre" /\ ~WellFormed(circuit)
    \/ \E i \in DOMAIN circuit : CannotRoute(i, Wanted)

\* Every call returns or throws, whatever SWAPs SABRE's heuristic picks: once the
\* stall bound is passed the walk of one gate cannot be undone by another SWAP
\* (sabre.cpp:326-339), and every SWAP of Lite brings its pair closer.
CallAnswered == <>(stage \in {"returned", "thrown"})

=============================================================================
