------------------------------ MODULE SabreCore ------------------------------
(***************************************************************************)
(* The routing core of SABRE (sabre_core in compilation/sabre.cpp): emit   *)
(* whatever the dependency graph makes ready and the device can run; when  *)
(* every ready node is a two-qubit gate out of reach, exchange the wires   *)
(* of some edge that touches one of them.  Which edge is the heuristic's   *)
(* choice (score, decay, tie-breaking); here it is any of the candidates.  *)
(* After StallBound SWAPs without progress the first stuck gate is walked  *)
(* along a shortest path instead.                                          *)
(***************************************************************************)
EXTENDS Architecture, CircuitDAG

CONSTANTS
  Circuits,      \* the circuits routed
  Starts,        \* the l2p a caller or the mapping search starts from
  StallBound,    \* stall_bound: 2 n^2 + 16 in the code
  NoMap          \* no mapping yet

VARIABLES
  circuit, directed, pin,      \* the call: the stream, opts, the starting l2p
  outcome,                     \* "unplaced", "routing", "done", "refused"
  l2p, p2l,                    \* the mapping and its inverse
  indegree, ready,             \* Kahn state over the nodes
  inRegion,                    \* the region command to emit next, or 0
  stalled,                     \* swaps_since_progress
  carried, ran,                \* what the emitted stream does
  initialMap, finalMap         \* the reported maps

call == <<circuit, directed, pin>>
placement == <<l2p, p2l, carried>>
kahn == <<indegree, ready>>
maps == <<initialMap, finalMap>>
vars == <<call, outcome, placement, kahn, inRegion, stalled, ran, maps>>

Placements ==
  {m \in [Qubits -> Qubits] :
     /\ \A a, b \in Qubits : m[a] = m[b] => a = b
     /\ \A p \in Qubits : \E l \in Qubits : m[l] = p}

InverseMap(m) == [p \in Qubits |-> CHOOSE l \in Qubits : m[l] = p]

Init ==
  /\ circuit \in Circuits /\ directed \in BOOLEAN /\ pin \in Starts
  /\ outcome = "unplaced"
  /\ l2p = NoMap /\ p2l = NoMap /\ carried = NoMap
  /\ indegree = <<>> /\ ready = {} /\ inRegion = 0 /\ stalled = 0
  /\ ran = <<>> /\ initialMap = NoMap /\ finalMap = NoMap

Refuse ==
  /\ outcome' = "refused"
  /\ UNCHANGED <<call, placement, kahn, inRegion, stalled, ran, maps>>

\* sabre_route checks the mapping, then the operands; from_commands the markers.
RejectCall ==
  /\ outcome = "unplaced"
  /\ \/ pin \notin Placements
     \/ \E i \in DOMAIN circuit : ~(Operands(circuit[i]) \subseteq Qubits)
     \/ ~WellFormed(circuit)
  /\ Refuse

Indegrees ==
  [i \in Nodes(circuit) |-> Cardinality({w \in Wires(circuit, i) : HasPrev(circuit, i, w)})]

Place ==
  /\ outcome = "unplaced" /\ outcome' = "routing"
  /\ pin \in Placements /\ WellFormed(circuit)
  /\ \A i \in DOMAIN circuit : Operands(circuit[i]) \subseteq Qubits
  /\ l2p' = pin /\ initialMap' = pin
  /\ p2l' = InverseMap(pin) /\ carried' = InverseMap(pin)
  /\ indegree' = Indegrees
  /\ ready' = {i \in Nodes(circuit) : Indegrees[i] = 0}
  /\ UNCHANGED <<call, inRegion, stalled, ran, finalMap>>

-----------------------------------------------------------------------------
(* try_emit_one: the first ready node that is not a stuck two-qubit gate.   *)

Routing == outcome = "routing" /\ inRegion = 0

WireOf(i, k) == l2p[circuit[i].qubits[k]]

IsPair(i) == Len(circuit[i].qubits) = 2

Disconnected(i) == Distance[WireOf(i, 1)][WireOf(i, 2)] = NQubits

Stuck(i) ==
  /\ ~IsRegion(circuit, i) /\ IsPair(i) /\ ~Disconnected(i)
  /\ NeedsSwaps(WireOf(i, 1), WireOf(i, 2))

IsFirst(i) ==
  /\ i \in ready /\ ~Stuck(i)
  /\ \A j \in ready : j < i => Stuck(j)

Runs(i) ==
  \/ RunsAsIs(circuit[i].gate, WireOf(i, 1), WireOf(i, 2), directed)
  \/ RunsFlipped(circuit[i].gate, WireOf(i, 1), WireOf(i, 2), directed)

\* Command i goes out on the wires of its operands, acting on what they carry.
Emit(i) ==
  ran' = Append(ran, [cmd |-> i,
                      on  |-> [k \in DOMAIN circuit[i].qubits |-> carried[WireOf(i, k)]]])

MarkDoneOncePerNode(i) ==
  /\ indegree' = [j \in DOMAIN indegree |->
                    indegree[j] - IF Links(circuit, i, j) # {} THEN 1 ELSE 0]
  /\ ready' = (ready \ {i})
       \cup {j \in DOMAIN indegree : Links(circuit, i, j) # {} /\ indegree'[j] = 0}
  /\ stalled' = 0

\* mark_done, after the node has left ready.
MarkDone(i) ==
  /\ indegree' = [j \in DOMAIN indegree |->
                    indegree[j] - Cardinality(Links(circuit, i, j))]
  /\ ready' = (ready \ {i})
       \cup {j \in DOMAIN indegree : Links(circuit, i, j) # {} /\ indegree'[j] = 0}
  /\ stalled' = 0

RejectNode ==
  /\ Routing
  /\ \E i \in ready :
       /\ IsFirst(i) /\ ~IsRegion(circuit, i)
       /\ \/ Len(circuit[i].qubits) > 2
          \/ IsPair(i) /\ (Disconnected(i) \/ ~Runs(i))
  /\ Refuse

EmitNode ==
  /\ Routing
  /\ \E i \in ready :
       /\ IsFirst(i) /\ ~IsRegion(circuit, i)
       /\ Len(circuit[i].qubits) =< 2 /\ (IsPair(i) => ~Disconnected(i) /\ Runs(i))
       /\ Emit(i) /\ MarkDone(i)
  /\ UNCHANGED <<call, outcome, placement, inRegion, maps>>

-----------------------------------------------------------------------------
(* emit_region: the commands of a region, under the mapping at its entry.   *)

EnterRegion ==
  /\ Routing
  /\ \E i \in ready : IsFirst(i) /\ IsRegion(circuit, i) /\ inRegion' = i
  /\ UNCHANGED <<call, outcome, placement, kahn, stalled, ran, maps>>

RegionNode == CHOOSE i \in ready : IsRegion(circuit, i) /\ inRegion \in i .. NodeEnd(circuit, i)

InsideRegion == outcome = "routing" /\ inRegion # 0

RejectInRegion ==
  /\ InsideRegion
  /\ Len(circuit[inRegion].qubits) > 2 \/ (IsPair(inRegion) /\ ~Runs(inRegion))
  /\ Refuse

EmitInRegion ==
  /\ InsideRegion
  /\ Len(circuit[inRegion].qubits) =< 2 /\ (IsPair(inRegion) => Runs(inRegion))
  /\ Emit(inRegion)
  /\ IF inRegion = NodeEnd(circuit, RegionNode)
     THEN inRegion' = 0 /\ MarkDone(RegionNode)
     ELSE inRegion' = inRegion + 1 /\ UNCHANGED <<kahn, stalled>>
  /\ UNCHANGED <<call, outcome, placement, maps>>

-----------------------------------------------------------------------------
(* Everything ready is stuck: ready is the front layer.                     *)

FrontStuck == Routing /\ ready # {} /\ \A i \in ready : Stuck(i)

FrontWires == UNION {{WireOf(i, 1), WireOf(i, 2)} : i \in ready}

RejectConditional ==
  FrontStuck /\ (\E i \in ready : circuit[i].conditional) /\ Refuse

SwapAndUpdate(a, b) ==
  /\ l2p' = [l2p EXCEPT ![p2l[a]] = b, ![p2l[b]] = a]
  /\ p2l' = [p2l EXCEPT ![a] = p2l[b], ![b] = p2l[a]]
  /\ carried' = [carried EXCEPT ![a] = carried[b], ![b] = carried[a]]

Swappable == FrontStuck /\ \A i \in ready : ~circuit[i].conditional

HeuristicSwap ==
  /\ Swappable /\ stalled =< StallBound
  /\ \E e \in Edges :
       {e[1], e[2]} \cap FrontWires # {} /\ SwapAndUpdate(e[1], e[2])
  /\ stalled' = stalled + 1
  /\ UNCHANGED <<call, outcome, kahn, inRegion, ran, maps>>

ForcedSwapRestartsTheCount ==
  /\ Swappable /\ stalled > StallBound
  /\ \E i \in ready : \E h \in Qubits :
       /\ \A j \in ready : i =< j
       /\ IsNextHop(h, WireOf(i, 1), WireOf(i, 2))
       /\ SwapAndUpdate(WireOf(i, 1), h)
  /\ stalled' = 0
  /\ UNCHANGED <<call, outcome, kahn, inRegion, ran, maps>>

\* The walk moves the first gate only, and leaves the stall count exceeded.
ForcedSwap ==
  /\ Swappable /\ stalled > StallBound
  /\ \E i \in ready : \E h \in Qubits :
       /\ \A j \in ready : i =< j
       /\ IsNextHop(h, WireOf(i, 1), WireOf(i, 2))
       /\ SwapAndUpdate(WireOf(i, 1), h)
  /\ UNCHANGED <<call, outcome, kahn, inRegion, stalled, ran, maps>>

Finish ==
  /\ Routing /\ ready = {}
  /\ outcome' = "done"
  /\ finalMap' = l2p
  /\ UNCHANGED <<call, placement, kahn, inRegion, stalled, ran, initialMap>>

Stopped == outcome \in {"done", "refused"} /\ UNCHANGED vars

Route ==
  \/ RejectCall \/ Place
  \/ RejectNode \/ EmitNode \/ EnterRegion \/ RejectInRegion \/ EmitInRegion
  \/ RejectConditional \/ HeuristicSwap \/ ForcedSwap
  \/ Finish

Next == Route \/ Stopped

Spec == Init /\ [][Next]_vars

-----------------------------------------------------------------------------
(* Properties                                                              *)

Done == {ran[k].cmd : k \in DOMAIN ran}

TypeOK ==
  /\ circuit \in Seq(Command) /\ directed \in BOOLEAN
  /\ outcome \in {"unplaced", "routing", "done", "refused"}
  /\ ready \subseteq Nodes(circuit) /\ inRegion \in 0 .. Len(circuit)
  /\ stalled \in 0 .. StallBound + 1
  /\ ran \in Seq([cmd : Nat, on : Seq(Qubits)])
  /\ outcome \in {"routing", "done"} =>
       /\ l2p \in Placements /\ p2l \in Placements /\ carried \in Placements
       /\ indegree \in [Nodes(circuit) -> Nat]

\* Counting links down finds exactly the nodes whose predecessors have run: none
\* is emitted early, and none is lost (sabre.cpp:94-131).
ReadyIsFrontier ==
  outcome \in {"routing", "done"} /\ inRegion = 0 =>
    ready = {i \in Nodes(circuit) \ Done :
               \A j \in Nodes(circuit) :
                 j < i /\ Wires(circuit, j) \cap Wires(circuit, i) # {} => j \in Done}

\* The mapping arrays agree with what the wires carry after every SWAP.
MapsFollowTheState ==
  outcome \in {"routing", "done"} =>
    p2l = carried /\ \A l \in Qubits : p2l[l2p[l]] = l

Contract == INSTANCE Routing

=============================================================================
