------------------------------ MODULE RouteLite ------------------------------
(***************************************************************************)
(* The greedy router (route_lite in compilation/router.cpp): one sweep     *)
(* over the circuit that emits each command on the wires its qubits sit    *)
(* on, and moves the first operand of a two-qubit gate along a shortest    *)
(* path until the device can run the gate.                                 *)
(*                                                                         *)
(* carried and ran are what the emitted stream does on the hardware: an    *)
(* emitted SWAP exchanges what two wires carry, an emitted command acts on *)
(* the logical qubits its wires carry.  The router does not see them: it   *)
(* emits from l2p, and from the wires of the gate it is placing.           *)
(***************************************************************************)
EXTENDS Architecture, CommandStream

CONSTANTS
  Circuits,      \* the circuits routed
  Pinned,        \* the initial mappings a caller pins
  NoMap          \* no mapping pinned, or none reported yet

ASSUME CircuitsAssumption == Circuits \subseteq Seq(Command)

VARIABLES
  circuit, directed, pin,      \* the call: commands, opts
  outcome,                     \* "unplaced", "routing", "done", "refused"
  l2p, p2l,                    \* the mapping and its inverse
  pos,                         \* the command being routed
  depth,                       \* branch_depth
  at,                          \* p0, p1 of the gate being placed, or <<>>
  carried, ran,                \* what the emitted stream does
  initialMap, finalMap         \* the reported maps

call == <<circuit, directed, pin>>
placement == <<l2p, p2l, carried>>
vars == <<call, outcome, placement, pos, depth, at, ran, initialMap, finalMap>>

Placements ==
  {m \in [Qubits -> Qubits] :
     /\ \A a, b \in Qubits : m[a] = m[b] => a = b
     /\ \A p \in Qubits : \E l \in Qubits : m[l] = p}

Identity == [q \in Qubits |-> q]

InverseMap(m) == [p \in Qubits |-> CHOOSE l \in Qubits : m[l] = p]

Init ==
  /\ circuit \in Circuits /\ directed \in BOOLEAN /\ pin \in Pinned \cup {NoMap}
  /\ outcome = "unplaced"
  /\ l2p = NoMap /\ p2l = NoMap /\ carried = NoMap
  /\ pos = 1 /\ depth = 0 /\ at = <<>> /\ ran = <<>>
  /\ initialMap = NoMap /\ finalMap = NoMap

Refuse ==
  /\ outcome' = "refused"
  /\ UNCHANGED <<call, placement, pos, depth, at, ran, initialMap, finalMap>>

-----------------------------------------------------------------------------
(* resolve_initial_mapping                                                 *)

Wanted == IF pin = NoMap THEN Identity ELSE pin

RejectMapping == outcome = "unplaced" /\ Wanted \notin Placements /\ Refuse

Place ==
  /\ outcome = "unplaced" /\ outcome' = "routing"
  /\ Wanted \in Placements
  /\ l2p' = Wanted /\ initialMap' = Wanted
  /\ p2l' = InverseMap(Wanted) /\ carried' = InverseMap(Wanted)
  /\ UNCHANGED <<call, pos, depth, at, ran, finalMap>>

-----------------------------------------------------------------------------
(* The sweep, for the command at pos                                       *)

cmd == circuit[pos]

InRange == Operands(cmd) \subseteq Qubits

NewDepth ==
  CASE cmd.gate = "BranchBegin" -> depth + 1
    [] cmd.gate = "BranchEnd"   -> depth - 1
    [] OTHER                    -> depth

\* The command goes out on wires w, and acts on what they carry.
Emit(w) ==
  /\ ran' = Append(ran, [cmd |-> pos, on |-> [k \in DOMAIN w |-> carried[w[k]]]])
  /\ pos' = pos + 1
  /\ UNCHANGED <<call, outcome, placement, initialMap, finalMap>>

Fetching == outcome = "routing" /\ at = <<>> /\ pos =< Len(circuit)

RejectRange == Fetching /\ ~InRange /\ Refuse

RejectWide == Fetching /\ InRange /\ Len(cmd.qubits) > 2 /\ Refuse

EmitNarrow ==
  /\ Fetching /\ InRange /\ Len(cmd.qubits) < 2
  /\ Emit([k \in DOMAIN cmd.qubits |-> l2p[cmd.qubits[k]]])
  /\ depth' = NewDepth
  /\ UNCHANGED at

FetchPair ==
  /\ Fetching /\ InRange /\ Len(cmd.qubits) = 2
  /\ at' = <<l2p[cmd.qubits[1]], l2p[cmd.qubits[2]]>>
  /\ depth' = NewDepth
  /\ UNCHANGED <<call, outcome, placement, pos, ran, initialMap, finalMap>>

-----------------------------------------------------------------------------
(* The loop that places a two-qubit gate                                   *)

Placing == outcome = "routing" /\ at # <<>>

EmitAsIs ==
  /\ Placing /\ RunsAsIs(cmd.gate, at[1], at[2], directed)
  /\ Emit(at)
  /\ at' = <<>>
  /\ UNCHANGED depth

\* H(p0) H(p1) CX(p1, p0) H(p0) H(p1) acts as CX(p0, p1).
EmitFlipped ==
  /\ Placing /\ RunsFlipped(cmd.gate, at[1], at[2], directed)
  /\ Emit(at)
  /\ at' = <<>>
  /\ UNCHANGED depth

RejectDirection ==
  Placing /\ RunsAgainstEdge(cmd.gate, at[1], at[2], directed) /\ Refuse

Stuck == Placing /\ NeedsSwaps(at[1], at[2])

RejectConditional == Stuck /\ cmd.conditional /\ Refuse

RejectInBranchAtAnyDepth == Stuck /\ ~cmd.conditional /\ Refuse

RejectInBranch == Stuck /\ ~cmd.conditional /\ depth > 0 /\ Refuse

RejectDisconnected ==
  Stuck /\ ~cmd.conditional /\ depth =< 0 /\ Closer(at[1], at[2]) = {} /\ Refuse

ExchangeForgetsInverse(a, b) ==
  /\ l2p' = [l2p EXCEPT ![p2l[a]] = b, ![p2l[b]] = a]
  /\ carried' = [carried EXCEPT ![a] = carried[b], ![b] = carried[a]]
  /\ at' = <<b, at[2]>>
  /\ UNCHANGED p2l

\* step_swap: exchange wires a and b, and the qubits mapped to them.
Exchange(a, b) ==
  LET la == p2l[a]
      lb == p2l[b]
  IN /\ l2p' = [l2p EXCEPT ![la] = b, ![lb] = a]
     /\ p2l' = [p2l EXCEPT ![a] = lb, ![b] = la]
     /\ carried' = [carried EXCEPT ![a] = carried[b], ![b] = carried[a]]
     /\ at' = <<b, at[2]>>

StepSwapInBranch ==
  /\ Stuck /\ ~cmd.conditional
  /\ \E b \in Qubits : IsNextHop(b, at[1], at[2]) /\ Exchange(at[1], b)
  /\ UNCHANGED <<call, outcome, pos, depth, ran, initialMap, finalMap>>

StepSwap ==
  /\ Stuck /\ ~cmd.conditional /\ depth =< 0
  /\ \E b \in Qubits : IsNextHop(b, at[1], at[2]) /\ Exchange(at[1], b)
  /\ UNCHANGED <<call, outcome, pos, depth, ran, initialMap, finalMap>>

Finish ==
  /\ outcome = "routing" /\ at = <<>> /\ pos > Len(circuit)
  /\ outcome' = "done"
  /\ finalMap' = l2p
  /\ UNCHANGED <<call, placement, pos, depth, at, ran, initialMap>>

Stopped == outcome \in {"done", "refused"} /\ UNCHANGED vars

Route ==
  \/ RejectMapping \/ Place
  \/ RejectRange \/ RejectWide \/ EmitNarrow \/ FetchPair
  \/ EmitAsIs \/ EmitFlipped \/ RejectDirection
  \/ RejectConditional \/ RejectInBranch \/ RejectDisconnected \/ StepSwap
  \/ Finish

Next == Route \/ Stopped

Spec == Init /\ [][Next]_vars

-----------------------------------------------------------------------------
(* reindex_sampling_result: bit l of the logical string is bit              *)
(* finalMap[l] of the physical one.                                        *)

ReindexedByInverse(bits, map) == [p \in Qubits |-> bits[InverseMap(map)[p]]]

Reindexed(bits, map) == [l \in Qubits |-> bits[map[l]]]

-----------------------------------------------------------------------------
(* Properties                                                              *)

Maps == [Qubits -> Qubits]

\* The variables have their types; a refused call leaves no mapping behind.
TypeOK ==
  /\ circuit \in Seq(Command) /\ directed \in BOOLEAN
  /\ outcome \in {"unplaced", "routing", "done", "refused"}
  /\ pos \in Nat \ {0} /\ depth \in Int
  /\ at \in {<<>>} \cup Qubits \X Qubits
  /\ ran \in Seq([cmd : Nat, on : Seq(Qubits)])
  /\ outcome \in {"routing", "done"} =>
       l2p \in Maps /\ p2l \in Maps /\ carried \in Maps /\ initialMap \in Placements

\* The two mapping arrays stay inverse to each other and agree with what the
\* wires really carry after every SWAP emitted so far (router.cpp:42-53).
MapsFollowTheState ==
  outcome \in {"routing", "done"} =>
    /\ \A l \in Qubits : p2l[l2p[l]] = l
    /\ \A p \in Qubits : l2p[p2l[p]] = p
    /\ p2l = carried

\* The wires a gate is being placed from are where its operands sit now, though
\* they were read before the SWAPs (router.cpp:102-103, 142).
OperandsCurrent ==
  outcome = "routing" /\ at # <<>> =>
    /\ pos =< Len(circuit) /\ Len(cmd.qubits) = 2 /\ Operands(cmd) \subseteq Qubits
    /\ at = <<l2p[cmd.qubits[1]], l2p[cmd.qubits[2]]>>

\* The sweep has emitted exactly the commands before pos, and branch_depth is
\* the number of branches they leave open; the map it reports is the last one.
SweepInOrder ==
  outcome # "refused" =>
    /\ pos =< Len(circuit) + 1 /\ Len(ran) = pos - 1
    /\ \A k \in DOMAIN ran : ran[k].cmd = k
    /\ depth = Depth(circuit, pos - 1)
    /\ outcome = "unplaced" => pos = 1 /\ at = <<>>
    /\ outcome = "done" => pos = Len(circuit) + 1 /\ finalMap = l2p

IInv == TypeOK /\ MapsFollowTheState /\ OperandsCurrent /\ SweepInOrder

\* Counts measured on the hardware, reindexed by the reported final map, are the
\* counts of the logical circuit: whatever value v[l] logical qubit l holds.
ReindexRecovers ==
  outcome = "done" =>
    \A v \in [Qubits -> {0, 1}] :
      Reindexed([p \in Qubits |-> v[carried[p]]], finalMap) = v

Contract == INSTANCE Routing

\* The greedy sweep is a routing: same commands, same operands, edges the device
\* has, no SWAP in a branch, honest maps.
ImplementsRouting == Contract!Spec

=============================================================================
