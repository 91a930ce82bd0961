------------------------------- MODULE Routing -------------------------------
(***************************************************************************)
(* What routing a circuit onto a device promises (router.h), whichever     *)
(* router does it.  The physical stream is described by what it does to    *)
(* the qubits: which logical qubit's state each wire carries, and which    *)
(* logical commands have run, on what.  Every command runs once, in an     *)
(* order the circuit allows, on its own operands, over an edge the device  *)
(* has; SWAPs stay out of branch regions; and the two reported maps say    *)
(* where the qubits started and where they ended.                          *)
(***************************************************************************)
EXTENDS Architecture, CommandStream

VARIABLES
  circuit,      \* the logical stream
  directed,     \* do the edges constrain orientation
  outcome,      \* "unplaced", "routing", "done", "refused"
  carried,      \* wire -> the logical qubit whose state it carries
  ran,          \* the commands run so far, with the qubits they acted on
  initialMap,   \* the reported logical -> physical maps
  finalMap

routingVars == <<circuit, directed, outcome, carried, ran, initialMap, finalMap>>

Placements ==
  {m \in [Qubits -> Qubits] :
     /\ \A a, b \in Qubits : m[a] = m[b] => a = b
     /\ \A p \in Qubits : \E l \in Qubits : m[l] = p}

Locates(map) == \A l \in Qubits : carried[map[l]] = l

Done == {ran[k].cmd : k \in DOMAIN ran}

\* No branch region is half emitted.
BetweenRegions ==
  \A i \in Done, j \in (1 .. Len(circuit)) \ Done : ~SameRegion(circuit, i, j)

\* The device runs command c over wires w, which carry its operands in order.
\* A CX may run by driving a reversed edge.
DeviceRuns(c, w) ==
  /\ \A k \in DOMAIN c.qubits : carried[w[k]] = c.qubits[k]
  /\ Len(c.qubits) =< 2
  /\ Len(c.qubits) = 2 =>
       \/ RunsAsIs(c.gate, w[1], w[2], directed)
       \/ RunsFlipped(c.gate, w[1], w[2], directed)

Init ==
  /\ outcome = "unplaced"
  /\ ran = <<>>

Place ==
  /\ outcome = "unplaced" /\ outcome' = "routing"
  /\ carried' \in Placements /\ initialMap' \in Placements
  /\ Locates(initialMap)'
  /\ UNCHANGED <<circuit, directed, ran, finalMap>>

Run(i) ==
  /\ outcome = "routing"
  /\ i \notin Done /\ \A j \in 1 .. i - 1 : Ordered(circuit, j, i) => j \in Done
  /\ \E w \in [DOMAIN circuit[i].qubits -> Qubits] : DeviceRuns(circuit[i], w)
  /\ ran' = Append(ran, [cmd |-> i, on |-> circuit[i].qubits])
  /\ UNCHANGED <<circuit, directed, outcome, carried, initialMap, finalMap>>

Swap(a, b) ==
  /\ outcome = "routing" /\ BetweenRegions
  /\ IsConnected(a, b)
  /\ carried' = [carried EXCEPT ![a] = carried[b], ![b] = carried[a]]
  /\ UNCHANGED <<circuit, directed, outcome, ran, initialMap, finalMap>>

Finish ==
  /\ outcome = "routing" /\ outcome' = "done"
  /\ Done = 1 .. Len(circuit)
  /\ finalMap' \in Placements /\ Locates(finalMap)'
  /\ UNCHANGED <<circuit, directed, carried, ran, initialMap>>

Refuse ==
  /\ outcome \in {"unplaced", "routing"} /\ outcome' = "refused"
  /\ UNCHANGED <<circuit, directed, carried, ran, initialMap, finalMap>>

Next ==
  \/ Place \/ Finish \/ Refuse
  \/ \E i \in 1 .. Len(circuit) : Run(i)
  \/ \E a, b \in Qubits : Swap(a, b)

Spec == Init /\ [][Next]_routingVars

=============================================================================
