---------------------------- MODULE Architecture ----------------------------
(***************************************************************************)
(* The coupling map of a device (device/architecture.cpp) and the one      *)
(* question both routers ask of it: may this two-qubit gate run on these   *)
(* physical qubits (compilation/routing_common.h)?                         *)
(***************************************************************************)
EXTENDS Integers

CONSTANTS
  NQubits,   \* physical qubits of the device
  Edges      \* the stored edges, each with its orientation

Qubits == 0 .. NQubits - 1

\* route refuses a device of no qubits, set_edges an endpoint out of range.
ASSUME ArchitectureAssumption ==
  NQubits \in Nat \ {0} /\ Edges \subseteq Qubits \X Qubits

HasDirectedEdge(a, b) == <<a, b>> \in Edges

IsConnected(a, b) == a = b \/ HasDirectedEdge(a, b) \/ HasDirectedEdge(b, a)

Neighbours(q) == {r \in Qubits \ {q} : IsConnected(q, r)}

\* Ball[k][q]: the qubits at most k edges away from q.
Ball[k \in 0 .. NQubits] ==
  [q \in Qubits |->
     IF k = 0 THEN {q}
     ELSE Ball[k - 1][q] \cup UNION {Neighbours(r) : r \in Ball[k - 1][q]}]

\* Distance[a][b]: the length of a shortest path; NQubits when there is none.
Distance ==
  [a \in Qubits |-> [b \in Qubits |->
     IF a \in Ball[NQubits - 1][b]
     THEN CHOOSE k \in 0 .. NQubits - 1 :
            a \in Ball[k][b] /\ \A j \in 0 .. k - 1 : a \notin Ball[j][b]
     ELSE NQubits]]

Closer(a, b) == {r \in Neighbours(a) : Distance[r][b] < Distance[a][b]}

\* path[1] of shortest_path(a, b): the search visits sorted neighbours, so the
\* path it rebuilds takes the lowest qubit that is one edge closer.
IsNextHop(h, a, b) == h \in Closer(a, b) /\ \A r \in Closer(a, b) : h =< r

-----------------------------------------------------------------------------
(* is_asymmetric_2q, and resolve                                            *)

IsAsymmetric(g) ==
  g \in {"CX", "CY", "CRx", "CRy", "CRz", "CP", "CU", "ECR", "CH", "CSX", "CSXdg"}

NeedsSwaps(p0, p1) == ~IsConnected(p0, p1)

RunsAsIs(g, p0, p1, directed) ==
  /\ IsConnected(p0, p1)
  /\ directed /\ IsAsymmetric(g) => HasDirectedEdge(p0, p1)

\* H-conjugation runs CX(p0, p1) as CX(p1, p0) between four H gates.
RunsFlipped(g, p0, p1, directed) ==
  /\ IsConnected(p0, p1) /\ ~RunsAsIs(g, p0, p1, directed)
  /\ g = "CX" /\ HasDirectedEdge(p1, p0)

RunsAgainstEdge(g, p0, p1, directed) ==
  /\ IsConnected(p0, p1)
  /\ ~RunsAsIs(g, p0, p1, directed) /\ ~RunsFlipped(g, p0, p1, directed)

=============================================================================
