----------------------------- MODULE CircuitDAG -----------------------------
(***************************************************************************)
(* The dependency graph of a command stream, as CircuitDAG::from_commands  *)
(* builds it (dag/circuit_dag.cpp).  A node is named by the position of    *)
(* its first command; a branch region is one node on every wire.           *)
(***************************************************************************)
EXTENDS CommandStream

\* from_commands throws on a stray or an unterminated branch marker.
WellFormed(s) ==
  /\ \A i \in 1 .. Len(s) :
       Depth(s, i - 1) = 0 => s[i].gate \notin {"BranchElse", "BranchEnd"}
  /\ Depth(s, Len(s)) = 0

Nodes(s) == {i \in 1 .. Len(s) : Depth(s, i - 1) = 0}

IsRegion(s, i) == s[i].gate = "BranchBegin"

\* The last command of node i.
NodeEnd(s, i) ==
  CHOOSE j \in i .. Len(s) : Depth(s, j) = 0 /\ \A k \in i .. j - 1 : Depth(s, k) > 0

\* The node of command n.
NodeOf(s, n) == CHOOSE i \in Nodes(s) : n \in i .. NodeEnd(s, i)

\* reverse_stream_preserving_regions: the nodes from last to first, each region
\* in its own order.
Reversed(s) ==
  [k \in DOMAIN s |->
     LET n == Len(s) + 1 - k
         i == NodeOf(s, n)
     IN s[i + NodeEnd(s, i) - n]]

QubitWires(s) == {<<"qubit", q>> : q \in UNION {Operands(s[i]) : i \in DOMAIN s}}
CbitWires(s)  == {<<"cbit", b>> : b \in UNION {s[i].bits : i \in DOMAIN s}}
GlobalWire    == <<"global", 0>>

WiresIgnoringBits(s, i) ==
  LET c == s[i] IN
  IF IsRegion(s, i)
  THEN QubitWires(s) \cup {GlobalWire}
  ELSE {<<"qubit", q>> : q \in Operands(c)}
         \cup (IF c.gate = "GPhase" \/ IsFence(c) THEN {GlobalWire} ELSE {})
         \cup (IF IsFence(c) THEN QubitWires(s) ELSE {})

\* A region spans every wire; those no other command uses order nothing.
Wires(s, i) ==
  LET c == s[i] IN
  IF IsRegion(s, i)
  THEN QubitWires(s) \cup CbitWires(s) \cup {GlobalWire}
  ELSE {<<"qubit", q>> : q \in Operands(c)}
         \cup {<<"cbit", b>> : b \in c.bits}
         \cup (IF c.gate = "GPhase" \/ IsFence(c) THEN {GlobalWire} ELSE {})
         \cup (IF IsFence(c) THEN QubitWires(s) ELSE {})

OnWire(s, w) == {i \in Nodes(s) : w \in Wires(s, i)}

HasPrev(s, i, w) == \E j \in OnWire(s, w) : j < i

\* j is next_on_wire(i, w).
IsNext(s, i, w, j) ==
  j \in OnWire(s, w) /\ i < j /\ \A k \in OnWire(s, w) : i < k => j =< k

\* The wires on which j directly follows i.
Links(s, i, j) == {w \in Wires(s, i) : IsNext(s, i, w, j)}

=============================================================================
