------------------------------ MODULE WireGraph ------------------------------
(***************************************************************************)
(* The linked graph that CircuitDAG keeps while passes edit it             *)
(* (dag/circuit_dag.cpp): on every wire each live node points at its       *)
(* neighbours, and removal relinks them in place.  A node is named by the  *)
(* position its command had when the graph was built; 0 is kNone.          *)
(*                                                                         *)
(* LinksExact is what every pass reads the graph for: prev and next are    *)
(* the nearest live nodes of the wire.                                     *)
(***************************************************************************)
EXTENDS Gates

LiveBefore(g, i, w) == {j \in g.live : j < i /\ w \in g.wires[j]}
LiveAfter(g, i, w)  == {j \in g.live : i < j /\ w \in g.wires[j]}

IsPrev(g, i, w, p) ==
  \/ p = 0 /\ LiveBefore(g, i, w) = {}
  \/ p \in LiveBefore(g, i, w) /\ \A j \in LiveBefore(g, i, w) : j =< p

IsSucc(g, i, w, n) ==
  \/ n = 0 /\ LiveAfter(g, i, w) = {}
  \/ n \in LiveAfter(g, i, w) /\ \A j \in LiveAfter(g, i, w) : n =< j

LinksExact(g) ==
  \A i \in g.live : \A w \in g.wires[i] :
    IsPrev(g, i, w, g.prev[i][w]) /\ IsSucc(g, i, w, g.next[i][w])

\* from_commands: a branch region becomes one node holding its span, and
\* link_node appends each node to the tail of its wires.
Bare(s) ==
  [live  |-> Nodes(s),
   wires |-> [i \in Nodes(s) |-> Wires(s, i)],
   cmd   |-> [i \in Nodes(s) |-> s[i]],
   span  |-> [i \in Nodes(s) |->
               IF IsRegion(s, i) THEN SubSeq(s, i, NodeEnd(s, i)) ELSE <<>>],
   prev  |-> <<>>,
   next  |-> <<>>]

TailBefore(g, i, w) == CHOOSE j \in g.live \cup {0} : IsPrev(g, i, w, j)
HeadAfter(g, i, w)  == CHOOSE j \in g.live \cup {0} : IsSucc(g, i, w, j)

FromCommands(s) ==
  LET b == Bare(s) IN
  [b EXCEPT !.prev = [i \in b.live |-> [w \in b.wires[i] |-> TailBefore(b, i, w)]],
            !.next = [i \in b.live |-> [w \in b.wires[i] |-> HeadAfter(b, i, w)]]]

IsRegionNode(g, i) == g.span[i] # <<>>

\* Mutant of RemoveNode: the wire's successor keeps pointing at the node.
RemoveNodeOneWay(g, id) ==
  [g EXCEPT
     !.live = @ \ {id},
     !.next = [i \in DOMAIN @ |-> [w \in DOMAIN @[i] |->
                 IF w \in g.wires[id] /\ g.prev[id][w] = i THEN g.next[id][w] ELSE @[i][w]]]]

\* remove_node: on each wire of the node its neighbours are joined.
RemoveNode(g, id) ==
  [g EXCEPT
     !.live = @ \ {id},
     !.next = [i \in DOMAIN @ |-> [w \in DOMAIN @[i] |->
                 IF i = id THEN 0
                 ELSE IF w \in g.wires[id] /\ g.prev[id][w] = i THEN g.next[id][w]
                 ELSE @[i][w]]],
     !.prev = [i \in DOMAIN @ |-> [w \in DOMAIN @[i] |->
                 IF i = id THEN 0
                 ELSE IF w \in g.wires[id] /\ g.next[id][w] = i THEN g.prev[id][w]
                 ELSE @[i][w]]]]

\* replace_command and replace_region_commands: the links stay as they are.
ReplaceCommand(g, id, c) == [g EXCEPT !.cmd[id] = c]
ReplaceSpan(g, id, span) == [g EXCEPT !.span[id] = span]

\* The wires of a command in the order compute_wires lists them.
WireSeq(c) ==
  [k \in DOMAIN c.qubits |-> <<"qubit", c.qubits[k]>>]
    \o [k \in DOMAIN c.cbits |-> <<"cbit", c.cbits[k]>>]
    \o [k \in DOMAIN c.cond |-> <<"cbit", c.cond[k][1]>>]
    \o (IF c.gate = "GPhase" THEN <<GlobalWire>> ELSE <<>>)

\* to_commands: Kahn's algorithm, the lowest position first among the nodes
\* whose predecessors have all been emitted.
NextReady(g, emitted) ==
  LET ready == {i \in g.live \ emitted :
                  \A w \in g.wires[i] : g.prev[i][w] \in emitted \cup {0}}
  IN CHOOSE i \in ready : \A j \in ready : i =< j

EmissionOrder(g) ==
  LET first[k \in 0 .. Cardinality(g.live)] ==
        IF k = 0 THEN <<>>
        ELSE LET before == first[k - 1] IN Append(before, NextReady(g, Range(before)))
  IN first[Cardinality(g.live)]

Written(g, i) == IF IsRegionNode(g, i) THEN g.span[i] ELSE <<g.cmd[i]>>

ToCommands(g) ==
  LET order == EmissionOrder(g)
  IN FlattenSeq([k \in DOMAIN order |-> Written(g, order[k])])

=============================================================================
