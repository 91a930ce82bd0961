-------------------------- MODULE MCRouterContract --------------------------
(***************************************************************************)
(* A line of four wires, the identity mapping pinned, and circuits of two  *)
(* CX, the second one under a condition or not.                            *)
(***************************************************************************)
EXTENDS RouterContract

MCEdges == {<<0, 1>>, <<1, 2>>, <<2, 3>>}

MCStarts == {[q \in Qubits |-> q]}

CXs ==
  {[gate |-> "CX", qubits |-> <<a, b>>, bits |-> {}, conditional |-> FALSE] :
     a, b \in {0, 1, 2, 3}}

MCCircuits ==
  {<<c, d>> : c \in CXs, d \in CXs \cup {[e EXCEPT !.bits = {0}, !.conditional = TRUE] : e \in CXs}}

MCUsed == {s \in MCCircuits : \A i \in 1 .. 2 : s[i].qubits[1] # s[i].qubits[2]}

=============================================================================
