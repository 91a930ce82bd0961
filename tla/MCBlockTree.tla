---------------------------- MODULE MCBlockTree ----------------------------
(***************************************************************************)
(* Instances of BlockTree for TLC: what a user can do in MaxOperations     *)
(* operations, making simple blocks not counted.                           *)
(***************************************************************************)
EXTENDS BlockTree, TLC

CONSTANTS alpha, beta, gamma, none, one, s1, s2, MaxOperations

VARIABLE operations

R(q, x) == [gate |-> "R", qubit |-> q, bit |-> -1, angle |-> x, negated |-> FALSE]
M(q, k) == [Marker("Measure", k) EXCEPT !.qubit = q]

MCPrograms == {<<R(0, alpha), R(1, beta)>>, <<R(0, alpha), M(1, 0)>>}
MCPlacements == {<<1, 0>>}
MCAliases == {<<0>>, <<1>>}
Symmetric == Permutations(Slots)

MCInit == Init /\ operations = 0

\* Making a simple block and building are free.
MCNext ==
  \/ Make /\ UNCHANGED operations
  \/ /\ operations < MaxOperations
     /\ Compose \/ Queue
     /\ operations' = operations + 1

MCSpec == MCInit /\ [][MCNext]_<<vars, operations>>
=============================================================================
