------------------------- MODULE MCTranspilerCalls -------------------------
(***************************************************************************)
(* Instances of TranspilerCalls for TLC.                                   *)
(***************************************************************************)
EXTENDS TranspilerCalls, TLC

Gateset(gates) == [allowed |-> gates, rules |-> "", registered |-> <<>>]

MCTargets == {Gateset({"X", "H", "S", "Sdg", "CX", "Rz", "GPhase"})}

\* The silly rule of tests/cpp/test_transpiler.cpp: CY becomes X on its target.
SillyCY == [gate |-> "CY", rule |-> <<[gate |-> "X", on |-> <<2>>]>>]
MCRegistrations == {SillyCY}

CY(c, t) == <<On("CY", <<c, t>>)>>
Unruled == <<By("Rx", <<0>>, Angle(1))>>
OneCustom(q, k) == <<[On("Custom", <<q>>) EXCEPT !.factors = <<By("Rz", <<q>>, Angle(k))>>]>>

\* A bit measured and read, two symbols, other names for all of them.
Sample(p, q, b, s, t) ==
  <<Make("Measure", <<p>>, <<>>, <<b>>, <<>>),
    [Make("CRz", <<q, p>>, <<Symbol(2, s, 1)>>, <<>>, <<<<b, TRUE>>>>) EXCEPT !.bits = {b}],
    By("P", <<q>>, Symbol(1, t, 0)), By("P", <<p>>, Symbol(1, s, 0))>>

MCStreams ==
  {CY(0, 1), CY(2, 0), OneCustom(0, 1), OneCustom(1, 2), Unruled,
   Sample(0, 1, 0, "a", "b"), Sample(3, 1, 2, "__sym_1", "__sym_0")}

MCDummySymbol == <<"__sym_0", "__sym_1", "__sym_2">>

Singles == {CY(0, 1), OneCustom(0, 1), Unruled, Sample(0, 1, 0, "a", "b"), Sample(3, 1, 2, "__sym_1", "__sym_0")}
MCLists ==
  {<<>>} \cup {<<s>> : s \in Singles}
    \cup {<<CY(0, 1), OneCustom(0, 1)>>, <<Unruled, CY(2, 0)>>}

\* A behaviour transpiles single blocks with the cache, or lists of blocks in
\* the pool under at most one registered rule.
Bound ==
  \/ /\ awake' = Workers /\ shutdown' = "no"
     /\ \A c \in Clients : Len(call'[c].blocks) =< 1
  \/ /\ ~ enabled' /\ cache' = {} /\ target'.rules = ""
     /\ \A c \in Clients : Len(call'[c].blocks) # 1

MCSpec == CallInit /\ [][Next /\ Bound]_vars /\ Fairness

=============================================================================
