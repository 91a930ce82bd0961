----------------------------- MODULE MCRouteCall -----------------------------
(***************************************************************************)
(* Five wires: 0 -> 1 <- 2 -> 3 in a line, and 4 on its own, with and      *)
(* without directedness.                                                   *)
(*   Lite, from the identity, a permutation and two invalid mappings: every*)
(*     circuit of up to two commands, every one of three CX, and a branch  *)
(*     around one or two commands with at most one CX on either side.      *)
(*   SABRE from a pinned mapping: the same shapes over other gates, with   *)
(*     measurements and fences, and ill-formed branch markers.             *)
(*   SABRE's own mapping search: circuits that embed in the device and     *)
(*     circuits that need SWAPs, some of which only some rounds or trials  *)
(*     can route.                                                          *)
(***************************************************************************)
EXTENDS RouteCall, SequencesExt

MCEdges == {<<0, 1>>, <<2, 1>>, <<2, 3>>}

AsMap(m) == [q \in 0 .. Len(m) - 1 |-> m[q + 1]]

Shuffled == AsMap(<<2, 0, 3, 1, 4>>)

MCPins == {AsMap(<<0, 1, 2, 3, 4>>), Shuffled, AsMap(<<0, 0, 1, 2, 3>>), AsMap(<<0, 1, 2>>)}

MCSeeds == {Shuffled, AsMap(<<4, 0, 2, 3, 1>>)}

Gate(g, qs) == [gate |-> g, qubits |-> qs, bits |-> {}, conditional |-> FALSE]

If(c) == [c EXCEPT !.bits = {0}, !.conditional = TRUE]

Measure(q) == [Gate("Measure", <<q>>) EXCEPT !.bits = {0}]

CX(pairs) == {Gate("CX", qs) : qs \in pairs}

Marker(g) == Gate(g, <<>>)

Begin == [Marker("BranchBegin") EXCEPT !.bits = {0}]

Branch(body, orelse) ==
  <<Begin>> \o body \o <<Marker("BranchElse")>> \o orelse \o <<Marker("BranchEnd")>>

Singles == {Gate("H", <<0>>), Gate("GPhase", <<>>), Gate("CCX", <<0, 1, 2>>), Gate("H", <<5>>)}

LitePairs == {<<0, 1>>, <<1, 0>>, <<0, 2>>, <<3, 0>>, <<2, 3>>, <<1, 4>>}

LiteGates ==
  {Gate(g, qs) : g \in {"CX", "CY", "CZ"}, qs \in LitePairs}
    \cup {If(Gate("CX", qs)) : qs \in {<<0, 1>>, <<0, 2>>}} \cup Singles

Around == CX({<<3, 0>>, <<0, 2>>})

LiteBodies == {<<g>> : g \in LiteGates} \cup {Branch(<<g>>, <<>>) : g \in CX(LitePairs)}

LiteCircuits ==
  SeqOf(LiteGates, 2) \cup TupleOf(CX(LitePairs), 3)
    \cup {pre \o Branch(body, orelse) \o post :
            pre \in SeqOf(Around, 1), post \in SeqOf(Around, 1),
            body \in LiteBodies, orelse \in SeqOf(Around, 1)}

SabreCXs == CX({<<0, 1>>, <<0, 2>>, <<3, 0>>, <<1, 3>>})

SabreGates ==
  SabreCXs \cup Singles
    \cup {If(Gate("CX", <<0, 2>>)), Measure(1), Gate("CZ", <<1, 3>>), Gate("CY", <<0, 2>>),
          Gate("CX", <<1, 4>>), Gate("Barrier", <<>>)}

SabreCircuits ==
  SeqOf(SabreGates, 2) \cup TupleOf(CX({<<0, 2>>, <<3, 0>>, <<1, 3>>}), 3)
    \cup {pre \o Branch(body, <<>>) \o post :
            pre \in SeqOf(SabreCXs \cup {Measure(1)}, 1), post \in SeqOf({Gate("CX", <<0, 2>>)}, 1),
            body \in {<<g>> : g \in SabreGates}}
    \cup {<<Marker("BranchEnd")>>, <<Begin>>}

CXOn(a, b) == Gate("CX", <<a, b>>)

PortfolioCircuits ==
  {<<CXOn(0, 3), CXOn(0, 1)>>, <<CXOn(0, 2), CXOn(0, 1)>>,
   <<CXOn(0, 1), CXOn(1, 2), If(CXOn(0, 2))>>, <<CXOn(0, 2), Gate("CY", <<0, 1>>)>>,
   <<CXOn(0, 2), If(CXOn(0, 1))>>, <<CXOn(0, 2)>> \o Branch(<<CXOn(0, 2)>>, <<>>),
   <<CXOn(1, 4)>>, <<Gate("H", <<0>>)>>, <<Begin>>}

MCCircuits == LiteCircuits \cup SabreCircuits \cup PortfolioCircuits

MCInit ==
  /\ CallInit
  /\ circuit \in CASE router = "Lite" -> LiteCircuits
                   [] pin # NoMap     -> SabreCircuits
                   [] OTHER           -> PortfolioCircuits

MCSpec == MCInit /\ [][CallNext]_callVars /\ CallFairness

=============================================================================
