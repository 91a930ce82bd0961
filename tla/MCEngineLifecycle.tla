------------------------- MODULE MCEngineLifecycle -------------------------
(***************************************************************************)
(* Two engines, one of which compiles for a device too small for one of    *)
(* the inputs, over an averaging and an amplitude primitive.               *)
(***************************************************************************)
EXTENDS EngineLifecycle

CONSTANTS e1, e2, small, wide, device, plain

MCMaxGenerations == [e \in Engines |-> IF e = e1 THEN 2 ELSE 1]
MCFits == {<<device, small>>, <<plain, small>>, <<plain, wide>>}

\* Either one engine is called, with noise and lists of two, or both are,
\* without noise and one primitive at a time.
Alone == primitives[e2] = <<>> /\ generation[e2] = 0 /\ settings[e2] = plain
Plain ==
  /\ sim = [e \in Engines |-> Off] /\ noise = sim
  /\ \A e \in Engines : Len(primitives[e]) =< 1

Edits == \E p \in Primitives, in \in Inputs : EditPrimitive(p, in)

MCNext ==
  \/ Alone /\ (Edits \/ Calls({e1}, Lists))
  \/ Plain /\ (Edits \/ Calls(Engines, {l \in Lists : Len(l) =< 1})) /\ Plain'

MCInit == Init /\ settings[e1] = device
MCSpec == MCInit /\ [][MCNext]_vars
=============================================================================
