--------------------------- MODULE RouterContract ---------------------------
(***************************************************************************)
(* Both routers on one call: the circuit, the device and the pinned        *)
(* initial mapping are shared, everything else is each router's own.  Lite *)
(* runs first; with a mapping pinned sabre_route is one pass of its core,  *)
(* outside any try block.                                                  *)
(***************************************************************************)
EXTENDS SabreCore

VARIABLES
  liteOutcome, liteL2p, liteP2l, litePos, liteDepth, liteAt, liteCarried, liteRan,
  liteInitialMap, liteFinalMap

liteVars == <<liteOutcome, liteL2p, liteP2l, litePos, liteDepth, liteAt, liteCarried,
              liteRan, liteInitialMap, liteFinalMap>>

Lite == INSTANCE RouteLite WITH
  Pinned <- Starts, outcome <- liteOutcome, l2p <- liteL2p, p2l <- liteP2l,
  pos <- litePos, depth <- liteDepth, at <- liteAt, carried <- liteCarried,
  ran <- liteRan, initialMap <- liteInitialMap, finalMap <- liteFinalMap

BothInit == Init /\ Lite!Init /\ WellFormed(circuit)

LiteStopped == liteOutcome \in {"done", "refused"}

BothNext ==
  \/ Lite!Route /\ UNCHANGED vars
  \/ LiteStopped /\ Next /\ UNCHANGED liteVars

BothSpec == BothInit /\ [][BothNext]_<<vars, liteVars>>

\* "Same contract as route() with RouterKind::Lite - ... identical throw
\* conditions" (sabre.h:23-26): SABRE does not refuse a call that Lite routes.
IdenticalThrowConditions == liteOutcome = "done" => outcome # "refused"

=============================================================================
