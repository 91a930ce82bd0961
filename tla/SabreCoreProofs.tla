--------------------------- MODULE SabreCoreProofs ---------------------------
(***************************************************************************)
(* One pass of SABRE's core implements Routing on every device, for every  *)
(* circuit and starting layout, whichever SWAPs the heuristic picks.  IInv *)
(* is inductive: a node has finished when its last command is out, and     *)
(* indegree counts the wires on which something before the node has not.   *)
(* Inside a region exactly the commands before inRegion are out.           *)
(***************************************************************************)
EXTENDS SabreCore, StreamProofs

Interval(i) == i .. NodeEnd(circuit, i)

Finished == {i \in Nodes(circuit) : NodeEnd(circuit, i) \in Done}

\* The wires on which node j waits for an earlier one.
Waiting(j) ==
  {w \in Wires(circuit, j) : \E i \in OnWire(circuit, w) : i < j /\ i \notin Finished}

Underway == outcome \in {"routing", "done"}

\* What Place checks of the call.
Admissible ==
  /\ pin \in Placements /\ WellFormed(circuit)
  /\ \A i \in DOMAIN circuit : Operands(circuit[i]) \subseteq Qubits

\* What Place has checked still holds, and what Finish reports is current.  A call
\* is refused without a layout only if the check failed.
CallChecked ==
  /\ outcome = "unplaced" => ran = <<>> /\ inRegion = 0 /\ stalled = 0 /\ initialMap = NoMap
  /\ Underway \/ initialMap # NoMap => Admissible
  /\ outcome # "unplaced" /\ Admissible => initialMap = pin
  /\ outcome = "done" => inRegion = 0 /\ ready = {} /\ finalMap = l2p

CountsExact ==
  Underway =>
    /\ \A j \in Nodes(circuit) : indegree[j] = Cardinality(Waiting(j))
    /\ ready = {j \in Nodes(circuit) \ Finished : Waiting(j) = {}}
    /\ \A j \in Finished : Waiting(j) = {}

Whole(i) == Interval(i) \subseteq Done \/ Interval(i) \cap Done = {}

EmittedByNode ==
  Underway =>
    /\ Done \subseteq 1 .. Len(circuit)
    /\ inRegion = 0 => \A i \in Nodes(circuit) : Whole(i)
    /\ inRegion # 0 =>
         \E r \in ready : /\ IsRegion(circuit, r) /\ inRegion \in Interval(r)
                          /\ Interval(r) \cap Done = r .. inRegion - 1
                          /\ \A i \in Nodes(circuit) \ {r} : Whole(i)

IInv == TypeOK /\ MapsFollowTheState /\ CallChecked /\ CountsExact /\ EmittedByNode

-----------------------------------------------------------------------------
(* Permutations.                                                           *)

\* A permutation has an inverse, and the inverse is a permutation.
LEMMA InverseIsPlacement ==
  ASSUME NEW m \in Placements
  PROVE  /\ InverseMap(m) \in Placements
         /\ \A l \in Qubits : InverseMap(m)[m[l]] = l
<1> DEFINE inv == InverseMap(m)
<1>1. m \in [Qubits -> Qubits] /\ \A a, b \in Qubits : m[a] = m[b] => a = b
  BY DEF Placements
<1>2. inv \in [Qubits -> Qubits] /\ \A p \in Qubits : m[inv[p]] = p
  BY DEF InverseMap, Placements
<1>3. \A l \in Qubits : inv[m[l]] = l
  BY <1>1, <1>2
<1>4. \A a, b \in Qubits : inv[a] = inv[b] => a = b
  BY <1>2
<1>5. \A p \in Qubits : \E l \in Qubits : inv[l] = p
  BY <1>1, <1>3
<1> QED
  BY <1>2, <1>3, <1>4, <1>5 DEF Placements

\* Exchanging the values a permutation has at two places leaves a permutation.
LEMMA ExchangeIsPlacement ==
  ASSUME NEW m \in Placements, NEW a \in Qubits, NEW b \in Qubits
  PROVE  [m EXCEPT ![a] = m[b], ![b] = m[a]] \in Placements
<1> DEFINE x == [m EXCEPT ![a] = m[b], ![b] = m[a]]
<1>1. /\ m \in [Qubits -> Qubits] /\ \A c, d \in Qubits : m[c] = m[d] => c = d
      /\ \A p \in Qubits : \E l \in Qubits : m[l] = p
  BY DEF Placements
<1>2. x \in [Qubits -> Qubits] /\ x[a] = m[b] /\ x[b] = m[a]
      /\ \A c \in Qubits \ {a, b} : x[c] = m[c]
  BY <1>1
<1> HIDE DEF x
<1>3. \A c, d \in Qubits : x[c] = x[d] => c = d
  BY <1>1, <1>2
<1>4. ASSUME NEW p \in Qubits
      PROVE  \E l \in Qubits : x[l] = p
  <2>1. PICK l \in Qubits : m[l] = p
    BY <1>1
  <2>2. CASE l = a
    BY <1>2, <2>1, <2>2
  <2>3. CASE l = b
    BY <1>2, <2>1, <2>3
  <2>4. CASE l \notin {a, b}
    BY <1>2, <2>1, <2>4
  <2> QED
    BY <2>2, <2>3, <2>4
<1>5. x \in Placements
  BY <1>2, <1>3, <1>4 DEF Placements
<1> QED
  BY <1>5 DEF x

\* The inverse of a permutation, on both sides.
LEMMA BothWays ==
  ASSUME NEW f \in Placements, NEW g \in Placements, \A l \in Qubits : g[f[l]] = l
  PROVE  \A p \in Qubits : f[g[p]] = p
<1> SUFFICES ASSUME NEW p \in Qubits PROVE f[g[p]] = p
  OBVIOUS
<1>1. PICK l \in Qubits : f[l] = p
  BY DEF Placements
<1> QED
  BY <1>1

\* A SWAP keeps the arrays permutations, inverse to each other and equal to what
\* the wires carry.
LEMMA SwapKeepsMaps ==
  ASSUME TypeOK, MapsFollowTheState, outcome = "routing", outcome' = outcome,
         NEW a \in Qubits, NEW b \in Qubits, SwapAndUpdate(a, b)
  PROVE  /\ l2p' \in Placements /\ p2l' \in Placements /\ carried' \in Placements
         /\ MapsFollowTheState'
<1>1. /\ l2p \in Placements /\ p2l \in Placements /\ p2l = carried
      /\ \A l \in Qubits : p2l[l2p[l]] = l
  BY DEF TypeOK, MapsFollowTheState
<1>2. \A p \in Qubits : l2p[p2l[p]] = p
  BY <1>1, BothWays
<1>3. /\ l2p \in [Qubits -> Qubits] /\ p2l \in [Qubits -> Qubits]
      /\ \A c, d \in Qubits : p2l[c] = p2l[d] => c = d
  BY <1>1 DEF Placements
<1> DEFINE la == p2l[a]
           lb == p2l[b]
<1>4. la \in Qubits /\ lb \in Qubits /\ l2p[la] = a /\ l2p[lb] = b
  BY <1>2, <1>3
<1>5. /\ l2p' = [l2p EXCEPT ![la] = l2p[lb], ![lb] = l2p[la]]
      /\ p2l' = [p2l EXCEPT ![a] = p2l[b], ![b] = p2l[a]]
      /\ carried' = p2l'
  BY <1>1, <1>4 DEF SwapAndUpdate
<1>6. l2p' \in Placements /\ p2l' \in Placements
  BY <1>1, <1>4, <1>5, ExchangeIsPlacement
<1>7. \A l \in Qubits : p2l'[l2p'[l]] = l
  <2> SUFFICES ASSUME NEW l \in Qubits PROVE p2l'[l2p'[l]] = l
    OBVIOUS
  <2>1. CASE l = la
    BY <1>3, <1>4, <1>5, <2>1
  <2>2. CASE l = lb
    BY <1>3, <1>4, <1>5, <2>2
  <2>3. CASE l \notin {la, lb}
    <3>1. l2p'[l] = l2p[l] /\ l2p[l] \in Qubits
      BY <1>3, <1>5, <2>3
    <3>2. l2p[l] # a /\ l2p[l] # b
      BY <1>1, <2>3
    <3> QED
      BY <1>1, <1>3, <1>5, <3>1, <3>2
  <2> QED
    BY <2>1, <2>2, <2>3
<1> QED
  BY <1>5, <1>6, <1>7 DEF MapsFollowTheState

-----------------------------------------------------------------------------
(* Counting links down.                                                    *)

\* What is known of the call once a layout is placed.
LEMMA Placed ==
  ASSUME IInv, Underway
  PROVE  /\ circuit \in Seq(Command) /\ WellFormed(circuit) /\ Len(circuit) \in Nat
         /\ \A i \in 1 .. Len(circuit) : Operands(circuit[i]) \subseteq Qubits
         /\ \A i \in Nodes(circuit) : i \in 1 .. Len(circuit)
         /\ l2p \in [Qubits -> Qubits] /\ carried \in [Qubits -> Qubits]
         /\ p2l = carried /\ \A l \in Qubits : carried[l2p[l]] = l
<1>1. circuit \in Seq(Command) /\ WellFormed(circuit)
      /\ \A i \in DOMAIN circuit : Operands(circuit[i]) \subseteq Qubits
  BY DEF IInv, TypeOK, CallChecked, Admissible
<1>2. \A i \in Nodes(circuit) : i \in 1 .. Len(circuit)
  BY DEF Nodes
<1>3. /\ l2p \in [Qubits -> Qubits] /\ carried \in [Qubits -> Qubits]
      /\ p2l = carried /\ \A l \in Qubits : carried[l2p[l]] = l
  BY DEF IInv, TypeOK, Underway, MapsFollowTheState, Placements
<1> QED
  BY <1>1, <1>2, <1>3

\* The wires on which j directly follows node r are those it no longer waits on
\* once r, which waits for nothing, has finished.
LEMMA LinksAreFreed ==
  ASSUME IInv, Underway, NEW r \in Nodes(circuit) \ Finished, Waiting(r) = {},
         NEW j \in Nodes(circuit)
  PROVE  LET freed == {w \in Waiting(j) :
                         \A i \in OnWire(circuit, w) : i < j => i \in Finished \cup {r}}
         IN Links(circuit, r, j) = freed
<1> DEFINE freed == {w \in Waiting(j) :
                       \A i \in OnWire(circuit, w) : i < j => i \in Finished \cup {r}}
<1>1. \A i \in Nodes(circuit) : i \in Nat
  BY Placed
<1>2. \A w : OnWire(circuit, w) \subseteq Nodes(circuit)
  BY DEF OnWire
<1>3. ASSUME NEW w \in Links(circuit, r, j)
      PROVE  w \in freed
  <2>1. /\ w \in Wires(circuit, r) /\ j \in OnWire(circuit, w) /\ r < j
        /\ \A k \in OnWire(circuit, w) : r < k => j =< k
    BY DEF Links, IsNext
  <2>2. w \in Wires(circuit, j) /\ r \in OnWire(circuit, w)
    BY <2>1 DEF OnWire
  <2>3. w \in Waiting(j)
    BY <2>1, <2>2 DEF Waiting
  <2>4. ASSUME NEW i \in OnWire(circuit, w), i < j
        PROVE  i \in Finished \cup {r}
    <3>1. CASE i < r
      BY <2>1, <3>1 DEF Waiting
    <3>2. CASE i = r
      BY <3>2
    <3>3. CASE r < i
      BY <1>1, <1>2, <2>1, <2>4, <3>3
    <3> QED
      BY <1>1, <1>2, <3>1, <3>2, <3>3
  <2> QED
    BY <2>3, <2>4
<1>4. ASSUME NEW w \in freed
      PROVE  w \in Links(circuit, r, j)
  <2>1. /\ w \in Wires(circuit, j) /\ j \in OnWire(circuit, w)
        /\ \A i \in OnWire(circuit, w) : i < j => i \in Finished \cup {r}
    BY DEF Waiting, OnWire
  <2>2. PICK i \in OnWire(circuit, w) : i < j /\ i \notin Finished
    BY DEF Waiting
  <2>3. r \in OnWire(circuit, w) /\ r < j
    BY <2>1, <2>2
  <2>4. ASSUME NEW k \in OnWire(circuit, w), r < k, k < j
        PROVE  FALSE
    <3>1. k \in Finished
      BY <1>1, <1>2, <2>1, <2>4
    <3>2. w \in Waiting(k)
      BY <2>3, <2>4 DEF Waiting, OnWire
    <3> QED
      BY <3>1, <3>2 DEF IInv, CountsExact
  <2>5. \A k \in OnWire(circuit, w) : r < k => j =< k
    BY <1>1, <1>2, <2>4
  <2> QED
    BY <2>1, <2>3, <2>5 DEF Links, IsNext, OnWire
<1> QED
  BY <1>3, <1>4

\* mark_done keeps the counts exact.
LEMMA MarkDoneKeeps ==
  ASSUME IInv, Underway, NEW r \in ready, MarkDone(r), UNCHANGED circuit, UNCHANGED outcome,
         Finished' = Finished \cup {r}
  PROVE  /\ CountsExact' /\ indegree' \in [Nodes(circuit) -> Nat]
         /\ ready' \subseteq Nodes(circuit) /\ stalled' = 0
<1>1. /\ r \in Nodes(circuit) \ Finished /\ Waiting(r) = {}
      /\ ready = {j \in Nodes(circuit) \ Finished : Waiting(j) = {}}
      /\ \A j \in Nodes(circuit) : indegree[j] = Cardinality(Waiting(j))
      /\ \A j \in Finished : Waiting(j) = {}
      /\ DOMAIN indegree = Nodes(circuit)
  BY DEF IInv, CountsExact, TypeOK, Underway
<1> DEFINE Still(j) == {w \in Wires(circuit, j) :
                          \E i \in OnWire(circuit, w) : i < j /\ i \notin Finished \cup {r}}
<1>2. \A j : Waiting(j)' = Still(j)
  BY DEF Waiting
<1>3. ASSUME NEW j \in Nodes(circuit)
      PROVE  /\ Links(circuit, r, j) \subseteq Waiting(j)
             /\ Still(j) = Waiting(j) \ Links(circuit, r, j)
             /\ IsFiniteSet(Waiting(j)) /\ IsFiniteSet(Still(j))
             /\ Cardinality(Still(j)) =
                  Cardinality(Waiting(j)) - Cardinality(Links(circuit, r, j))
             /\ Cardinality(Still(j)) \in Nat
             /\ Cardinality(Still(j)) = 0 <=> Still(j) = {}
  <2>1. Links(circuit, r, j) =
          {w \in Waiting(j) : \A i \in OnWire(circuit, w) : i < j => i \in Finished \cup {r}}
    BY <1>1, LinksAreFreed
  <2>2. Links(circuit, r, j) \subseteq Waiting(j)
        /\ Still(j) = Waiting(j) \ Links(circuit, r, j)
    BY <2>1 DEF Waiting
  <2>3. IsFiniteSet(Wires(circuit, j))
    BY Placed, WiresFinite
  <2>4. IsFiniteSet(Waiting(j))
    BY <2>3, FS_Subset DEF Waiting
  <2> DEFINE W == Waiting(j)
             L == Links(circuit, r, j)
  <2>5. W \cap L = L
    BY <2>2
  <2>6. IsFiniteSet(W \ L) /\ Cardinality(W \ L) = Cardinality(W) - Cardinality(W \cap L)
    BY <2>4, FS_Difference
  <2>7. Cardinality(W \ L) \in Nat /\ (Cardinality(W \ L) = 0 <=> W \ L = {})
    BY <2>6, FS_CardinalityType, FS_EmptySet
  <2> HIDE DEF Still
  <2> QED
    BY <2>2, <2>4, <2>5, <2>6, <2>7
<1>4. /\ indegree' = [j \in Nodes(circuit) |-> indegree[j] - Cardinality(Links(circuit, r, j))]
      /\ ready' = (ready \ {r})
           \cup {j \in Nodes(circuit) : Links(circuit, r, j) # {} /\ indegree'[j] = 0}
      /\ stalled' = 0
  BY <1>1 DEF MarkDone
<1> HIDE DEF Still
<1>5. \A j \in Nodes(circuit) : indegree'[j] = Cardinality(Still(j))
  BY <1>1, <1>3, <1>4
<1>6. indegree' \in [Nodes(circuit) -> Nat]
  BY <1>3, <1>4, <1>5
<1>7. Links(circuit, r, r) = {}
  BY <1>1, Placed DEF Links, IsNext
<1>8. ready' = {j \in Nodes(circuit) \ (Finished \cup {r}) : Still(j) = {}}
  <2>1. ASSUME NEW j \in ready'
        PROVE  j \in Nodes(circuit) /\ j \notin Finished \cup {r} /\ Still(j) = {}
    BY <1>1, <1>3, <1>4, <1>5, <1>7
  <2>2. ASSUME NEW j \in Nodes(circuit), j \notin Finished \cup {r}, Still(j) = {}
        PROVE  j \in ready'
    BY <1>1, <1>3, <1>4, <1>5, <2>2
  <2> QED
    BY <2>1, <2>2
<1>9. \A j \in Finished \cup {r} : Still(j) = {}
  BY <1>1, <1>3 DEF Finished
<1>10. CountsExact'
  BY <1>2, <1>5, <1>8, <1>9 DEF CountsExact
<1> QED
  BY <1>4, <1>6, <1>8, <1>10

-----------------------------------------------------------------------------
(* The inductive invariant.                                                *)

LEMMA InitInvariant ==
  ASSUME Circuits \subseteq Seq(Command), StallBound \in Nat, Init
  PROVE  IInv
<1>1. TypeOK
  BY DEF Init, TypeOK
<1> QED
  BY <1>1 DEF Init, IInv, MapsFollowTheState, CallChecked, Admissible, CountsExact,
                EmittedByNode, Underway

LEMMA RefuseKeeps ==
  ASSUME IInv, Refuse, outcome = "unplaced" => ~Admissible
  PROVE  IInv'
<1>1. TypeOK'
  BY DEF IInv, TypeOK, Refuse, call, placement, kahn, maps
<1>2. Admissible' = Admissible
  BY DEF Admissible, Refuse, call
<1>3. CallChecked'
  BY <1>2 DEF IInv, Refuse, CallChecked, Underway, call, maps
<1> QED
  BY <1>1, <1>3 DEF IInv, Refuse, MapsFollowTheState, CountsExact, EmittedByNode, Underway

LEMMA PlaceKeeps == IInv /\ Place => IInv'
<1> SUFFICES ASSUME IInv, Place PROVE IInv'
  OBVIOUS
<1> USE DEF Place, call
<1>1. /\ pin \in Placements /\ WellFormed(circuit) /\ circuit \in Seq(Command)
      /\ ran = <<>> /\ inRegion = 0 /\ stalled = 0 /\ outcome' = "routing"
      /\ \A i \in DOMAIN circuit : Operands(circuit[i]) \subseteq Qubits
  BY DEF IInv, TypeOK, CallChecked, Admissible
<1>2. InverseMap(pin) \in Placements /\ \A l \in Qubits : InverseMap(pin)[pin[l]] = l
  BY <1>1, InverseIsPlacement
<1>3. \A i \in Nodes(circuit) : i \in 1 .. Len(circuit)
  BY DEF Nodes
<1>4. Done' = {} /\ Finished' = {}
  BY <1>1 DEF Done, Finished
<1>5. \A j \in Nodes(circuit) :
        Waiting(j)' = {w \in Wires(circuit, j) : HasPrev(circuit, j, w)}
  BY <1>4 DEF Waiting, HasPrev
<1>6. \A j \in Nodes(circuit) : IsFiniteSet(Waiting(j)')
  <2> SUFFICES ASSUME NEW j \in Nodes(circuit) PROVE IsFiniteSet(Waiting(j)')
    OBVIOUS
  <2>1. IsFiniteSet(Wires(circuit, j))
    BY <1>1, <1>3, WiresFinite
  <2> QED
    BY <1>5, <2>1, FS_Subset
<1>7. \A j \in Nodes(circuit) :
        /\ indegree'[j] = Cardinality(Waiting(j)') /\ indegree'[j] \in Nat
        /\ indegree'[j] = 0 <=> Waiting(j)' = {}
  BY <1>5, <1>6, FS_CardinalityType, FS_EmptySet DEF Indegrees
<1>8. indegree' \in [Nodes(circuit) -> Nat] /\ indegree' = Indegrees
  BY <1>7 DEF Indegrees
<1>9. ready' = {j \in Nodes(circuit) : Waiting(j)' = {}}
  BY <1>7, <1>8
<1>10. TypeOK'
  BY <1>1, <1>2, <1>8, <1>9 DEF IInv, TypeOK
<1>11. CountsExact'
  BY <1>4, <1>7, <1>9 DEF CountsExact
<1>12. EmittedByNode'
  BY <1>1, <1>4 DEF EmittedByNode, Whole
<1>13. MapsFollowTheState' /\ CallChecked'
  BY <1>1, <1>2 DEF MapsFollowTheState, CallChecked, Admissible
<1> QED
  BY <1>10, <1>11, <1>12, <1>13 DEF IInv

\* The wires a command goes out on carry its operands.
LEMMA OnItsOperands ==
  ASSUME IInv, Underway, NEW n \in 1 .. Len(circuit)
  PROVE  /\ circuit[n].qubits \in Seq(Nat) /\ circuit[n].qubits \in Seq(Qubits)
         /\ \A k \in DOMAIN circuit[n].qubits :
              WireOf(n, k) \in Qubits /\ carried[WireOf(n, k)] = circuit[n].qubits[k]
         /\ [k \in DOMAIN circuit[n].qubits |-> carried[WireOf(n, k)]] = circuit[n].qubits
<1> DEFINE qs == circuit[n].qubits
<1>1. circuit[n] \in Command
  BY Placed
<1>2. qs \in Seq(Nat)
  BY <1>1 DEF Command
<1>3. \A k \in DOMAIN qs : qs[k] \in Qubits
  BY Placed DEF Operands
<1>4. qs \in Seq(Qubits)
  BY <1>2, <1>3
<1>5. \A k \in DOMAIN qs : WireOf(n, k) \in Qubits /\ carried[WireOf(n, k)] = qs[k]
  BY <1>3, Placed DEF WireOf
<1>6. [k \in DOMAIN qs |-> carried[WireOf(n, k)]] = qs
  BY <1>2, <1>5
<1> QED
  BY <1>2, <1>4, <1>5, <1>6

\* What emitting command n does to the stream.
LEMMA EmitAdds ==
  ASSUME IInv, Underway, NEW n \in 1 .. Len(circuit), Emit(n)
  PROVE  /\ ran' = Append(ran, [cmd |-> n, on |-> circuit[n].qubits])
         /\ ran' \in Seq([cmd : Nat, on : Seq(Qubits)])
         /\ Done' = Done \cup {n}
<1>1. ran' = Append(ran, [cmd |-> n, on |-> circuit[n].qubits])
  BY OnItsOperands DEF Emit
<1>2. ran \in Seq([cmd : Nat, on : Seq(Qubits)])
  BY DEF IInv, TypeOK
<1>3. [cmd |-> n, on |-> circuit[n].qubits] \in [cmd : Nat, on : Seq(Qubits)]
  <2>1. circuit[n].qubits \in Seq(Qubits)
    BY OnItsOperands
  <2>2. Len(circuit) \in Nat
    BY Placed
  <2>3. n \in Nat
    BY <2>2
  <2> QED
    BY <2>1, <2>3
<1>4. ran' \in Seq([cmd : Nat, on : Seq(Qubits)])
  BY <1>1, <1>2, <1>3
<1>5. /\ DOMAIN ran' = DOMAIN ran \cup {Len(ran) + 1}
      /\ \A k \in DOMAIN ran : ran'[k] = ran[k] /\ k # Len(ran) + 1
      /\ ran'[Len(ran) + 1].cmd = n
  BY <1>1, <1>2
<1>6. Done' = Done \cup {n}
  BY <1>5 DEF Done
<1> QED
  BY <1>1, <1>4, <1>6

\* The last command of node r has gone out, and mark_done follows.
LEMMA NodeFinishes ==
  ASSUME StallBound \in Nat, IInv, outcome = "routing", NEW r \in ready, NEW n,
         n = NodeEnd(circuit, r),
         Interval(r) \subseteq Done \cup {n}, \A i \in Nodes(circuit) \ {r} : Whole(i),
         Emit(n), MarkDone(r), inRegion' = 0,
         UNCHANGED <<call, outcome, placement, maps>>
  PROVE  IInv'
<1> USE DEF call, placement, maps
<1>0. Underway
  BY DEF Underway
<1>1. /\ circuit \in Seq(Command) /\ WellFormed(circuit) /\ r \in Nodes(circuit)
      /\ n \in Interval(r) /\ n \in 1 .. Len(circuit)
  <2>1. circuit \in Seq(Command) /\ WellFormed(circuit) /\ r \in Nodes(circuit)
    BY <1>0, Placed DEF IInv, TypeOK
  <2>2. r \in 1 .. Len(circuit) /\ NodeEnd(circuit, r) \in r .. Len(circuit)
    BY <2>1, NodeEnds
  <2> QED
    BY <2>1, <2>2 DEF Interval
<1>2. Done' = Done \cup {n} /\ ran' \in Seq([cmd : Nat, on : Seq(Qubits)])
  BY <1>0, <1>1, EmitAdds
<1>3. \A i \in Nodes(circuit) \ {r} : n \notin Interval(i) /\ NodeEnd(circuit, i) \in Interval(i)
  <2> SUFFICES ASSUME NEW i \in Nodes(circuit) \ {r}
               PROVE  n \notin Interval(i) /\ NodeEnd(circuit, i) \in Interval(i)
    OBVIOUS
  <2>1. n \notin Interval(i)
    BY <1>1, NodesDisjoint DEF Interval
  <2>2. i \in 1 .. Len(circuit) /\ NodeEnd(circuit, i) \in i .. Len(circuit)
    BY <1>1, NodeEnds
  <2> QED
    BY <2>1, <2>2 DEF Interval
<1>4. Finished' = Finished \cup {r}
  BY <1>1, <1>2, <1>3 DEF Finished
<1>5. /\ CountsExact' /\ indegree' \in [Nodes(circuit) -> Nat]
      /\ ready' \subseteq Nodes(circuit) /\ stalled' = 0
  BY <1>0, <1>4, MarkDoneKeeps
<1>6. TypeOK'
  BY <1>1, <1>2, <1>5 DEF IInv, TypeOK
<1>7. \A i \in Nodes(circuit) : Whole(i)'
  <2> SUFFICES ASSUME NEW i \in Nodes(circuit) PROVE Whole(i)'
    OBVIOUS
  <2>1. CASE i = r
    BY <1>2, <2>1 DEF Whole, Interval
  <2>2. CASE i # r
    BY <1>2, <1>3, <2>2 DEF Whole, Interval
  <2> QED
    BY <2>1, <2>2
<1>8. EmittedByNode'
  BY <1>0, <1>1, <1>2, <1>7 DEF IInv, EmittedByNode
<1>9. MapsFollowTheState' /\ CallChecked'
  BY DEF IInv, MapsFollowTheState, CallChecked, Admissible, Underway
<1> QED
  BY <1>5, <1>6, <1>8, <1>9 DEF IInv

LEMMA EmitNodeKeeps ==
  ASSUME StallBound \in Nat, IInv, EmitNode
  PROVE  IInv'
<1>1. PICK i \in ready : ~IsRegion(circuit, i) /\ Emit(i) /\ MarkDone(i)
  BY DEF EmitNode
<1>2. outcome = "routing" /\ inRegion = 0 /\ inRegion' = 0 /\ Underway
  BY DEF EmitNode, Routing, Underway
<1>3. i \in Nodes(circuit) /\ circuit \in Seq(Command) /\ WellFormed(circuit)
  BY <1>2, Placed DEF IInv, TypeOK
<1>4. i = NodeEnd(circuit, i)
  BY <1>1, <1>3, NodeEnds
<1>5. Interval(i) \subseteq Done \cup {i}
  BY <1>3, <1>4, NodeEnds DEF Interval
<1>6. \A m \in Nodes(circuit) \ {i} : Whole(m)
  BY <1>2 DEF IInv, EmittedByNode
<1> QED
  BY <1>1, <1>2, <1>4, <1>5, <1>6, NodeFinishes DEF EmitNode

LEMMA EnterRegionKeeps == IInv /\ EnterRegion => IInv'
<1> SUFFICES ASSUME IInv, EnterRegion PROVE IInv'
  OBVIOUS
<1> USE DEF EnterRegion, call, placement, kahn, maps
<1>1. PICK r \in ready : IsRegion(circuit, r) /\ inRegion' = r
  OBVIOUS
<1>2. outcome = "routing" /\ inRegion = 0 /\ Underway
  BY DEF Routing, Underway
<1>3. /\ circuit \in Seq(Command) /\ WellFormed(circuit)
      /\ r \in Nodes(circuit) \ Finished /\ r \in 1 .. Len(circuit) /\ Len(circuit) \in Nat
  BY <1>2, Placed DEF IInv, TypeOK, CountsExact
<1>4. NodeEnd(circuit, r) \in Interval(r) /\ r \in Interval(r) /\ NodeEnd(circuit, r) \in Nat
  <2>1. NodeEnd(circuit, r) \in r .. Len(circuit)
    BY <1>3, NodeEnds
  <2> QED
    BY <1>3, <2>1 DEF Interval
<1>5. Interval(r) \cap Done = {} /\ \A i \in Nodes(circuit) : Whole(i)
  <2>1. \A i \in Nodes(circuit) : Whole(i)
    BY <1>2 DEF IInv, EmittedByNode
  <2>2. NodeEnd(circuit, r) \notin Done
    BY <1>3 DEF Finished
  <2> QED
    BY <1>3, <1>4, <2>1, <2>2 DEF Whole
<1>6. Done' = Done
  BY DEF Done
<1>7. TypeOK'
  BY <1>1, <1>3 DEF IInv, TypeOK
<1>8. EmittedByNode'
  <2>1. r .. r - 1 = {}
    BY <1>3
  <2>2. Done \subseteq 1 .. Len(circuit)
    BY <1>2 DEF IInv, EmittedByNode
  <2> QED
    BY <1>1, <1>3, <1>4, <1>5, <1>6, <2>1, <2>2 DEF EmittedByNode, Whole, Interval
<1>9. CountsExact'
  BY <1>6 DEF IInv, CountsExact, Underway, Finished, Waiting
<1>10. MapsFollowTheState' /\ CallChecked'
  BY <1>2 DEF IInv, MapsFollowTheState, CallChecked, Admissible, Underway
<1> QED
  BY <1>7, <1>8, <1>9, <1>10 DEF IInv

\* The region being emitted, and its node.
LEMMA RegionUnderway ==
  ASSUME IInv, InsideRegion
  PROVE  /\ RegionNode \in ready /\ IsRegion(circuit, RegionNode)
         /\ inRegion \in Interval(RegionNode)
         /\ Interval(RegionNode) \cap Done = RegionNode .. inRegion - 1
         /\ \A i \in Nodes(circuit) \ {RegionNode} : Whole(i)
<1>1. outcome = "routing" /\ inRegion # 0 /\ Underway
  BY DEF InsideRegion, Underway
<1>2. PICK r \in ready : /\ IsRegion(circuit, r) /\ inRegion \in Interval(r)
                         /\ Interval(r) \cap Done = r .. inRegion - 1
                         /\ \A i \in Nodes(circuit) \ {r} : Whole(i)
  BY <1>1 DEF IInv, EmittedByNode
<1>3. circuit \in Seq(Command) /\ WellFormed(circuit) /\ ready \subseteq Nodes(circuit)
  BY <1>1, Placed DEF IInv, TypeOK
<1>4. \A i \in ready : inRegion \in i .. NodeEnd(circuit, i) => i = r
  BY <1>2, <1>3, NodesDisjoint DEF Interval
<1>5. RegionNode = r
  BY <1>2, <1>4 DEF RegionNode, Interval
<1> QED
  BY <1>2, <1>5

LEMMA EmitInRegionKeeps ==
  ASSUME StallBound \in Nat, IInv, EmitInRegion
  PROVE  IInv'
<1> DEFINE r == RegionNode
<1>1. /\ r \in ready /\ IsRegion(circuit, r) /\ inRegion \in Interval(r)
      /\ Interval(r) \cap Done = r .. inRegion - 1
      /\ \A i \in Nodes(circuit) \ {r} : Whole(i)
  BY RegionUnderway DEF EmitInRegion
<1>2. outcome = "routing" /\ inRegion # 0 /\ Underway /\ Emit(inRegion)
  BY DEF EmitInRegion, InsideRegion, Underway
<1>3. /\ circuit \in Seq(Command) /\ WellFormed(circuit)
      /\ r \in Nodes(circuit) /\ Len(circuit) \in Nat
  BY <1>1, <1>2, Placed DEF IInv, TypeOK
<1>4. r \in 1 .. Len(circuit) /\ NodeEnd(circuit, r) \in r .. Len(circuit)
  BY <1>3, NodeEnds
<1> HIDE DEF r
<1>5. inRegion \in 1 .. Len(circuit) /\ inRegion \in Int /\ r \in Int
      /\ NodeEnd(circuit, r) \in Int
  BY <1>1, <1>3, <1>4 DEF Interval
<1>6. CASE inRegion = NodeEnd(circuit, r)
  <2>1. Interval(r) \subseteq Done \cup {inRegion}
    <3> SUFFICES ASSUME NEW k \in Interval(r), k # inRegion PROVE k \in Done
      OBVIOUS
    <3>1. k \in r .. inRegion - 1
      BY <1>5, <1>6 DEF Interval
    <3> QED
      BY <1>1, <3>1
  <2>2. inRegion' = 0 /\ MarkDone(r)
    BY <1>6 DEF EmitInRegion, r
  <2> QED
    BY <1>1, <1>2, <1>6, <2>1, <2>2, NodeFinishes DEF EmitInRegion
<1>7. CASE inRegion # NodeEnd(circuit, r)
  <2> USE DEF call, placement, maps, kahn
  <2>1. inRegion' = inRegion + 1 /\ UNCHANGED <<kahn, stalled, call, outcome, placement, maps>>
    BY <1>7 DEF EmitInRegion, r
  <2>2. Done' = Done \cup {inRegion} /\ ran' \in Seq([cmd : Nat, on : Seq(Qubits)])
    BY <1>2, <1>5, EmitAdds
  <2>3. inRegion + 1 \in Interval(r) /\ inRegion + 1 \in 1 .. Len(circuit)
    BY <1>1, <1>3, <1>4, <1>5, <1>7 DEF Interval
  <2>4. Interval(r) \cap Done' = r .. inRegion
    <3>1. Interval(r) \cap Done' = (r .. inRegion - 1) \cup {inRegion}
      BY <1>1, <2>2
    <3>2. (r .. inRegion - 1) \cup {inRegion} = r .. inRegion
      BY <1>1, <1>5 DEF Interval
    <3> QED
      BY <3>1, <3>2
  <2>5. \A i \in Nodes(circuit) \ {r} : inRegion \notin Interval(i)
    BY <1>1, <1>3, NodesDisjoint DEF Interval
  <2>6. \A i \in Nodes(circuit) \ {r} : Whole(i)'
    BY <1>1, <2>1, <2>2, <2>5 DEF Whole, Interval
  <2>7. \A i \in Nodes(circuit) : NodeEnd(circuit, i) # inRegion
    <3> SUFFICES ASSUME NEW i \in Nodes(circuit) \ {r}, NodeEnd(circuit, i) = inRegion
                 PROVE  FALSE
      BY <1>7
    <3>1. NodeEnd(circuit, i) \in i .. Len(circuit) /\ i \in 1 .. Len(circuit)
      BY <1>3, NodeEnds
    <3>2. inRegion \in Interval(i)
      BY <1>5, <3>1 DEF Interval
    <3> QED
      BY <2>5, <3>2
  <2>8. Finished' = Finished
    BY <2>1, <2>2, <2>7 DEF Finished
  <2>9. TypeOK'
    BY <2>1, <2>2, <2>3 DEF IInv, TypeOK
  <2>10. CountsExact'
    BY <2>1, <2>8 DEF IInv, CountsExact, Underway, Waiting
  <2>11. EmittedByNode'
    <3>1. Done' \subseteq 1 .. Len(circuit)
      BY <1>2, <1>5, <2>2 DEF IInv, EmittedByNode
    <3>2. (inRegion + 1) - 1 = inRegion /\ inRegion + 1 # 0
      BY <1>5
    <3> QED
      BY <1>1, <2>1, <2>3, <2>4, <2>6, <3>1, <3>2 DEF EmittedByNode, Interval
  <2>12. MapsFollowTheState' /\ CallChecked'
    BY <1>2, <2>1 DEF IInv, MapsFollowTheState, CallChecked, Admissible, Underway
  <2> QED
    BY <2>9, <2>10, <2>11, <2>12 DEF IInv
<1> QED
  BY <1>6, <1>7

\* A SWAP between wires a and b, whatever it does to the stall count.
LEMMA SwapKeeps ==
  ASSUME IInv, outcome = "routing", NEW a \in Qubits, NEW b \in Qubits, SwapAndUpdate(a, b),
         stalled' \in 0 .. StallBound + 1, UNCHANGED <<call, outcome, kahn, inRegion, ran, maps>>
  PROVE  IInv'
<1> USE DEF call, kahn, maps
<1>1. /\ l2p' \in Placements /\ p2l' \in Placements /\ carried' \in Placements
      /\ MapsFollowTheState'
  BY SwapKeepsMaps DEF IInv
<1>2. TypeOK'
  BY <1>1 DEF IInv, TypeOK
<1>3. Done' = Done
  BY DEF Done
<1>4. CountsExact'
  <2>1. Finished' = Finished /\ Underway' = Underway
    BY <1>3 DEF Finished, Underway
  <2>2. \A j \in Nodes(circuit) : Waiting(j)' = Waiting(j)
    BY <2>1 DEF Waiting
  <2>3. CountsExact
    BY DEF IInv
  <2> QED
    BY <2>1, <2>2, <2>3 DEF CountsExact, Finished
<1>5. EmittedByNode'
  BY <1>3 DEF IInv, EmittedByNode, Underway, Whole, Interval
<1>6. CallChecked'
  BY DEF IInv, CallChecked, Admissible, Underway
<1> QED
  BY <1>1, <1>2, <1>4, <1>5, <1>6 DEF IInv

LEMMA HeuristicSwapKeeps ==
  ASSUME StallBound \in Nat, IInv, HeuristicSwap
  PROVE  IInv'
<1>1. PICK e \in Edges : SwapAndUpdate(e[1], e[2])
  BY DEF HeuristicSwap
<1>2. e[1] \in Qubits /\ e[2] \in Qubits
  BY ArchitectureAssumption
<1>3. outcome = "routing" /\ stalled' \in 0 .. StallBound + 1
  BY DEF HeuristicSwap, Swappable, FrontStuck, Routing, IInv, TypeOK
<1> QED
  BY <1>1, <1>2, <1>3, SwapKeeps DEF HeuristicSwap

\* A ready gate that is stuck is a pair of wires of the device.
LEMMA StuckPair ==
  ASSUME IInv, Underway, NEW i \in ready, Stuck(i)
  PROVE  /\ Len(circuit[i].qubits) = 2
         /\ WireOf(i, 1) \in Qubits /\ WireOf(i, 2) \in Qubits
<1>1. i \in 1 .. Len(circuit) /\ Len(circuit[i].qubits) = 2
  BY Placed DEF IInv, TypeOK, Stuck, IsPair
<1>2. 1 \in DOMAIN circuit[i].qubits /\ 2 \in DOMAIN circuit[i].qubits
  BY <1>1, OnItsOperands
<1> QED
  BY <1>1, <1>2, OnItsOperands

LEMMA ForcedSwapKeeps ==
  ASSUME IInv, ForcedSwap
  PROVE  IInv'
<1>1. outcome = "routing" /\ Underway /\ \A i \in ready : Stuck(i)
  BY DEF ForcedSwap, Swappable, FrontStuck, Routing, Underway
<1>2. PICK i \in ready, h \in Qubits : SwapAndUpdate(WireOf(i, 1), h)
  BY DEF ForcedSwap
<1>3. WireOf(i, 1) \in Qubits
  BY <1>1, StuckPair
<1>4. stalled' \in 0 .. StallBound + 1
  BY DEF ForcedSwap, IInv, TypeOK
<1> QED
  BY <1>1, <1>2, <1>3, <1>4, SwapKeeps DEF ForcedSwap

LEMMA FinishKeeps ==
  ASSUME IInv, Finish
  PROVE  IInv'
<1> USE DEF Finish, call, placement, kahn
<1>1. outcome = "routing" /\ inRegion = 0 /\ ready = {} /\ outcome' = "done"
  BY DEF Routing
<1>2. TypeOK'
  BY <1>1 DEF IInv, TypeOK
<1>3. Done' = Done
  BY DEF Done
<1>4. CountsExact'
  BY <1>1, <1>3 DEF IInv, CountsExact, Underway, Finished, Waiting
<1>5. EmittedByNode'
  BY <1>1, <1>3 DEF IInv, EmittedByNode, Underway, Whole, Interval
<1>6. CallChecked' /\ MapsFollowTheState'
  BY <1>1 DEF IInv, CallChecked, Admissible, MapsFollowTheState, Underway
<1> QED
  BY <1>2, <1>4, <1>5, <1>6 DEF IInv

LEMMA StepInvariant ==
  ASSUME StallBound \in Nat, IInv, [Next]_vars
  PROVE  IInv'
<1>1. CASE RejectCall
  BY <1>1, RefuseKeeps DEF RejectCall, Admissible
<1>2. CASE Place
  BY <1>2, PlaceKeeps
<1>3. CASE RejectNode
  BY <1>3, RefuseKeeps DEF RejectNode, Routing
<1>4. CASE EmitNode
  BY <1>4, EmitNodeKeeps
<1>5. CASE EnterRegion
  BY <1>5, EnterRegionKeeps
<1>6. CASE RejectInRegion
  BY <1>6, RefuseKeeps DEF RejectInRegion, InsideRegion
<1>7. CASE EmitInRegion
  BY <1>7, EmitInRegionKeeps
<1>8. CASE RejectConditional
  BY <1>8, RefuseKeeps DEF RejectConditional, FrontStuck, Routing
<1>9. CASE HeuristicSwap
  BY <1>9, HeuristicSwapKeeps
<1>10. CASE ForcedSwap
  BY <1>10, ForcedSwapKeeps
<1>11. CASE Finish
  BY <1>11, FinishKeeps
<1>12. CASE UNCHANGED vars
  <2> USE <1>12 DEF vars, call, placement, kahn, maps
  <2>1. Done' = Done
    BY DEF Done
  <2>2. TypeOK' /\ MapsFollowTheState' /\ CallChecked'
    BY DEF IInv, TypeOK, MapsFollowTheState, CallChecked, Admissible, Underway
  <2>3. CountsExact'
    <3>1. Finished' = Finished /\ Underway' = Underway
      BY <2>1 DEF Finished, Underway
    <3>2. \A j \in Nodes(circuit) : Waiting(j)' = Waiting(j)
      BY <3>1 DEF Waiting
    <3>3. CountsExact
      BY DEF IInv
    <3> QED
      BY <3>1, <3>2, <3>3 DEF CountsExact, Finished
  <2>4. EmittedByNode'
    BY <2>1 DEF IInv, EmittedByNode, Underway, Whole, Interval
  <2> QED
    BY <2>2, <2>3, <2>4 DEF IInv
<1> QED
  BY <1>1, <1>2, <1>3, <1>4, <1>5, <1>6, <1>7, <1>8, <1>9, <1>10, <1>11, <1>12
  DEF Next, Route, Stopped

\* A pass keeps its stream and its starting layout.
LEMMA CallKept == Next => UNCHANGED call
  BY DEF Next, Route, Stopped, RejectCall, Place, RejectNode, EmitNode, EnterRegion,
         RejectInRegion, EmitInRegion, RejectConditional, HeuristicSwap, ForcedSwap, Finish,
         Refuse, vars

\* The invariant of one pass, on every device, for every circuit and layout.
THEOREM PassInvariant ==
  ASSUME Circuits \subseteq Seq(Command), StallBound \in Nat
  PROVE  Spec => []IInv
<1>1. Init => IInv
  BY InitInvariant
<1>2. IInv /\ [Next]_vars => IInv'
  BY StepInvariant
<1> QED
  BY <1>1, <1>2, PTL DEF Spec

\* Between regions the commands done are those of the finished nodes.
LEMMA DoneIsFinished ==
  ASSUME IInv, Underway, inRegion = 0, NEW i \in Nodes(circuit)
  PROVE  i \in Done <=> i \in Finished
<1>1. i \in Interval(i) /\ NodeEnd(circuit, i) \in Interval(i)
  <2>1. i \in 1 .. Len(circuit) /\ NodeEnd(circuit, i) \in i .. Len(circuit)
    BY Placed, NodeEnds
  <2> QED
    BY <2>1 DEF Interval
<1>2. Whole(i)
  BY DEF IInv, EmittedByNode
<1> QED
  BY <1>1, <1>2 DEF Whole, Finished

\* What the invariant says of the ready set.
LEMMA InvariantFrontier == IInv => ReadyIsFrontier
<1> SUFFICES ASSUME IInv, Underway, inRegion = 0
             PROVE  ready = {i \in Nodes(circuit) \ Done :
                               \A j \in Nodes(circuit) :
                                 j < i /\ Wires(circuit, j) \cap Wires(circuit, i) # {}
                                   => j \in Done}
  BY DEF ReadyIsFrontier, Underway
<1>1. \A i \in Nodes(circuit) : i \in Done <=> i \in Finished
  BY DoneIsFinished
<1>2. \A i \in Nodes(circuit) :
        Waiting(i) = {} <=>
          \A j \in Nodes(circuit) :
            j < i /\ Wires(circuit, j) \cap Wires(circuit, i) # {} => j \in Finished
  BY DEF Waiting, OnWire
<1>3. ready = {j \in Nodes(circuit) \ Finished : Waiting(j) = {}}
  BY DEF IInv, CountsExact
<1> QED
  BY <1>1, <1>2, <1>3

\* Counting links down finds exactly the nodes whose predecessors have run.
THEOREM ReadyTheorem ==
  ASSUME Circuits \subseteq Seq(Command), StallBound \in Nat
  PROVE  Spec => [](TypeOK /\ ReadyIsFrontier /\ MapsFollowTheState)
<1>1. IInv => TypeOK /\ ReadyIsFrontier /\ MapsFollowTheState
  BY InvariantFrontier DEF IInv
<1> QED
  BY <1>1, PassInvariant, PTL

-----------------------------------------------------------------------------
(* The core implements Routing.                                            *)

\* The contract reads the stream, the device and the output as the core does.
LEMMA ReadsAlike ==
  /\ Contract!Qubits = Qubits /\ Contract!Placements = Placements /\ Contract!Done = Done
  /\ \A i, j : Contract!SameRegion(circuit, i, j) <=> SameRegion(circuit, i, j)
  /\ \A i, j : Contract!Ordered(circuit, i, j) <=> Ordered(circuit, i, j)
  /\ \A a, b : Contract!IsConnected(a, b) <=> IsConnected(a, b)
<1>1. Contract!Qubits = Qubits /\ Contract!Done = Done
  BY DEF Contract!Qubits, Qubits, Contract!Done, Done
<1>2. Contract!Placements = Placements
  BY <1>1 DEF Contract!Placements, Placements
<1>3. \A i : Contract!Depth(circuit, i) = Depth(circuit, i)
  BY DEF Contract!Depth, Depth, Contract!Opened, Opened, Contract!Closed, Closed,
         Contract!Cardinality, Cardinality
<1>4. \A i, j : Contract!SameRegion(circuit, i, j) <=> SameRegion(circuit, i, j)
  BY <1>3 DEF Contract!SameRegion, SameRegion
<1>5. \A i : Contract!InRegion(circuit, i) <=> InRegion(circuit, i)
  BY <1>3 DEF Contract!InRegion, InRegion
<1>6. \A i, j : Contract!Ordered(circuit, i, j) <=> Ordered(circuit, i, j)
  BY <1>5 DEF Contract!Ordered, Ordered, Contract!Operands, Operands, Contract!IsFence,
              IsFence, Contract!UsesRegister, UsesRegister
<1>7. \A a, b : Contract!IsConnected(a, b) <=> IsConnected(a, b)
  BY DEF Contract!IsConnected, IsConnected, Contract!HasDirectedEdge, HasDirectedEdge
<1> QED
  BY <1>1, <1>2, <1>4, <1>6, <1>7

\* Whatever must stay before a command of a ready node is out.
LEMMA OrderedIsDone ==
  ASSUME IInv, Underway, NEW r \in ready, NEW n \in Interval(r), r .. n - 1 \subseteq Done,
         \A i \in Nodes(circuit) \ {r} : Whole(i),
         NEW j \in 1 .. n - 1, Ordered(circuit, j, n)
  PROVE  j \in Done
<1>1. /\ circuit \in Seq(Command) /\ WellFormed(circuit) /\ Len(circuit) \in Nat
      /\ r \in Nodes(circuit) /\ Waiting(r) = {}
  BY Placed DEF IInv, TypeOK, CountsExact
<1>2. r \in 1 .. Len(circuit) /\ NodeEnd(circuit, r) \in r .. Len(circuit)
  BY <1>1, NodeEnds
<1>3. n \in r .. NodeEnd(circuit, r) /\ j \in 1 .. Len(circuit)
  BY <1>1, <1>2 DEF Interval
<1>4. PICK i \in Nodes(circuit) : j \in i .. NodeEnd(circuit, i)
  BY <1>1, <1>3, NodeOfIt
<1>5. i \in 1 .. Len(circuit) /\ NodeEnd(circuit, i) \in i .. Len(circuit)
  BY <1>1, NodeEnds
<1>6. CASE i = r
  <2>1. j \in r .. n - 1
    BY <1>2, <1>3, <1>4, <1>6
  <2> QED
    BY <2>1
<1>7. CASE i # r
  <2>1. i < r
    <3> SUFFICES ASSUME r < i PROVE FALSE
      BY <1>2, <1>5, <1>7
    <3>1. i \in r .. NodeEnd(circuit, r) /\ i \in i .. NodeEnd(circuit, i)
      BY <1>2, <1>3, <1>4, <1>5
    <3> QED
      BY <1>1, <1>7, <3>1, NodesDisjoint
  <2>2. Wires(circuit, i) \cap Wires(circuit, r) # {}
    BY <1>1, <1>3, <1>4, OrderedShareWire
  <2>3. i \in Finished
    BY <1>1, <2>1, <2>2 DEF Waiting, OnWire
  <2>4. NodeEnd(circuit, i) \in Interval(i) \cap Done
    BY <1>5, <2>3 DEF Finished, Interval
  <2>5. Interval(i) \subseteq Done
    BY <1>7, <2>4 DEF Whole
  <2> QED
    BY <1>4, <2>5 DEF Interval
<1> QED
  BY <1>6, <1>7

\* Emitting a command of a ready node, once what comes before it in the node is
\* out, runs it.
LEMMA EmitRuns ==
  ASSUME IInv, outcome = "routing", NEW r \in ready, NEW n \in Interval(r), n \notin Done,
         r .. n - 1 \subseteq Done, \A i \in Nodes(circuit) \ {r} : Whole(i),
         Emit(n), Len(circuit[n].qubits) =< 2, IsPair(n) => Runs(n),
         UNCHANGED <<call, outcome, placement, maps>>
  PROVE  n \in 1 .. Len(circuit) /\ Contract!Run(n)
<1>0. Underway
  BY DEF Underway
<1>1. n \in 1 .. Len(circuit)
  <2>1. r \in 1 .. Len(circuit) /\ NodeEnd(circuit, r) \in r .. Len(circuit)
    BY <1>0, Placed, NodeEnds DEF IInv, TypeOK
  <2> QED
    BY <2>1 DEF Interval
<1>2. n \notin Contract!Done
      /\ \A j \in 1 .. n - 1 : Contract!Ordered(circuit, j, n) => j \in Contract!Done
  BY <1>0, OrderedIsDone, ReadsAlike
<1> DEFINE w == [k \in DOMAIN circuit[n].qubits |-> WireOf(n, k)]
<1>3. /\ circuit[n].qubits \in Seq(Nat)
      /\ \A k \in DOMAIN circuit[n].qubits :
           WireOf(n, k) \in Qubits /\ carried[WireOf(n, k)] = circuit[n].qubits[k]
  BY <1>0, <1>1, OnItsOperands
<1>4. w \in [DOMAIN circuit[n].qubits -> Qubits]
      /\ \A k \in DOMAIN circuit[n].qubits : carried[w[k]] = circuit[n].qubits[k]
  BY <1>3
<1>5. Len(circuit[n].qubits) = 2 =>
        \/ RunsAsIs(circuit[n].gate, w[1], w[2], directed)
        \/ RunsFlipped(circuit[n].gate, w[1], w[2], directed)
  <2> SUFFICES ASSUME Len(circuit[n].qubits) = 2
               PROVE  \/ RunsAsIs(circuit[n].gate, w[1], w[2], directed)
                      \/ RunsFlipped(circuit[n].gate, w[1], w[2], directed)
    OBVIOUS
  <2>1. w[1] = WireOf(n, 1) /\ w[2] = WireOf(n, 2)
    BY <1>3
  <2>2. Runs(n)
    BY DEF IsPair
  <2> QED
    BY <2>1, <2>2 DEF Runs
<1>6. Contract!DeviceRuns(circuit[n], w)
  <2> HIDE DEF w
  <2> QED
    BY <1>4, <1>5 DEF Contract!DeviceRuns, Contract!RunsAsIs, Contract!RunsFlipped, RunsAsIs,
       RunsFlipped, Contract!IsConnected, IsConnected, Contract!HasDirectedEdge,
       HasDirectedEdge, Contract!IsAsymmetric, IsAsymmetric
<1>7. ran' = Append(ran, [cmd |-> n, on |-> circuit[n].qubits])
  BY <1>0, <1>1, EmitAdds
<1> HIDE DEF w
<1>8. w \in [DOMAIN circuit[n].qubits -> Contract!Qubits]
  BY <1>4, ReadsAlike
<1> QED
  BY <1>1, <1>2, <1>6, <1>7, <1>8 DEF Contract!Run, call, placement, maps

LEMMA EmitNodeRuns ==
  ASSUME IInv, EmitNode
  PROVE  \E n \in 1 .. Len(circuit) : Contract!Run(n)
<1>1. PICK i \in ready : /\ ~IsRegion(circuit, i) /\ Emit(i)
                         /\ Len(circuit[i].qubits) =< 2 /\ (IsPair(i) => Runs(i))
  BY DEF EmitNode
<1>2. outcome = "routing" /\ inRegion = 0 /\ Underway
  BY DEF EmitNode, Routing, Underway
<1>3. i \in Nodes(circuit) \ Finished /\ circuit \in Seq(Command) /\ WellFormed(circuit)
  BY <1>2, Placed DEF IInv, TypeOK, CountsExact
<1>4. i = NodeEnd(circuit, i) /\ i \in 1 .. Len(circuit)
  BY <1>1, <1>3, NodeEnds
<1>5. i \in Interval(i) /\ i \notin Done /\ i .. i - 1 = {}
  BY <1>3, <1>4 DEF Interval, Finished
<1>6. \A m \in Nodes(circuit) \ {i} : Whole(m)
  BY <1>2 DEF IInv, EmittedByNode
<1> QED
  BY <1>1, <1>2, <1>5, <1>6, EmitRuns DEF EmitNode

LEMMA EmitInRegionRuns ==
  ASSUME IInv, EmitInRegion
  PROVE  \E n \in 1 .. Len(circuit) : Contract!Run(n)
<1>1. /\ RegionNode \in ready /\ inRegion \in Interval(RegionNode)
      /\ Interval(RegionNode) \cap Done = RegionNode .. inRegion - 1
      /\ \A i \in Nodes(circuit) \ {RegionNode} : Whole(i)
  BY RegionUnderway DEF EmitInRegion
<1>2. inRegion \notin Done
  <2>1. inRegion \in Nat
    BY DEF IInv, TypeOK
  <2>2. inRegion \notin RegionNode .. inRegion - 1
    BY <2>1
  <2> QED
    BY <1>1, <2>2
<1>3. outcome = "routing"
  BY DEF EmitInRegion, InsideRegion
<1> QED
  BY <1>1, <1>2, <1>3, EmitRuns DEF EmitInRegion

LEMMA PlaceRefines == IInv /\ Place => Contract!Place
<1> SUFFICES ASSUME IInv, Place PROVE Contract!Place
  OBVIOUS
<1>1. /\ pin \in Placements /\ InverseMap(pin) \in Placements
      /\ \A l \in Qubits : InverseMap(pin)[pin[l]] = l
  BY InverseIsPlacement DEF Place
<1> QED
  BY <1>1, ReadsAlike DEF Place, Contract!Place, Contract!Locates, call

\* Between two nodes no region is half emitted.
LEMMA NoRegionOpen ==
  ASSUME IInv, Underway, inRegion = 0
  PROVE  Contract!BetweenRegions
<1> SUFFICES ASSUME NEW i \in Done, NEW j \in (1 .. Len(circuit)) \ Done,
                    SameRegion(circuit, i, j)
             PROVE  FALSE
  BY ReadsAlike DEF Contract!BetweenRegions
<1>1. /\ circuit \in Seq(Command) /\ WellFormed(circuit) /\ i \in 1 .. Len(circuit)
      /\ Len(circuit) \in Nat
  BY Placed DEF IInv, EmittedByNode
<1>2. PICK m \in Nodes(circuit) : i \in m .. NodeEnd(circuit, m)
  BY <1>1, NodeOfIt
<1>3. /\ m \in 1 .. Len(circuit) /\ NodeEnd(circuit, m) \in m .. Len(circuit)
      /\ Depth(circuit, NodeEnd(circuit, m)) = 0
  BY <1>1, NodeEnds
<1>4. j \notin Interval(m)
  BY <1>2 DEF IInv, EmittedByNode, Whole, Interval
<1>5. i < j /\ \A k \in i .. j - 1 : Depth(circuit, k) > 0
  BY DEF SameRegion
<1>6. NodeEnd(circuit, m) \in i .. j - 1
  BY <1>1, <1>2, <1>3, <1>4, <1>5 DEF Interval
<1> QED
  BY <1>3, <1>5, <1>6

LEMMA SwapRefines ==
  ASSUME IInv, outcome = "routing", inRegion = 0, NEW a \in Qubits, NEW b \in Qubits,
         IsConnected(a, b), SwapAndUpdate(a, b), UNCHANGED <<call, outcome, ran, maps>>
  PROVE  Contract!Next
<1>1. Contract!BetweenRegions
  BY NoRegionOpen DEF Underway
<1>2. Contract!Swap(a, b)
  BY <1>1, ReadsAlike DEF Contract!Swap, SwapAndUpdate, call, maps
<1>3. a \in Contract!Qubits /\ b \in Contract!Qubits
  BY ReadsAlike
<1> QED
  BY <1>2, <1>3 DEF Contract!Next

LEMMA HeuristicSwapRefines == IInv /\ HeuristicSwap => Contract!Next
<1> SUFFICES ASSUME IInv, HeuristicSwap PROVE Contract!Next
  OBVIOUS
<1>1. PICK e \in Edges : SwapAndUpdate(e[1], e[2])
  BY DEF HeuristicSwap
<1>2. e[1] \in Qubits /\ e[2] \in Qubits /\ <<e[1], e[2]>> \in Edges
  BY ArchitectureAssumption
<1>3. IsConnected(e[1], e[2])
  BY <1>2 DEF IsConnected, HasDirectedEdge
<1>4. outcome = "routing" /\ inRegion = 0
  BY DEF HeuristicSwap, Swappable, FrontStuck, Routing
<1> QED
  BY <1>1, <1>2, <1>3, <1>4, SwapRefines DEF HeuristicSwap

LEMMA ForcedSwapRefines == IInv /\ ForcedSwap => Contract!Next
<1> SUFFICES ASSUME IInv, ForcedSwap PROVE Contract!Next
  OBVIOUS
<1>1. outcome = "routing" /\ inRegion = 0 /\ Underway /\ \A i \in ready : Stuck(i)
  BY DEF ForcedSwap, Swappable, FrontStuck, Routing, Underway
<1>2. PICK i \in ready, h \in Qubits : /\ IsNextHop(h, WireOf(i, 1), WireOf(i, 2))
                                      /\ SwapAndUpdate(WireOf(i, 1), h)
  BY DEF ForcedSwap
<1>3. WireOf(i, 1) \in Qubits
  BY <1>1, StuckPair
<1>4. IsConnected(WireOf(i, 1), h)
  BY <1>2 DEF IsNextHop, Closer, Neighbours
<1> QED
  BY <1>1, <1>2, <1>3, <1>4, SwapRefines DEF ForcedSwap

\* When nothing is ready and no region is open, every command is out.
LEMMA NothingReady ==
  ASSUME IInv, Underway, inRegion = 0, ready = {}
  PROVE  Done = 1 .. Len(circuit)
<1>1. circuit \in Seq(Command) /\ WellFormed(circuit) /\ Done \subseteq 1 .. Len(circuit)
  BY Placed DEF IInv, EmittedByNode
<1>2. Nodes(circuit) \subseteq Finished
  <2> SUFFICES ASSUME Nodes(circuit) \ Finished # {} PROVE FALSE
    OBVIOUS
  <2>1. Nodes(circuit) \subseteq Nat
    BY DEF Nodes
  <2>2. PICK m \in Nodes(circuit) \ Finished : \A j \in Nodes(circuit) \ Finished : m =< j
    BY <2>1, LeastExists
  <2>3. Waiting(m) = {}
    BY <2>1, <2>2 DEF Waiting, OnWire
  <2>4. m \in ready
    BY <2>3 DEF IInv, CountsExact
  <2> QED
    BY <2>4
<1>3. ASSUME NEW n \in 1 .. Len(circuit)
      PROVE  n \in Done
  <2>1. PICK i \in Nodes(circuit) : n \in i .. NodeEnd(circuit, i)
    BY <1>1, NodeOfIt
  <2>2. NodeEnd(circuit, i) \in Interval(i)
    <3>1. i \in 1 .. Len(circuit) /\ NodeEnd(circuit, i) \in i .. Len(circuit)
      BY <1>1, NodeEnds
    <3> QED
      BY <3>1 DEF Interval
  <2>3. Whole(i) /\ NodeEnd(circuit, i) \in Done
    BY <1>2 DEF IInv, EmittedByNode, Finished
  <2> QED
    BY <2>1, <2>2, <2>3 DEF Whole, Interval
<1> QED
  BY <1>1, <1>3

LEMMA FinishRefines == IInv /\ Finish => Contract!Finish
<1> SUFFICES ASSUME IInv, Finish PROVE Contract!Finish
  OBVIOUS
<1>1. outcome = "routing" /\ inRegion = 0 /\ ready = {} /\ Underway
  BY DEF Finish, Routing, Underway
<1>2. Contract!Done = 1 .. Len(circuit)
  BY <1>1, NothingReady, ReadsAlike
<1>3. l2p \in Placements /\ \A l \in Qubits : carried[l2p[l]] = l
  BY <1>1 DEF IInv, TypeOK, MapsFollowTheState
<1> QED
  BY <1>1, <1>2, <1>3, ReadsAlike DEF Finish, Contract!Finish, Contract!Locates, call, placement

\* Every step of a pass is a step of the contract, or changes nothing in it.
THEOREM StepRefines == IInv /\ [Next]_vars => [Contract!Next]_(Contract!routingVars)
<1> SUFFICES ASSUME IInv, [Next]_vars PROVE [Contract!Next]_(Contract!routingVars)
  OBVIOUS
<1>1. CASE UNCHANGED vars \/ EnterRegion
  BY <1>1 DEF vars, call, placement, maps, EnterRegion, Contract!routingVars
<1>2. CASE Place
  BY <1>2, PlaceRefines DEF Contract!Next
<1>3. CASE EmitNode \/ EmitInRegion
  BY <1>3, EmitNodeRuns, EmitInRegionRuns DEF Contract!Next
<1>4. CASE HeuristicSwap \/ ForcedSwap
  BY <1>4, HeuristicSwapRefines, ForcedSwapRefines
<1>5. CASE Finish
  BY <1>5, FinishRefines DEF Contract!Next
<1>6. CASE RejectCall \/ RejectNode \/ RejectInRegion \/ RejectConditional
  <2>1. Refuse /\ outcome \in {"unplaced", "routing"}
    BY <1>6 DEF RejectCall, RejectNode, RejectInRegion, RejectConditional, Routing,
                InsideRegion, FrontStuck
  <2> QED
    BY <2>1 DEF Refuse, call, placement, maps, Contract!Refuse, Contract!Next
<1> QED
  BY <1>1, <1>2, <1>3, <1>4, <1>5, <1>6 DEF Next, Route, Stopped

\* One pass of SABRE routes its stream, whatever SWAPs the heuristic picks.
THEOREM CoreImplementsRouting ==
  ASSUME Circuits \subseteq Seq(Command), StallBound \in Nat
  PROVE  Spec => Contract!Spec
<1>1. Init => Contract!Init
  BY DEF Init, Contract!Init
<1> QED
  BY <1>1, PassInvariant, StepRefines, PTL DEF Spec, Contract!Spec

-----------------------------------------------------------------------------
(* The parts of the device.                                                *)

\* One breadth-first step.
Grown(S) == S \cup UNION {Neighbours(r) : r \in S}

\* The balls of every radius up to n.
GrowsTo(f, n) ==
  \A k \in 0 .. n : f[k] = [q \in Qubits |-> IF k = 0 THEN {q} ELSE Grown(f[k - 1][q])]

\* The recursion that defines Ball has a solution.
LEMMA BallsExist ==
  ASSUME NEW n \in Nat
  PROVE  \E f : GrowsTo(f, n)
<1> DEFINE Bad == {m \in Nat : ~\E f : GrowsTo(f, m)}
<1> SUFFICES ASSUME Bad # {} PROVE FALSE
  OBVIOUS
<1>1. PICK m \in Bad : \A j \in Bad : m =< j
  BY LeastExists
<1>2. CASE m = 0
  <2>1. GrowsTo([k \in 0 .. 0 |-> [q \in Qubits |-> {q}]], 0)
    BY DEF GrowsTo
  <2> QED
    BY <1>1, <1>2, <2>1
<1>3. CASE m # 0
  <2>1. m - 1 \in Nat /\ m - 1 \notin Bad
    BY <1>1, <1>3
  <2>2. PICK f : GrowsTo(f, m - 1)
    BY <2>1
  <2> DEFINE g == [k \in 0 .. m |-> IF k = m THEN [q \in Qubits |-> Grown(f[m - 1][q])]
                                            ELSE f[k]]
  <2>3. g[m] = [q \in Qubits |-> Grown(f[m - 1][q])] /\ \A k \in 0 .. m - 1 : g[k] = f[k]
    BY <1>1
  <2> HIDE DEF g
  <2>4. ASSUME NEW k \in 0 .. m
        PROVE  g[k] = [q \in Qubits |-> IF k = 0 THEN {q} ELSE Grown(g[k - 1][q])]
    <3>1. CASE k = m
      <4>1. g[k - 1] = f[m - 1] /\ k # 0
        BY <1>3, <2>1, <2>3, <3>1
      <4> QED
        BY <2>3, <3>1, <4>1
    <3>2. CASE k # m
      <4>1. k \in 0 .. m - 1 /\ g[k] = f[k] /\ (k # 0 => g[k - 1] = f[k - 1])
        BY <2>1, <2>3, <3>2
      <4>2. f[k] = [q \in Qubits |-> IF k = 0 THEN {q} ELSE Grown(f[k - 1][q])]
        BY <2>2, <4>1 DEF GrowsTo
      <4> QED
        BY <4>1, <4>2
    <3> QED
      BY <3>1, <3>2
  <2>5. GrowsTo(g, m)
    BY <2>4 DEF GrowsTo
  <2> QED
    BY <1>1, <2>5
<1> QED
  BY <1>2, <1>3

\* Ball is that solution.
LEMMA BallGrows == GrowsTo(Ball, NQubits)
<1>1. PICK f : GrowsTo(f, NQubits)
  BY BallsExist, ArchitectureAssumption
<1> DEFINE g == [k \in 0 .. NQubits |-> f[k]]
<1>2. g = [k \in 0 .. NQubits |->
             [q \in Qubits |->
                IF k = 0 THEN {q}
                ELSE g[k - 1][q] \cup UNION {Neighbours(r) : r \in g[k - 1][q]}]]
  <2> SUFFICES ASSUME NEW k \in 0 .. NQubits
               PROVE  g[k] = [q \in Qubits |->
                                IF k = 0 THEN {q}
                                ELSE g[k - 1][q] \cup UNION {Neighbours(r) : r \in g[k - 1][q]}]
    OBVIOUS
  <2>1. g[k] = f[k] /\ (k # 0 => g[k - 1] = f[k - 1])
    BY ArchitectureAssumption
  <2>2. f[k] = [q \in Qubits |-> IF k = 0 THEN {q} ELSE Grown(f[k - 1][q])]
    BY <1>1 DEF GrowsTo
  <2> HIDE DEF g
  <2> QED
    BY <2>1, <2>2 DEF Grown
<1> HIDE DEF g
<1>3. Ball = [k \in 0 .. NQubits |->
                [q \in Qubits |->
                   IF k = 0 THEN {q}
                   ELSE Ball[k - 1][q] \cup UNION {Neighbours(r) : r \in Ball[k - 1][q]}]]
  BY <1>2 DEF Ball
<1> QED
  BY <1>3 DEF GrowsTo, Grown

\* The part of the device q is in.
Part(q) == Ball[NQubits - 1][q]

LEMMA BallStep ==
  ASSUME NEW q \in Qubits
  PROVE  /\ Ball[0][q] = {q}
         /\ \A k \in 1 .. NQubits : k - 1 \in 0 .. NQubits /\ Ball[k][q] = Grown(Ball[k - 1][q])
<1>1. 0 \in 0 .. NQubits /\ \A k \in 1 .. NQubits : k \in 0 .. NQubits /\ k # 0 /\ k - 1 \in 0 .. NQubits
  BY ArchitectureAssumption
<1> QED
  BY <1>1, BallGrows DEF GrowsTo

\* A ball stays inside every set that holds its centre and that one step does not
\* leave.
LEMMA BallLeast ==
  ASSUME NEW S, Grown(S) \subseteq S, NEW q \in Qubits, q \in S, NEW n \in 0 .. NQubits
  PROVE  Ball[n][q] \subseteq S
<1> DEFINE Bad == {k \in 0 .. NQubits : ~(Ball[k][q] \subseteq S)}
<1> SUFFICES ASSUME Bad # {} PROVE FALSE
  OBVIOUS
<1>1. Bad \subseteq Nat
  OBVIOUS
<1>2. PICK k \in Bad : \A j \in Bad : k =< j
  BY <1>1, LeastExists
<1>3. k \in 1 .. NQubits
  BY <1>2, BallStep
<1>4. k - 1 \in 0 .. NQubits /\ Ball[k - 1][q] \subseteq S
  BY <1>2, <1>3, BallStep
<1>5. Grown(Ball[k - 1][q]) \subseteq S
  BY <1>4 DEF Grown
<1> QED
  BY <1>2, <1>3, <1>5, BallStep

\* A ball holds its centre, and the smaller balls.
LEMMA BallHolds ==
  ASSUME NEW q \in Qubits, NEW n \in 0 .. NQubits, NEW m \in 0 .. n
  PROVE  q \in Ball[n][q] /\ Ball[m][q] \subseteq Ball[n][q] /\ Ball[n][q] \subseteq Qubits
<1>1. Grown(Qubits) \subseteq Qubits
  BY DEF Grown, Neighbours
<1>2. Ball[n][q] \subseteq Qubits
  BY <1>1, BallLeast
<1> DEFINE Bad == {k \in m .. NQubits : ~(Ball[m][q] \subseteq Ball[k][q])}
           Out == {k \in 0 .. NQubits : q \notin Ball[k][q]}
<1>3. Bad = {}
  <2> SUFFICES ASSUME Bad # {} PROVE FALSE
    OBVIOUS
  <2>1. Bad \subseteq Nat
    OBVIOUS
  <2>2. PICK k \in Bad : \A j \in Bad : k =< j
    BY <2>1, LeastExists
  <2>3. k # m /\ m \in Nat /\ k \in m .. NQubits /\ NQubits \in Nat
    BY <2>2, ArchitectureAssumption
  <2>4. k \in 1 .. NQubits /\ k - 1 \in m .. NQubits /\ k - 1 < k
    BY <2>3
  <2>5. Ball[m][q] \subseteq Ball[k - 1][q]
    BY <2>2, <2>3, <2>4
  <2> QED
    BY <2>2, <2>4, <2>5, BallStep DEF Grown
<1>4. Out = {}
  <2> SUFFICES ASSUME Out # {} PROVE FALSE
    OBVIOUS
  <2>1. Out \subseteq Nat
    OBVIOUS
  <2>2. PICK k \in Out : \A j \in Out : k =< j
    BY <2>1, LeastExists
  <2>3. k \in 1 .. NQubits
    BY <2>2, BallStep
  <2>4. k - 1 \in 0 .. NQubits /\ k - 1 < k
    BY <2>3, BallStep
  <2>5. k - 1 \notin Out
    BY <2>2, <2>3, <2>4
  <2>6. q \in Ball[k - 1][q]
    BY <2>4, <2>5
  <2>7. Ball[k][q] = Grown(Ball[k - 1][q])
    BY <2>3, BallStep
  <2> QED
    BY <2>2, <2>6, <2>7 DEF Grown
<1>5. n \in m .. NQubits
  BY ArchitectureAssumption
<1> QED
  BY <1>2, <1>3, <1>4, <1>5

\* A part is all that can be reached: one more step leaves it no further.
LEMMA PartClosed ==
  ASSUME NEW q \in Qubits
  PROVE  Grown(Part(q)) \subseteq Part(q)
<1> SUFFICES ASSUME ~(Grown(Part(q)) \subseteq Part(q)) PROVE FALSE
  OBVIOUS
<1> DEFINE top == NQubits - 1
<1>1. top \in Nat /\ top \in 0 .. NQubits /\ NQubits = top + 1
  BY ArchitectureAssumption
<1>2. ASSUME NEW k \in 0 .. top
      PROVE  ~(Grown(Ball[k][q]) \subseteq Ball[k][q])
  <2> SUFFICES ASSUME Grown(Ball[k][q]) \subseteq Ball[k][q] PROVE FALSE
    OBVIOUS
  <2>1. k \in 0 .. NQubits
    BY <1>1
  <2>2. q \in Ball[k][q]
    BY <2>1, BallHolds
  <2>3. Ball[top][q] \subseteq Ball[k][q]
    BY <1>1, <2>2, BallLeast
  <2>4. Ball[k][q] \subseteq Ball[top][q]
    BY <1>1, BallHolds
  <2> QED
    BY <2>3, <2>4 DEF Part
<1>3. IsFiniteSet(Qubits) /\ Cardinality(Qubits) = NQubits
  <2>1. 0 \in Int /\ NQubits - 1 \in Int
    BY ArchitectureAssumption
  <2>2. IsFiniteSet(0 .. NQubits - 1)
        /\ Cardinality(0 .. NQubits - 1) = IF 0 > NQubits - 1 THEN 0 ELSE NQubits - 1 - 0 + 1
    BY <2>1, FS_Interval
  <2> QED
    BY <2>2, ArchitectureAssumption DEF Qubits
<1>4. \A k \in 0 .. NQubits : Ball[k][q] \subseteq Qubits /\ IsFiniteSet(Ball[k][q])
                              /\ Cardinality(Ball[k][q]) \in Nat
  BY <1>3, BallHolds, FS_Subset, FS_CardinalityType
<1> DEFINE Bad == {k \in 0 .. top : ~(Cardinality(Ball[k][q]) >= k + 1)}
<1>5. Bad = {}
  <2> SUFFICES ASSUME Bad # {} PROVE FALSE
    OBVIOUS
  <2>1. Bad \subseteq Nat
    OBVIOUS
  <2>2. PICK k \in Bad : \A j \in Bad : k =< j
    BY <2>1, LeastExists
  <2>3. CASE k = 0
    <3>1. Ball[k][q] = {q}
      BY <2>3, BallStep
    <3>2. Cardinality(Ball[k][q]) = 1
      BY <3>1, FS_Singleton
    <3> QED
      BY <2>2, <2>3, <3>2
  <2>4. CASE k # 0
    <3>1. k \in 1 .. NQubits /\ k - 1 \in 0 .. top /\ k - 1 \in 0 .. NQubits /\ k - 1 \notin Bad
      BY <1>1, <2>2, <2>4
    <3> DEFINE S == Ball[k - 1][q]
               T == Ball[k][q]
    <3>2. Cardinality(S) >= k
      BY <3>1
    <3>3. T = Grown(S) /\ S \subseteq T /\ T # S
      BY <1>2, <3>1, BallStep DEF Grown
    <3>4. IsFiniteSet(T) /\ Cardinality(T) \in Nat /\ Cardinality(S) \in Nat
      BY <1>1, <1>4, <3>1
    <3> HIDE DEF S, T
    <3>5. Cardinality(S) =< Cardinality(T) /\ Cardinality(S) # Cardinality(T)
      BY <3>3, <3>4, FS_Subset
    <3>6. Cardinality(T) >= k + 1
      BY <2>2, <3>2, <3>4, <3>5
    <3> QED
      BY <2>2, <3>6 DEF T
  <2> QED
    BY <2>3, <2>4
<1>6. Cardinality(Part(q)) >= NQubits
  BY <1>1, <1>5 DEF Part
<1>7. Part(q) = Qubits
  <2> DEFINE P == Part(q)
  <2>1. P \subseteq Qubits /\ Cardinality(P) \in Nat
    BY <1>1, <1>4 DEF Part
  <2>2. Cardinality(P) =< Cardinality(Qubits)
    BY <1>3, <2>1, FS_Subset
  <2>3. Cardinality(Qubits) = Cardinality(P)
    BY <1>3, <1>6, <2>1, <2>2, ArchitectureAssumption
  <2> QED
    BY <1>3, <2>1, <2>3, FS_Subset
<1> QED
  BY <1>7 DEF Grown, Neighbours

\* Qubits an edge connects are in one part.
LEMMA NeighboursShareAPart ==
  ASSUME NEW a \in Qubits, NEW b \in Qubits, IsConnected(a, b)
  PROVE  Part(a) = Part(b)
<1>1. NQubits - 1 \in 0 .. NQubits /\ \A q \in Qubits : q \in Part(q)
  BY ArchitectureAssumption, BallHolds DEF Part
<1>2. ASSUME NEW c \in Qubits, NEW d \in Qubits, IsConnected(c, d)
      PROVE  Part(d) \subseteq Part(c)
  <2>1. d \in Grown(Part(c))
    BY <1>1, <1>2 DEF Grown, Neighbours
  <2>2. d \in Part(c) /\ Grown(Part(c)) \subseteq Part(c)
    BY <2>1, PartClosed
  <2> QED
    BY <1>1, <2>2, BallLeast DEF Part
<1>3. IsConnected(b, a)
  BY DEF IsConnected
<1> QED
  BY <1>2, <1>3

\* Parts are the classes of an equivalence.
LEMMA MembersShareAPart ==
  ASSUME NEW a \in Qubits, NEW b \in Qubits
  PROVE  a \in Part(b) <=> Part(a) = Part(b)
<1> DEFINE S == {x \in Qubits : Part(x) = Part(b)}
<1>1. NQubits - 1 \in 0 .. NQubits /\ a \in Part(a)
  BY ArchitectureAssumption, BallHolds DEF Part
<1>2. Grown(S) \subseteq S
  BY NeighboursShareAPart DEF Grown, Neighbours
<1>3. Part(b) \subseteq S
  BY <1>1, <1>2, BallLeast DEF Part
<1> QED
  BY <1>1, <1>3

\* Distance is the radius of the smallest ball, for a qubit of the same part.
LEMMA DistanceIsLeast ==
  ASSUME NEW a \in Qubits, NEW b \in Qubits, Part(a) = Part(b)
  PROVE  /\ Distance[a][b] \in 0 .. NQubits - 1
         /\ a \in Ball[Distance[a][b]][b]
         /\ \A j \in 0 .. Distance[a][b] - 1 : a \notin Ball[j][b]
<1> DEFINE Radii == {k \in 0 .. NQubits - 1 : a \in Ball[k][b]}
           Least(k) == a \in Ball[k][b] /\ \A j \in 0 .. k - 1 : a \notin Ball[j][b]
<1>1. a \in Ball[NQubits - 1][b]
  BY MembersShareAPart DEF Part
<1>2. Radii # {} /\ Radii \subseteq Nat
  BY <1>1, ArchitectureAssumption
<1>3. PICK k \in Radii : \A j \in Radii : k =< j
  BY <1>2, LeastExists
<1>4. ASSUME NEW j \in 0 .. k - 1
      PROVE  a \notin Ball[j][b]
  <2>1. j \in 0 .. NQubits - 1 /\ j < k
    BY <1>3, ArchitectureAssumption
  <2> QED
    BY <1>3, <2>1
<1>5. k \in 0 .. NQubits - 1 /\ Least(k)
  BY <1>3, <1>4
<1>6. Distance[a][b] = CHOOSE n \in 0 .. NQubits - 1 : Least(n)
  BY <1>1 DEF Distance
<1> HIDE DEF Least
<1>7. Distance[a][b] \in 0 .. NQubits - 1 /\ Least(Distance[a][b])
  BY <1>5, <1>6
<1> QED
  BY <1>7 DEF Least

\* Two qubits are disconnected when they are in different parts.
LEMMA DistanceTellsParts ==
  ASSUME NEW a \in Qubits, NEW b \in Qubits
  PROVE  Distance[a][b] = NQubits <=> Part(a) # Part(b)
<1>1. CASE Part(a) = Part(b)
  BY <1>1, DistanceIsLeast, ArchitectureAssumption
<1>2. CASE Part(a) # Part(b)
  BY <1>2, MembersShareAPart DEF Distance, Part
<1> QED
  BY <1>1, <1>2

\* Inside a part there is always a next hop.
LEMMA CloserExists ==
  ASSUME NEW a \in Qubits, NEW b \in Qubits, a # b, Part(a) = Part(b)
  PROVE  Closer(a, b) # {}
<1> DEFINE d == Distance[a][b]
<1>1. d \in 0 .. NQubits - 1 /\ a \in Ball[d][b] /\ \A j \in 0 .. d - 1 : a \notin Ball[j][b]
  BY DistanceIsLeast
<1> HIDE DEF d
<1>2. d # 0
  BY <1>1, BallStep
<1>3. d \in 1 .. NQubits /\ d - 1 \in 0 .. d - 1 /\ d - 1 \in 0 .. NQubits - 1
      /\ d - 1 \in 0 .. NQubits
  BY <1>1, <1>2, ArchitectureAssumption
<1>4. a \in Grown(Ball[d - 1][b]) /\ a \notin Ball[d - 1][b]
  BY <1>1, <1>3, BallStep
<1>5. PICK r \in Ball[d - 1][b] : a \in Neighbours(r)
  BY <1>4 DEF Grown
<1>6. r \in Qubits
  BY <1>3, <1>5, BallHolds
<1>7. r \in Neighbours(a)
  BY <1>5, <1>6 DEF Neighbours, IsConnected
<1>8. Part(r) = Part(a)
  BY <1>5, <1>6, NeighboursShareAPart DEF Neighbours
<1>9. Distance[r][b] \in Nat /\ ~(d - 1 \in 0 .. Distance[r][b] - 1)
  BY <1>5, <1>6, <1>8, DistanceIsLeast
<1>10. Distance[r][b] < d
  BY <1>1, <1>3, <1>9
<1> QED
  BY <1>7, <1>10 DEF Closer, d

-----------------------------------------------------------------------------
(* Why a pass is refused.                                                  *)

\* Neither direction of the edge runs the gate, wherever its qubits sit.
CannotTurn(c) ==
  directed /\ IsAsymmetric(c.gate) /\ (c.gate = "CX" => c.qubits[1] = c.qubits[2])

\* Why command i may not be routed from layout m.
Unroutable(i, m) ==
  LET c == circuit[i] IN
  \/ Len(c.qubits) > 2
  \/ /\ Len(c.qubits) = 2
     /\ \/ CannotTurn(c)
        \/ c.conditional
        \/ Depth(circuit, i) > 0
        \/ Part(m[c.qubits[1]]) # Part(m[c.qubits[2]])

\* A SWAP takes no qubit to another part of the device, and a call that passes the
\* checks is refused only for a command that cannot be routed.
RefusedWithCause ==
  /\ Underway => \A l \in Qubits : Part(l2p[l]) = Part(pin[l])
  /\ outcome = "refused" /\ Admissible => \E i \in DOMAIN circuit : Unroutable(i, pin)

\* The wires of a pair.
LEMMA PairWires ==
  ASSUME IInv, Underway, NEW i \in 1 .. Len(circuit), IsPair(i)
  PROVE  /\ circuit[i].qubits[1] \in Qubits /\ circuit[i].qubits[2] \in Qubits
         /\ WireOf(i, 1) = l2p[circuit[i].qubits[1]] /\ WireOf(i, 2) = l2p[circuit[i].qubits[2]]
         /\ WireOf(i, 1) \in Qubits /\ WireOf(i, 2) \in Qubits
         /\ WireOf(i, 1) = WireOf(i, 2) => circuit[i].qubits[1] = circuit[i].qubits[2]
<1>1. circuit[i].qubits \in Seq(Qubits) /\ Len(circuit[i].qubits) = 2
  BY OnItsOperands DEF IsPair
<1>2. circuit[i].qubits[1] \in Qubits /\ circuit[i].qubits[2] \in Qubits
  BY <1>1
<1>3. WireOf(i, 1) = l2p[circuit[i].qubits[1]] /\ WireOf(i, 2) = l2p[circuit[i].qubits[2]]
  BY DEF WireOf
<1> QED
  BY <1>2, <1>3, Placed

\* A pair on an edge that does not run there cannot run at all.
LEMMA NotRunning ==
  ASSUME IInv, Underway, NEW i \in 1 .. Len(circuit), IsPair(i), ~Runs(i),
         IsConnected(WireOf(i, 1), WireOf(i, 2))
  PROVE  CannotTurn(circuit[i])
<1> DEFINE a == WireOf(i, 1)
           b == WireOf(i, 2)
<1>1. directed /\ IsAsymmetric(circuit[i].gate) /\ ~HasDirectedEdge(a, b)
      /\ ~(circuit[i].gate = "CX" /\ HasDirectedEdge(b, a))
  BY DEF Runs, RunsAsIs, RunsFlipped
<1>2. circuit[i].gate = "CX" => a = b
  BY <1>1 DEF IsConnected
<1> QED
  BY <1>1, <1>2, PairWires DEF CannotTurn

\* In a region, a pair is in a branch.
LEMMA PairInRegion ==
  ASSUME NEW s \in Seq(Command), WellFormed(s), NEW r \in Nodes(s), IsRegion(s, r),
         NEW n \in r .. NodeEnd(s, r), Len(s[n].qubits) = 2
  PROVE  Depth(s, n) > 0
<1>1. n \in 1 .. Len(s) /\ InRegion(s, n)
  BY CommandOfNode
<1>2. s[n] \in Command
  BY <1>1
<1>3. s[n].qubits # <<>>
  <2> SUFFICES ASSUME s[n].qubits = <<>> PROVE FALSE
    OBVIOUS
  <2>1. Len(<<>>) = 2
    OBVIOUS
  <2>2. Len(<<>>) = 0
    OBVIOUS
  <2> QED
    BY <2>1, <2>2
<1>4. s[n].gate # "BranchEnd"
  BY <1>2, <1>3 DEF Command, Markers
<1> QED
  BY <1>1, <1>4 DEF InRegion

LEMMA RejectNodeCause ==
  ASSUME IInv, RefusedWithCause, RejectNode
  PROVE  \E i \in DOMAIN circuit : Unroutable(i, pin)
<1>1. Underway /\ inRegion = 0
  BY DEF RejectNode, Routing, Underway
<1>2. PICK i \in ready : /\ IsFirst(i) /\ ~IsRegion(circuit, i)
                         /\ \/ Len(circuit[i].qubits) > 2
                            \/ IsPair(i) /\ (Disconnected(i) \/ ~Runs(i))
  BY DEF RejectNode
<1>3. i \in 1 .. Len(circuit) /\ i \in DOMAIN circuit
  BY <1>1, Placed DEF IInv, TypeOK
<1>4. CASE Len(circuit[i].qubits) > 2
  BY <1>3, <1>4 DEF Unroutable
<1>5. CASE IsPair(i) /\ Disconnected(i)
  <2>1. Part(WireOf(i, 1)) # Part(WireOf(i, 2))
    BY <1>1, <1>3, <1>5, PairWires, DistanceTellsParts DEF Disconnected
  <2>2. Part(pin[circuit[i].qubits[1]]) # Part(pin[circuit[i].qubits[2]])
    BY <1>1, <1>3, <1>5, <2>1, PairWires DEF RefusedWithCause
  <2> QED
    BY <1>3, <1>5, <2>2 DEF Unroutable, IsPair
<1>6. CASE IsPair(i) /\ ~Disconnected(i) /\ ~Runs(i)
  <2>1. IsConnected(WireOf(i, 1), WireOf(i, 2))
    BY <1>2, <1>6 DEF IsFirst, Stuck, NeedsSwaps
  <2>2. CannotTurn(circuit[i])
    BY <1>1, <1>3, <1>6, <2>1, NotRunning
  <2> QED
    BY <1>3, <1>6, <2>2 DEF Unroutable, IsPair
<1> QED
  BY <1>2, <1>4, <1>5, <1>6

LEMMA RejectInRegionCause ==
  ASSUME IInv, RejectInRegion
  PROVE  \E i \in DOMAIN circuit : Unroutable(i, pin)
<1>1. Underway /\ InsideRegion
  BY DEF RejectInRegion, InsideRegion, Underway
<1>2. RegionNode \in ready /\ IsRegion(circuit, RegionNode) /\ inRegion \in Interval(RegionNode)
  BY <1>1, RegionUnderway
<1>3. circuit \in Seq(Command) /\ WellFormed(circuit) /\ RegionNode \in Nodes(circuit)
  BY <1>1, <1>2, Placed DEF IInv, TypeOK
<1>4. inRegion \in DOMAIN circuit
  BY <1>2, <1>3, CommandOfNode DEF Interval
<1>5. CASE Len(circuit[inRegion].qubits) > 2
  BY <1>4, <1>5 DEF Unroutable
<1>6. CASE Len(circuit[inRegion].qubits) = 2
  <2>1. Depth(circuit, inRegion) > 0
    BY <1>2, <1>3, <1>6, PairInRegion DEF Interval
  <2> QED
    BY <1>4, <1>6, <2>1 DEF Unroutable
<1> QED
  BY <1>5, <1>6 DEF RejectInRegion, IsPair

LEMMA RejectConditionalCause ==
  ASSUME IInv, RejectConditional
  PROVE  \E i \in DOMAIN circuit : Unroutable(i, pin)
<1>1. Underway /\ \A i \in ready : Stuck(i)
  BY DEF RejectConditional, FrontStuck, Routing, Underway
<1>2. PICK i \in ready : circuit[i].conditional
  BY DEF RejectConditional
<1>3. i \in DOMAIN circuit
  BY <1>1, Placed DEF IInv, TypeOK
<1> QED
  BY <1>1, <1>2, <1>3 DEF Unroutable, Stuck, IsPair

\* A SWAP along an edge takes no qubit to another part.
LEMMA SwapKeepsParts ==
  ASSUME IInv, Underway, NEW a \in Qubits, NEW b \in Qubits, IsConnected(a, b),
         SwapAndUpdate(a, b), NEW l \in Qubits
  PROVE  Part(l2p'[l]) = Part(l2p[l])
<1>1. /\ l2p \in Placements /\ p2l \in Placements /\ \A q \in Qubits : p2l[l2p[q]] = q
  BY DEF IInv, TypeOK, MapsFollowTheState, Underway
<1>2. p2l[a] \in Qubits /\ p2l[b] \in Qubits /\ l2p[p2l[a]] = a /\ l2p[p2l[b]] = b
      /\ l2p \in [Qubits -> Qubits]
  BY <1>1, BothWays DEF Placements
<1>3. l2p' = [l2p EXCEPT ![p2l[a]] = b, ![p2l[b]] = a]
  BY DEF SwapAndUpdate
<1>4. l2p'[l] = l2p[l] \/ (l2p[l] = a /\ l2p'[l] = b) \/ (l2p[l] = b /\ l2p'[l] = a)
  BY <1>2, <1>3
<1> QED
  BY <1>4, NeighboursShareAPart

LEMMA SwapsKeepParts ==
  ASSUME IInv, RefusedWithCause, HeuristicSwap \/ ForcedSwap
  PROVE  RefusedWithCause'
<1>1. Underway /\ outcome' = "routing" /\ outcome = "routing" /\ \A i \in ready : Stuck(i)
  BY DEF HeuristicSwap, ForcedSwap, Swappable, FrontStuck, Routing, Underway
<1>2. PICK a \in Qubits, b \in Qubits : IsConnected(a, b) /\ SwapAndUpdate(a, b)
  <2>1. CASE HeuristicSwap
    <3>1. PICK e \in Edges : SwapAndUpdate(e[1], e[2])
      BY <2>1 DEF HeuristicSwap
    <3>2. e[1] \in Qubits /\ e[2] \in Qubits /\ IsConnected(e[1], e[2])
      BY ArchitectureAssumption DEF IsConnected, HasDirectedEdge
    <3> QED
      BY <3>1, <3>2
  <2>2. CASE ForcedSwap
    <3>1. PICK i \in ready, h \in Qubits :
            IsNextHop(h, WireOf(i, 1), WireOf(i, 2)) /\ SwapAndUpdate(WireOf(i, 1), h)
      BY <2>2 DEF ForcedSwap
    <3>2. WireOf(i, 1) \in Qubits /\ IsConnected(WireOf(i, 1), h)
      BY <1>1, <3>1, StuckPair DEF IsNextHop, Closer, Neighbours
    <3> QED
      BY <3>1, <3>2
  <2> QED
    BY <2>1, <2>2
<1>3. \A l \in Qubits : Part(l2p'[l]) = Part(l2p[l])
  BY <1>1, <1>2, SwapKeepsParts
<1>4. pin' = pin
  BY DEF HeuristicSwap, ForcedSwap, call
<1> QED
  BY <1>1, <1>3, <1>4 DEF RefusedWithCause, Underway, Part

\* Every refusal of a pass has its cause.
LEMMA CauseStep ==
  ASSUME IInv, RefusedWithCause, [Next]_vars
  PROVE  RefusedWithCause'
<1>1. CASE RejectNode \/ RejectInRegion \/ RejectConditional
  <2>1. Refuse
    BY <1>1 DEF RejectNode, RejectInRegion, RejectConditional
  <2>2. \E i \in DOMAIN circuit : Unroutable(i, pin)
    BY <1>1, RejectNodeCause, RejectInRegionCause, RejectConditionalCause
  <2> QED
    BY <2>1, <2>2 DEF Refuse, call, RefusedWithCause, Underway, Unroutable, CannotTurn, Part
<1>2. CASE RejectCall
  <2>1. ~Admissible /\ Refuse
    BY <1>2 DEF RejectCall, Admissible
  <2> QED
    BY <2>1 DEF Refuse, call, RefusedWithCause, Underway, Admissible
<1>3. CASE Place
  BY <1>3 DEF Place, call, RefusedWithCause, Underway
<1>4. CASE HeuristicSwap \/ ForcedSwap
  BY <1>4, SwapsKeepParts
<1>5. CASE EmitNode \/ EnterRegion \/ EmitInRegion \/ Finish
  <2>1. UNCHANGED <<call, l2p>> /\ outcome = "routing" /\ outcome' \in {"routing", "done"}
    BY <1>5 DEF EmitNode, EnterRegion, EmitInRegion, Finish, Routing, InsideRegion, placement
  <2> QED
    BY <2>1 DEF RefusedWithCause, Underway, call, Part
<1>6. CASE UNCHANGED vars
  BY <1>6 DEF vars, call, placement, RefusedWithCause, Underway, Admissible, Unroutable,
              CannotTurn, Part
<1> QED
  BY <1>1, <1>2, <1>3, <1>4, <1>5, <1>6 DEF Next, Route, Stopped

=============================================================================
