---------------------------- MODULE RouteCallProofs ----------------------------
(***************************************************************************)
(* The greedy router implements Routing on every device, for every circuit *)
(* and every initial mapping; so does every pass of SABRE, in a call with  *)
(* any number of trials and rounds; and what the call keeps is what one    *)
(* pass emitted.                                                           *)
(*                                                                         *)
(* For Lite, IInv is inductive: it ties the router's arrays to what the    *)
(* wires carry, the wires of the gate being placed to its operands, and    *)
(* the sweep's position and branch depth to the stream emitted so far.     *)
(* For the call, CallInv adds the invariant SabreCoreProofs proves of a    *)
(* pass, which circuit and layout the pass has, and what is kept; CauseInv *)
(* adds why a pass that routed nothing gave up, so that a call throws only *)
(* for a cause the code names.                                             *)
(***************************************************************************)
EXTENDS RouteCall, StreamProofs

USE ArchitectureAssumption

-----------------------------------------------------------------------------
(* Facts about streams and permutations.                                   *)

\* A permutation has an inverse, and the inverse is a permutation.
LEMMA InverseIsPlacement ==
  ASSUME NEW m \in Placements
  PROVE  /\ InverseMap(m) \in Placements
         /\ \A l \in Qubits : InverseMap(m)[m[l]] = l
         /\ \A p \in Qubits : m[InverseMap(m)[p]] = p
<1> DEFINE inv == InverseMap(m)
<1>1. m \in [Qubits -> Qubits] /\ \A a, b \in Qubits : m[a] = m[b] => a = b
  BY DEF Placements
<1>2. inv \in [Qubits -> Qubits] /\ \A p \in Qubits : m[inv[p]] = p
  BY DEF InverseMap, Placements
<1>3. \A l \in Qubits : inv[m[l]] = l
  BY <1>1, <1>2
<1>4. \A a, b \in Qubits : inv[a] = inv[b] => a = b
  BY <1>2
<1>5. \A p \in Qubits : \E l \in Qubits : inv[l] = p
  BY <1>1, <1>3
<1> QED
  BY <1>2, <1>3, <1>4, <1>5 DEF Placements

\* The identity is a permutation.
LEMMA IdentityIsPlacement == Identity \in Placements
  BY DEF Identity, Placements

\* The router's branch_depth follows Depth.
LEMMA DepthFollows ==
  ASSUME circuit \in Seq(Command), pos \in 1 .. Len(circuit), depth = Depth(circuit, pos - 1)
  PROVE  NewDepth = Depth(circuit, pos)
<1>1. Depth(circuit, pos - 1) \in Int
  <2>1. IsFiniteSet(1 .. pos - 1)
    BY FS_Interval
  <2>2. IsFiniteSet(Opened(circuit, pos - 1)) /\ IsFiniteSet(Closed(circuit, pos - 1))
    BY <2>1, FS_Subset DEF Opened, Closed
  <2> QED
    BY <2>2, FS_CardinalityType DEF Depth
<1> QED
  BY <1>1, DepthStep DEF NewDepth, cmd

-----------------------------------------------------------------------------
(* The inductive invariant.                                                *)

THEOREM InitInvariant == Init => IInv
<1> SUFFICES ASSUME Init PROVE IInv
  OBVIOUS
<1>1. circuit \in Seq(Command)
  BY CircuitsAssumption DEF Init
<1>2. SweepInOrder
  BY DepthZero DEF Init, SweepInOrder
<1> QED
  BY <1>1, <1>2 DEF Init, IInv, TypeOK, MapsFollowTheState, OperandsCurrent

\* A refusal leaves everything but the outcome alone.
LEMMA RefuseKeeps == IInv /\ outcome # "done" /\ Refuse => IInv'
<1> SUFFICES ASSUME IInv, Refuse PROVE IInv'
  OBVIOUS
<1> USE DEF Refuse, call, placement
<1>1. TypeOK'
  BY DEF IInv, TypeOK
<1> QED
  BY <1>1 DEF IInv, MapsFollowTheState, OperandsCurrent, SweepInOrder

LEMMA PlaceKeeps == IInv /\ Place => IInv'
<1> SUFFICES ASSUME IInv, Place PROVE IInv'
  OBVIOUS
<1>1. InverseMap(Wanted) \in Placements /\ Wanted \in Placements
  BY InverseIsPlacement DEF Place
<1>2. TypeOK'
  BY <1>1 DEF IInv, TypeOK, Place, call, Maps, Placements
<1>3. MapsFollowTheState'
  BY <1>1, InverseIsPlacement DEF Place, MapsFollowTheState
<1>4. OperandsCurrent' /\ SweepInOrder'
  BY DEF IInv, TypeOK, SweepInOrder, OperandsCurrent, Place, call
<1> QED
  BY <1>2, <1>3, <1>4 DEF IInv

\* The command being routed, when there is one.
LEMMA CommandAtPos ==
  ASSUME IInv, outcome = "routing", pos =< Len(circuit)
  PROVE  /\ pos \in 1 .. Len(circuit) /\ cmd \in Command
         /\ cmd.qubits \in Seq(Nat)
  BY DEF IInv, TypeOK, cmd, Command

\* Emitting a command on wires that sit in the device.
LEMMA EmitKeeps ==
  ASSUME IInv, outcome = "routing", pos =< Len(circuit), NEW w \in Seq(Qubits), Emit(w),
         at' = <<>>, depth' = Depth(circuit, pos), depth' \in Int
  PROVE  IInv'
<1> USE DEF Emit, call, placement
<1>1. [k \in DOMAIN w |-> carried[w[k]]] \in Seq(Qubits)
  BY DEF IInv, TypeOK, Maps
<1>2. TypeOK'
  BY <1>1 DEF IInv, TypeOK
<1>3. MapsFollowTheState' /\ OperandsCurrent'
  BY DEF IInv, MapsFollowTheState, OperandsCurrent
<1>4. SweepInOrder'
  BY DEF IInv, TypeOK, SweepInOrder
<1> QED
  BY <1>2, <1>3, <1>4 DEF IInv

LEMMA EmitNarrowKeeps == IInv /\ EmitNarrow => IInv'
<1> SUFFICES ASSUME IInv, EmitNarrow PROVE IInv'
  OBVIOUS
<1> DEFINE w == [k \in DOMAIN cmd.qubits |-> l2p[cmd.qubits[k]]]
<1>1. cmd.qubits \in Seq(Nat) /\ pos \in 1 .. Len(circuit)
  BY CommandAtPos DEF EmitNarrow, Fetching
<1>2. w \in Seq(Qubits)
  <2>1. l2p \in [Qubits -> Qubits]
    BY DEF IInv, TypeOK, Maps, EmitNarrow, Fetching
  <2>2. \A k \in DOMAIN cmd.qubits : cmd.qubits[k] \in Qubits
    BY DEF EmitNarrow, InRange, Operands
  <2>3. DOMAIN cmd.qubits = 1 .. Len(cmd.qubits) /\ Len(cmd.qubits) \in Nat
    BY <1>1
  <2>4. w \in [1 .. Len(cmd.qubits) -> Qubits]
    BY <2>1, <2>2, <2>3
  <2> HIDE DEF w
  <2> QED
    BY <2>3, <2>4
<1>3. depth' = Depth(circuit, pos) /\ depth' \in Int
  BY <1>1, DepthFollows DEF IInv, TypeOK, SweepInOrder, EmitNarrow, Fetching, NewDepth
<1> QED
  BY <1>1, <1>2, <1>3, EmitKeeps DEF EmitNarrow, Fetching

\* A command with two qubits opens and closes nothing.
LEMMA PairDepth ==
  ASSUME IInv, outcome = "routing", pos =< Len(circuit), Len(cmd.qubits) = 2
  PROVE  NewDepth = depth /\ depth = Depth(circuit, pos)
<1>1. cmd \in Command /\ pos \in 1 .. Len(circuit)
  BY CommandAtPos
<1>2. cmd.qubits # <<>>
  <2> SUFFICES ASSUME cmd.qubits = <<>> PROVE FALSE
    OBVIOUS
  <2>1. Len(<<>>) = 2
    OBVIOUS
  <2>2. Len(<<>>) = 0
    OBVIOUS
  <2> QED
    BY <2>1, <2>2
<1>3. cmd.gate \notin {"BranchBegin", "BranchEnd"}
  BY <1>1, <1>2 DEF Command, Markers
<1> QED
  BY <1>1, <1>3, DepthFollows DEF IInv, TypeOK, SweepInOrder, NewDepth

LEMMA FetchPairKeeps == IInv /\ FetchPair => IInv'
<1> SUFFICES ASSUME IInv, FetchPair PROVE IInv'
  OBVIOUS
<1> USE DEF FetchPair, Fetching, call, placement
<1>1. cmd.qubits \in Seq(Nat) /\ pos \in 1 .. Len(circuit) /\ depth' = depth
  BY CommandAtPos, PairDepth
<1>2. cmd.qubits[1] \in Qubits /\ cmd.qubits[2] \in Qubits
  BY <1>1 DEF InRange, Operands
<1>3. TypeOK'
  BY <1>1, <1>2 DEF IInv, TypeOK, Maps
<1>4. MapsFollowTheState' /\ SweepInOrder'
  BY <1>1 DEF IInv, MapsFollowTheState, SweepInOrder
<1>5. OperandsCurrent'
  BY DEF OperandsCurrent, InRange, cmd
<1> QED
  BY <1>3, <1>4, <1>5 DEF IInv

\* The gate being placed, and the wires of its two operands.
LEMMA PairAtWires ==
  ASSUME IInv, Placing
  PROVE  /\ pos \in 1 .. Len(circuit) /\ Len(cmd.qubits) = 2 /\ cmd.qubits \in Seq(Nat)
         /\ cmd.qubits[1] \in Qubits /\ cmd.qubits[2] \in Qubits
         /\ at = <<l2p[cmd.qubits[1]], l2p[cmd.qubits[2]]>>
         /\ at \in Seq(Qubits) /\ Len(at) = 2 /\ at[1] \in Qubits /\ at[2] \in Qubits
<1>1. pos =< Len(circuit) /\ Len(cmd.qubits) = 2 /\ Operands(cmd) \subseteq Qubits
      /\ at = <<l2p[cmd.qubits[1]], l2p[cmd.qubits[2]]>>
  BY DEF IInv, OperandsCurrent, Placing
<1>2. pos \in 1 .. Len(circuit) /\ cmd.qubits \in Seq(Nat)
  BY <1>1, CommandAtPos DEF Placing
<1>3. cmd.qubits[1] \in Qubits /\ cmd.qubits[2] \in Qubits
  BY <1>1, <1>2 DEF Operands
<1> QED
  BY <1>1, <1>2, <1>3 DEF IInv, TypeOK, Maps, Placing

LEMMA EmitPairKeeps == IInv /\ (EmitAsIs \/ EmitFlipped) => IInv'
<1> SUFFICES ASSUME IInv, EmitAsIs \/ EmitFlipped PROVE IInv'
  OBVIOUS
<1>1. Placing /\ Emit(at) /\ at' = <<>> /\ depth' = depth
  BY DEF EmitAsIs, EmitFlipped
<1>2. depth' = Depth(circuit, pos) /\ depth' \in Int
  BY <1>1, PairAtWires, PairDepth DEF Placing, IInv, TypeOK
<1> QED
  BY <1>1, <1>2, PairAtWires, EmitKeeps DEF Placing

LEMMA StepSwapKeeps == IInv /\ StepSwap => IInv'
<1> SUFFICES ASSUME IInv, StepSwap PROVE IInv'
  OBVIOUS
<1> USE DEF StepSwap, Stuck, Placing, call, placement
<1>1. PICK b \in Qubits : IsNextHop(b, at[1], at[2]) /\ Exchange(at[1], b)
  OBVIOUS
<1> DEFINE a == at[1]
           q == cmd.qubits[1]
           r == cmd.qubits[2]
<1>2. /\ q \in Qubits /\ r \in Qubits /\ a \in Qubits /\ at[2] \in Qubits
      /\ a = l2p[q] /\ at[2] = l2p[r]
  BY PairAtWires
<1>3. a # b /\ b # at[2] /\ a # at[2]
  BY <1>1, <1>2 DEF IsNextHop, Closer, Neighbours, NeedsSwaps, IsConnected
<1>4. l2p \in Maps /\ p2l \in Maps /\ carried \in Maps
  BY DEF IInv, TypeOK
<1>5. /\ \A l \in Qubits : p2l[l2p[l]] = l
      /\ \A p \in Qubits : l2p[p2l[p]] = p
      /\ p2l = carried
  BY DEF IInv, MapsFollowTheState
<1>6. /\ l2p' = [l2p EXCEPT ![p2l[a]] = b, ![p2l[b]] = a]
      /\ p2l' = [p2l EXCEPT ![a] = p2l[b], ![b] = p2l[a]]
      /\ carried' = [carried EXCEPT ![a] = carried[b], ![b] = carried[a]]
      /\ at' = <<b, at[2]>>
  BY <1>1 DEF Exchange
<1>7. TypeOK'
  BY <1>2, <1>4, <1>6 DEF IInv, TypeOK, Maps
<1>8. p2l' = carried'
  BY <1>5, <1>6
<1>9. \A l \in Qubits : p2l'[l2p'[l]] = l
  BY <1>2, <1>3, <1>4, <1>5, <1>6 DEF Maps
<1>10. \A p \in Qubits : l2p'[p2l'[p]] = p
  BY <1>2, <1>3, <1>4, <1>5, <1>6 DEF Maps
<1>11. l2p'[q] = b /\ l2p'[r] = at[2]
  <2>1. p2l[a] = q /\ p2l[b] # q
    BY <1>2, <1>3, <1>5
  <2>2. r # q /\ r # p2l[b]
    BY <1>2, <1>3, <1>5
  <2>3. l2p' = [l2p EXCEPT ![q] = b, ![p2l[b]] = a]
    BY <1>6, <2>1
  <2> QED
    BY <1>2, <1>4, <2>1, <2>2, <2>3 DEF Maps
<1>12. OperandsCurrent'
  BY <1>2, <1>6, <1>11 DEF IInv, OperandsCurrent, cmd
<1>13. SweepInOrder'
  BY DEF IInv, SweepInOrder
<1> QED
  BY <1>7, <1>8, <1>9, <1>10, <1>12, <1>13 DEF IInv, MapsFollowTheState

LEMMA FinishKeeps == IInv /\ Finish => IInv'
<1> SUFFICES ASSUME IInv, Finish PROVE IInv'
  OBVIOUS
<1> USE DEF Finish, call, placement
<1>1. TypeOK'
  BY DEF IInv, TypeOK
<1> QED
  BY <1>1 DEF IInv, TypeOK, MapsFollowTheState, OperandsCurrent, SweepInOrder

THEOREM StepInvariant == IInv /\ [Next]_vars => IInv'
<1> SUFFICES ASSUME IInv, [Next]_vars PROVE IInv'
  OBVIOUS
<1>1. CASE UNCHANGED vars
  <2>1. TypeOK'
    BY <1>1 DEF vars, call, placement, IInv, TypeOK
  <2> QED
    BY <1>1, <2>1 DEF vars, call, placement, IInv, MapsFollowTheState, OperandsCurrent,
                      SweepInOrder, cmd
<1>2. CASE Place
  BY <1>2, PlaceKeeps
<1>3. CASE EmitNarrow
  BY <1>3, EmitNarrowKeeps
<1>4. CASE FetchPair
  BY <1>4, FetchPairKeeps
<1>5. CASE EmitAsIs \/ EmitFlipped
  BY <1>5, EmitPairKeeps
<1>6. CASE StepSwap
  BY <1>6, StepSwapKeeps
<1>7. CASE Finish
  BY <1>7, FinishKeeps
<1>8. CASE RejectMapping \/ RejectRange \/ RejectWide \/ RejectDirection
             \/ RejectConditional \/ RejectInBranch \/ RejectDisconnected
  <2>1. Refuse /\ outcome # "done"
    BY <1>8 DEF RejectMapping, RejectRange, RejectWide, RejectDirection, RejectConditional,
                RejectInBranch, RejectDisconnected, Fetching, Stuck, Placing
  <2> QED
    BY <2>1, RefuseKeeps
<1> QED
  BY <1>1, <1>2, <1>3, <1>4, <1>5, <1>6, <1>7, <1>8 DEF Next, Route, Stopped

THEOREM Invariant == Spec => []IInv
  BY InitInvariant, StepInvariant, PTL DEF Spec

\* The variables keep their types.
THEOREM TypeCorrect == Spec => []TypeOK
BY Invariant, PTL DEF IInv

\* The mapping arrays are inverse to each other and describe what the wires
\* carry, after any number of SWAPs.
THEOREM MapsAreHonest == Spec => []MapsFollowTheState
BY Invariant, PTL DEF IInv

\* A gate is placed from the wires its operands occupy now.
THEOREM OperandsAreCurrent == Spec => []OperandsCurrent
BY Invariant, PTL DEF IInv

\* The sweep drops, repeats and reorders nothing, and counts branches right.
THEOREM SweepKeepsOrder == Spec => []SweepInOrder
BY Invariant, PTL DEF IInv

\* Reindexing by the reported map undoes the routing, for every value the
\* logical qubits hold.
THEOREM ReindexIsRight == Spec => []ReindexRecovers
<1>1. IInv => ReindexRecovers
  <2> SUFFICES ASSUME IInv, outcome = "done", NEW v \in [Qubits -> {0, 1}]
               PROVE  Reindexed([p \in Qubits |-> v[carried[p]]], finalMap) = v
    BY DEF ReindexRecovers
  <2>1. /\ finalMap \in [Qubits -> Qubits]
        /\ \A l \in Qubits : carried[finalMap[l]] = l
    BY DEF IInv, TypeOK, Maps, MapsFollowTheState, SweepInOrder
  <2> QED
    BY <2>1 DEF Reindexed
<1> QED
  BY <1>1, Invariant, PTL

-----------------------------------------------------------------------------
(* The router implements Routing.                                          *)

\* The commands that have run are those before pos.
LEMMA DoneBeforePos ==
  ASSUME IInv, outcome # "refused"
  PROVE  Contract!Done = 1 .. pos - 1
<1>1. /\ pos \in Nat \ {0} /\ Len(ran) = pos - 1 /\ DOMAIN ran = 1 .. Len(ran)
      /\ \A k \in DOMAIN ran : ran[k].cmd = k
  BY DEF IInv, TypeOK, SweepInOrder
<1>2. {ran[k].cmd : k \in DOMAIN ran} = DOMAIN ran
  BY <1>1
<1> QED
  BY <1>1, <1>2 DEF Contract!Done

\* Emitting the command at pos on wires that carry its operands runs it.
LEMMA EmitRuns ==
  ASSUME IInv, outcome = "routing", pos \in 1 .. Len(circuit),
         cmd.qubits \in Seq(Nat), Len(cmd.qubits) =< 2,
         NEW w \in [DOMAIN cmd.qubits -> Qubits], Emit(w),
         \A k \in DOMAIN cmd.qubits : carried[w[k]] = cmd.qubits[k],
         Len(cmd.qubits) = 2 => \/ RunsAsIs(cmd.gate, w[1], w[2], directed)
                                \/ RunsFlipped(cmd.gate, w[1], w[2], directed)
  PROVE  Contract!Run(pos)
<1>1. [k \in DOMAIN w |-> carried[w[k]]] = cmd.qubits
  OBVIOUS
<1>2. ran' = Append(ran, [cmd |-> pos, on |-> circuit[pos].qubits])
  BY <1>1 DEF Emit, cmd
<1>3. pos \notin Contract!Done /\ \A j \in 1 .. pos - 1 : j \in Contract!Done
  BY DoneBeforePos
<1>4. Contract!DeviceRuns(circuit[pos], w)
  BY DEF Contract!DeviceRuns, Contract!RunsAsIs, Contract!RunsFlipped, RunsAsIs, RunsFlipped,
         Contract!IsConnected, IsConnected, Contract!HasDirectedEdge, HasDirectedEdge,
         Contract!IsAsymmetric, IsAsymmetric, cmd
<1> QED
  BY <1>2, <1>3, <1>4 DEF Contract!Run, Contract!Qubits, Qubits, Emit, call, placement, cmd

LEMMA EmitNarrowRuns == IInv /\ EmitNarrow => Contract!Run(pos)
<1> SUFFICES ASSUME IInv, EmitNarrow PROVE Contract!Run(pos)
  OBVIOUS
<1> DEFINE w == [k \in DOMAIN cmd.qubits |-> l2p[cmd.qubits[k]]]
<1>1. cmd.qubits \in Seq(Nat) /\ pos \in 1 .. Len(circuit) /\ Len(cmd.qubits) < 2
      /\ outcome = "routing" /\ Emit(w)
  BY CommandAtPos DEF EmitNarrow, Fetching
<1>2. \A k \in DOMAIN cmd.qubits : cmd.qubits[k] \in Qubits
  BY DEF EmitNarrow, InRange, Operands
<1>3. w \in [DOMAIN cmd.qubits -> Qubits]
  BY <1>1, <1>2 DEF IInv, TypeOK, Maps
<1>4. \A k \in DOMAIN cmd.qubits : carried[w[k]] = cmd.qubits[k]
  BY <1>1, <1>2 DEF IInv, MapsFollowTheState
<1>5. Len(cmd.qubits) =< 2 /\ Len(cmd.qubits) # 2
  BY <1>1
<1> HIDE DEF w
<1> QED
  BY <1>1, <1>3, <1>4, <1>5, EmitRuns

LEMMA EmitPairRuns == IInv /\ (EmitAsIs \/ EmitFlipped) => Contract!Run(pos)
<1> SUFFICES ASSUME IInv, EmitAsIs \/ EmitFlipped PROVE Contract!Run(pos)
  OBVIOUS
<1>1. /\ Placing /\ Emit(at)
      /\ \/ RunsAsIs(cmd.gate, at[1], at[2], directed)
         \/ RunsFlipped(cmd.gate, at[1], at[2], directed)
  BY DEF EmitAsIs, EmitFlipped
<1>2. /\ pos \in 1 .. Len(circuit) /\ Len(cmd.qubits) = 2 /\ cmd.qubits \in Seq(Nat)
      /\ cmd.qubits[1] \in Qubits /\ cmd.qubits[2] \in Qubits
      /\ at = <<l2p[cmd.qubits[1]], l2p[cmd.qubits[2]]>>
      /\ at \in Seq(Qubits) /\ Len(at) = 2 /\ outcome = "routing"
  BY <1>1, PairAtWires DEF Placing
<1>3. DOMAIN cmd.qubits = {1, 2} /\ DOMAIN at = {1, 2}
  BY <1>2
<1>4. at \in [DOMAIN cmd.qubits -> Qubits]
  BY <1>2, <1>3
<1>5. \A k \in DOMAIN cmd.qubits : carried[at[k]] = cmd.qubits[k]
  BY <1>2, <1>3 DEF IInv, MapsFollowTheState
<1>6. Len(cmd.qubits) =< 2
  BY <1>2
<1> QED
  BY <1>1, <1>2, <1>4, <1>5, <1>6, EmitRuns

LEMMA PlaceRefines == IInv /\ Place => Contract!Place
<1> SUFFICES ASSUME IInv, Place PROVE Contract!Place
  OBVIOUS
<1>1. /\ Wanted \in Placements /\ InverseMap(Wanted) \in Placements
      /\ \A l \in Qubits : InverseMap(Wanted)[Wanted[l]] = l
  BY InverseIsPlacement DEF Place
<1>2. Contract!Placements = Placements /\ Contract!Qubits = Qubits
  BY DEF Contract!Placements, Placements, Contract!Qubits, Qubits
<1> QED
  BY <1>1, <1>2 DEF Place, Contract!Place, Contract!Locates, call

\* With no branch open, no region is half emitted.
LEMMA NoRegionOpen ==
  ASSUME IInv, outcome = "routing", pos =< Len(circuit), Depth(circuit, pos - 1) =< 0
  PROVE  Contract!BetweenRegions
<1> SUFFICES ASSUME NEW i \in 1 .. pos - 1, NEW j \in (1 .. Len(circuit)) \ (1 .. pos - 1),
                    Contract!SameRegion(circuit, i, j)
             PROVE  FALSE
  BY DoneBeforePos DEF Contract!BetweenRegions
<1>1. pos \in Nat \ {0} /\ Depth(circuit, pos - 1) \in Int
  BY DEF IInv, TypeOK, SweepInOrder
<1>2. pos - 1 \in i .. j - 1
  BY <1>1
<1>3. Contract!Depth(circuit, pos - 1) = Depth(circuit, pos - 1)
  BY DEF Contract!Depth, Depth, Contract!Opened, Opened, Contract!Closed, Closed,
         Contract!Cardinality, Cardinality
<1> QED
  BY <1>1, <1>2, <1>3 DEF Contract!SameRegion

LEMMA StepSwapRefines == IInv /\ StepSwap => \E a, b \in Qubits : Contract!Swap(a, b)
<1> SUFFICES ASSUME IInv, StepSwap PROVE \E a, b \in Qubits : Contract!Swap(a, b)
  OBVIOUS
<1>1. PICK b \in Qubits : IsNextHop(b, at[1], at[2]) /\ Exchange(at[1], b)
  BY DEF StepSwap
<1>2. /\ pos \in 1 .. Len(circuit) /\ Len(cmd.qubits) = 2 /\ at[1] \in Qubits
      /\ outcome = "routing"
  BY PairAtWires DEF StepSwap, Stuck, Placing
<1>3. Depth(circuit, pos - 1) =< 0
  BY <1>2 DEF IInv, SweepInOrder, StepSwap
<1>4. Contract!BetweenRegions
  BY <1>2, <1>3, NoRegionOpen
<1>5. Contract!IsConnected(at[1], b)
  BY <1>1 DEF IsNextHop, Closer, Neighbours, IsConnected, Contract!IsConnected,
              HasDirectedEdge, Contract!HasDirectedEdge
<1>6. carried' = [carried EXCEPT ![at[1]] = carried[b], ![b] = carried[at[1]]]
  BY <1>1 DEF Exchange
<1>7. Contract!Swap(at[1], b)
  BY <1>2, <1>4, <1>5, <1>6 DEF Contract!Swap, StepSwap, call
<1> QED
  BY <1>2, <1>7

LEMMA FinishRefines == IInv /\ Finish => Contract!Finish
<1> SUFFICES ASSUME IInv, Finish PROVE Contract!Finish
  OBVIOUS
<1>1. pos = Len(circuit) + 1 /\ Len(circuit) \in Nat
  BY DEF IInv, TypeOK, SweepInOrder, Finish
<1>2. Contract!Done = 1 .. Len(circuit)
  BY <1>1, DoneBeforePos DEF Finish
<1>3. /\ l2p \in [Qubits -> Qubits] /\ p2l \in [Qubits -> Qubits]
      /\ \A l \in Qubits : p2l[l2p[l]] = l
      /\ \A p \in Qubits : l2p[p2l[p]] = p
      /\ p2l = carried
  BY DEF IInv, TypeOK, Maps, MapsFollowTheState, Finish
<1>4. \A a, b \in Qubits : l2p[a] = l2p[b] => a = b
  BY <1>3
<1>5. \A p \in Qubits : \E l \in Qubits : l2p[l] = p
  BY <1>3
<1>6. l2p \in Contract!Placements
  BY <1>3, <1>4, <1>5 DEF Contract!Placements, Contract!Qubits, Qubits
<1> QED
  BY <1>2, <1>3, <1>6 DEF Finish, Contract!Finish, Contract!Locates, Contract!Qubits, Qubits,
                          call, placement

\* Every step of the router is a step of the contract, or changes nothing in it.
THEOREM StepRefines == IInv /\ [Next]_vars => [Contract!Next]_(Contract!routingVars)
<1> SUFFICES ASSUME IInv, [Next]_vars PROVE [Contract!Next]_(Contract!routingVars)
  OBVIOUS
<1>1. CASE UNCHANGED vars \/ FetchPair
  BY <1>1 DEF vars, call, placement, FetchPair, Contract!routingVars
<1>2. CASE Place
  BY <1>2, PlaceRefines DEF Contract!Next
<1>3. CASE EmitNarrow \/ EmitAsIs \/ EmitFlipped
  <2>1. pos \in 1 .. Len(circuit)
    BY <1>3, CommandAtPos, PairAtWires DEF EmitNarrow, Fetching, EmitAsIs, EmitFlipped
  <2>2. Contract!Run(pos)
    BY <1>3, EmitNarrowRuns, EmitPairRuns
  <2> QED
    BY <2>1, <2>2 DEF Contract!Next
<1>4. CASE StepSwap
  <2>1. PICK a \in Qubits, b \in Qubits : Contract!Swap(a, b)
    BY <1>4, StepSwapRefines
  <2> QED
    BY <2>1 DEF Contract!Next, Contract!Qubits, Qubits
<1>5. CASE Finish
  BY <1>5, FinishRefines DEF Contract!Next
<1>6. CASE RejectMapping \/ RejectRange \/ RejectWide \/ RejectDirection
             \/ RejectConditional \/ RejectInBranch \/ RejectDisconnected
  <2>1. Refuse /\ outcome \in {"unplaced", "routing"}
    BY <1>6 DEF RejectMapping, RejectRange, RejectWide, RejectDirection, RejectConditional,
                RejectInBranch, RejectDisconnected, Fetching, Stuck, Placing
  <2> QED
    BY <2>1 DEF Refuse, call, placement, Contract!Refuse, Contract!Next
<1> QED
  BY <1>1, <1>2, <1>3, <1>4, <1>5, <1>6 DEF Next, Route, Stopped

\* The greedy router is a routing on every device, for every circuit.
THEOREM LiteImplementsRouting == Spec => ImplementsRouting
<1>1. Init => Contract!Init
  BY DEF Init, Contract!Init
<1> QED
  BY <1>1, Invariant, StepRefines, PTL DEF Spec, ImplementsRouting, Contract!Spec

-----------------------------------------------------------------------------
(* The passes of SABRE.  CoreProofs has the facts proved of one pass.      *)

CoreProofs == INSTANCE SabreCoreProofs WITH
  Starts <- Placements, circuit <- passCircuit, pin <- start, outcome <- passOutcome,
  l2p <- passL2p, p2l <- passP2l, carried <- passCarried, ran <- passRan,
  initialMap <- passInitialMap, finalMap <- passFinalMap

\* The call passed what Place checks, for some layout.
Routable ==
  WellFormed(circuit) /\ \A i \in DOMAIN circuit : Operands(circuit[i]) \subseteq Qubits

\* Each pass has the stream of its kind, and a pass is under way only in SABRE.
PassesInOrder ==
  /\ stage \in {"called", "sabre", "lite", "returned", "thrown"}
  /\ leg \in {"between", "single", "forward", "reverse", "scored"}
  /\ leg # "between" => stage = "sabre"
  /\ stage = "sabre" => router = "Sabre"
  /\ leg = "between" => passOutcome = "unplaced"
  /\ passCircuit = IF leg = "reverse" THEN Reversed(circuit) ELSE circuit

\* Only a single pass and the first pass of all may be refused their layout.
LaterPassesAccepted ==
  stage = "sabre" =>
    \/ leg \in {"single", "forward"} /\ result = <<>>
    \/ /\ Routable /\ leg # "single"
       /\ leg # "between" \/ round < Rounds => start \in Placements

\* What is kept at which point of the call.
KeptInTime ==
  /\ stage \in {"called", "thrown"} => result = <<>>
  /\ stage = "lite" => (result = <<>> <=> router = "Lite")
  /\ stage = "returned" => result # <<>>

KeptExact ==
  result # <<>> => \A l \in Qubits : result.origin[result.finalMap[l]] = result.initialMap[l]

CallInv ==
  /\ IInv /\ CoreProofs!IInv
  /\ PassesInOrder /\ LaterPassesAccepted /\ KeptInTime /\ KeptExact

\* The core the call runs is the one SabreCoreProofs is about.
LEMMA SameCore ==
  /\ Core!Route <=> CoreProofs!Route
  /\ Core!TypeOK <=> CoreProofs!TypeOK
  /\ Core!ReadyIsFrontier <=> CoreProofs!ReadyIsFrontier
  /\ Core!MapsFollowTheState <=> CoreProofs!MapsFollowTheState
<1> USE DEF Core!Ball, CoreProofs!Ball, Core!Cardinality, CoreProofs!Cardinality,
            Core!CbitWires, CoreProofs!CbitWires, Core!Closed, CoreProofs!Closed, Core!Closer,
            CoreProofs!Closer, Core!Command, CoreProofs!Command, Core!Depth, CoreProofs!Depth,
            Core!Disconnected, CoreProofs!Disconnected, Core!Distance, CoreProofs!Distance,
            Core!Done, CoreProofs!Done, Core!Emit, CoreProofs!Emit, Core!FrontStuck,
            CoreProofs!FrontStuck, Core!FrontWires, CoreProofs!FrontWires, Core!GlobalWire,
            CoreProofs!GlobalWire, Core!HasDirectedEdge, CoreProofs!HasDirectedEdge,
            Core!HasPrev, CoreProofs!HasPrev, Core!Indegrees, CoreProofs!Indegrees,
            Core!InsideRegion, CoreProofs!InsideRegion, Core!InverseMap, CoreProofs!InverseMap,
            Core!IsAsymmetric, CoreProofs!IsAsymmetric, Core!IsConnected,
            CoreProofs!IsConnected, Core!IsFence, CoreProofs!IsFence, Core!IsFiniteSet,
            CoreProofs!IsFiniteSet, Core!IsFirst, CoreProofs!IsFirst, Core!IsNext,
            CoreProofs!IsNext, Core!IsNextHop, CoreProofs!IsNextHop, Core!IsPair,
            CoreProofs!IsPair, Core!IsRegion, CoreProofs!IsRegion, Core!Links, CoreProofs!Links,
            Core!MarkDone, CoreProofs!MarkDone, Core!Markers, CoreProofs!Markers,
            Core!NeedsSwaps, CoreProofs!NeedsSwaps, Core!Neighbours, CoreProofs!Neighbours,
            Core!NodeEnd, CoreProofs!NodeEnd, Core!Nodes, CoreProofs!Nodes, Core!OnWire,
            CoreProofs!OnWire, Core!Opened, CoreProofs!Opened, Core!Operands,
            CoreProofs!Operands, Core!Placements, CoreProofs!Placements, Core!QubitWires,
            CoreProofs!QubitWires, Core!Qubits, CoreProofs!Qubits, Core!Refuse,
            CoreProofs!Refuse, Core!RegionNode, CoreProofs!RegionNode, Core!Routing,
            CoreProofs!Routing, Core!Runs, CoreProofs!Runs, Core!RunsAsIs, CoreProofs!RunsAsIs,
            Core!RunsFlipped, CoreProofs!RunsFlipped, Core!Stuck, CoreProofs!Stuck,
            Core!SwapAndUpdate, CoreProofs!SwapAndUpdate, Core!Swappable, CoreProofs!Swappable,
            Core!WellFormed, CoreProofs!WellFormed, Core!WireOf, CoreProofs!WireOf, Core!Wires,
            CoreProofs!Wires, Core!call, CoreProofs!call, Core!kahn, CoreProofs!kahn, Core!maps,
            CoreProofs!maps, Core!placement, CoreProofs!placement
<1>1. Core!RejectCall <=> CoreProofs!RejectCall
  BY DEF Core!RejectCall, CoreProofs!RejectCall
<1>2. Core!Place <=> CoreProofs!Place
  BY DEF Core!Place, CoreProofs!Place
<1>3. Core!RejectNode <=> CoreProofs!RejectNode
  BY DEF Core!RejectNode, CoreProofs!RejectNode
<1>4. Core!EmitNode <=> CoreProofs!EmitNode
  BY DEF Core!EmitNode, CoreProofs!EmitNode
<1>5. Core!EnterRegion <=> CoreProofs!EnterRegion
  BY DEF Core!EnterRegion, CoreProofs!EnterRegion
<1>6. Core!RejectInRegion <=> CoreProofs!RejectInRegion
  BY DEF Core!RejectInRegion, CoreProofs!RejectInRegion
<1>7. Core!EmitInRegion <=> CoreProofs!EmitInRegion
  BY DEF Core!EmitInRegion, CoreProofs!EmitInRegion
<1>8. Core!RejectConditional <=> CoreProofs!RejectConditional
  BY DEF Core!RejectConditional, CoreProofs!RejectConditional
<1>9. Core!HeuristicSwap <=> CoreProofs!HeuristicSwap
  BY DEF Core!HeuristicSwap, CoreProofs!HeuristicSwap
<1>10. Core!ForcedSwap <=> CoreProofs!ForcedSwap
  BY DEF Core!ForcedSwap, CoreProofs!ForcedSwap
<1>11. Core!Finish <=> CoreProofs!Finish
  BY DEF Core!Finish, CoreProofs!Finish
<1>12. Core!TypeOK <=> CoreProofs!TypeOK
  BY DEF Core!TypeOK, CoreProofs!TypeOK
<1>13. Core!ReadyIsFrontier <=> CoreProofs!ReadyIsFrontier
  BY DEF Core!ReadyIsFrontier, CoreProofs!ReadyIsFrontier
<1>14. Core!MapsFollowTheState <=> CoreProofs!MapsFollowTheState
  BY DEF Core!MapsFollowTheState, CoreProofs!MapsFollowTheState
<1> QED
  BY <1>1, <1>2, <1>3, <1>4, <1>5, <1>6, <1>7, <1>8, <1>9, <1>10, <1>11, <1>12, <1>13, <1>14
  DEF Core!Route, CoreProofs!Route

\* So is the contract of its passes.
LEMMA SameContract == Core!Contract!Next <=> CoreProofs!Contract!Next
<1> USE DEF Core!Contract!BetweenRegions, CoreProofs!Contract!BetweenRegions,
            Core!Contract!Cardinality, CoreProofs!Contract!Cardinality, Core!Contract!Closed,
            CoreProofs!Contract!Closed, Core!Contract!Depth, CoreProofs!Contract!Depth,
            Core!Contract!DeviceRuns, CoreProofs!Contract!DeviceRuns, Core!Contract!Done,
            CoreProofs!Contract!Done, Core!Contract!HasDirectedEdge,
            CoreProofs!Contract!HasDirectedEdge, Core!Contract!InRegion,
            CoreProofs!Contract!InRegion, Core!Contract!IsAsymmetric,
            CoreProofs!Contract!IsAsymmetric, Core!Contract!IsConnected,
            CoreProofs!Contract!IsConnected, Core!Contract!IsFence, CoreProofs!Contract!IsFence,
            Core!Contract!Locates, CoreProofs!Contract!Locates, Core!Contract!Opened,
            CoreProofs!Contract!Opened, Core!Contract!Operands, CoreProofs!Contract!Operands,
            Core!Contract!Ordered, CoreProofs!Contract!Ordered, Core!Contract!Placements,
            CoreProofs!Contract!Placements, Core!Contract!Qubits, CoreProofs!Contract!Qubits,
            Core!Contract!RunsAsIs, CoreProofs!Contract!RunsAsIs, Core!Contract!RunsFlipped,
            CoreProofs!Contract!RunsFlipped, Core!Contract!SameRegion,
            CoreProofs!Contract!SameRegion, Core!Contract!UsesRegister,
            CoreProofs!Contract!UsesRegister
<1>1. Core!Contract!Place <=> CoreProofs!Contract!Place
  BY DEF Core!Contract!Place, CoreProofs!Contract!Place
<1>2. Core!Contract!Finish <=> CoreProofs!Contract!Finish
  BY DEF Core!Contract!Finish, CoreProofs!Contract!Finish
<1>3. Core!Contract!Refuse <=> CoreProofs!Contract!Refuse
  BY DEF Core!Contract!Refuse, CoreProofs!Contract!Refuse
<1>4. \A i : Core!Contract!Run(i) <=> CoreProofs!Contract!Run(i)
  BY DEF Core!Contract!Run, CoreProofs!Contract!Run
<1>5. \A a, b : Core!Contract!Swap(a, b) <=> CoreProofs!Contract!Swap(a, b)
  BY DEF Core!Contract!Swap, CoreProofs!Contract!Swap
<1> QED
  BY <1>1, <1>2, <1>3, <1>4, <1>5 DEF Core!Contract!Next, CoreProofs!Contract!Next

\* Streams and layouts mean the same to it.
LEMMA SameWords ==
  /\ CoreProofs!Command = Command /\ CoreProofs!Qubits = Qubits
  /\ CoreProofs!Placements = Placements
  /\ \A s : CoreProofs!WellFormed(s) <=> WellFormed(s)
  /\ \A c : CoreProofs!Operands(c) = Operands(c)
<1>1. CoreProofs!Command = Command
  BY DEF CoreProofs!Command, Command, CoreProofs!Markers, Markers, CoreProofs!IsFiniteSet,
         IsFiniteSet
<1>2. CoreProofs!Qubits = Qubits /\ \A c : CoreProofs!Operands(c) = Operands(c)
  BY DEF CoreProofs!Qubits, Qubits, CoreProofs!Operands, Operands
<1>3. CoreProofs!Placements = Placements
  BY <1>2 DEF CoreProofs!Placements, Placements
<1>4. \A s, i : CoreProofs!Depth(s, i) = Depth(s, i)
  BY DEF CoreProofs!Depth, Depth, CoreProofs!Opened, Opened, CoreProofs!Closed, Closed,
         CoreProofs!Cardinality, Cardinality
<1>5. \A s : CoreProofs!WellFormed(s) <=> WellFormed(s)
  BY <1>4 DEF CoreProofs!WellFormed, WellFormed
<1> QED
  BY <1>1, <1>2, <1>3, <1>5

\* A pass that has its layout has a checked call, and ends with an honest map.
LEMMA PassKnows ==
  ASSUME CallInv
  PROVE  /\ circuit \in Seq(Command) /\ directed \in BOOLEAN
         /\ passOutcome = "done" \/ passInitialMap # NoMap =>
              /\ start \in Placements /\ WellFormed(passCircuit)
              /\ \A i \in DOMAIN passCircuit : Operands(passCircuit[i]) \subseteq Qubits
         /\ passOutcome = "done" =>
              /\ passFinalMap = passL2p /\ passL2p \in Placements
              /\ passCarried \in Placements
              /\ \A l \in Qubits : passCarried[passL2p[l]] = l
<1>1. circuit \in Seq(Command) /\ directed \in BOOLEAN
  BY DEF CallInv, IInv, TypeOK
<1>2. CoreProofs!TypeOK /\ CoreProofs!MapsFollowTheState /\ CoreProofs!CallChecked
  BY DEF CallInv, CoreProofs!IInv
<1>3. passOutcome = "done" \/ passInitialMap # NoMap =>
        /\ start \in Placements /\ WellFormed(passCircuit)
        /\ \A i \in DOMAIN passCircuit : Operands(passCircuit[i]) \subseteq Qubits
  BY <1>2, SameWords DEF CoreProofs!CallChecked, CoreProofs!Admissible, CoreProofs!Underway
<1>4. passOutcome = "done" =>
        /\ passFinalMap = passL2p /\ passL2p \in Placements /\ passCarried \in Placements
        /\ \A l \in Qubits : passCarried[passL2p[l]] = l
  BY <1>2, SameWords DEF CoreProofs!TypeOK, CoreProofs!CallChecked,
                         CoreProofs!MapsFollowTheState
<1> QED
  BY <1>1, <1>3, <1>4

\* The reversed circuit passes the checks its circuit passes.
LEMMA ReversedRoutable ==
  ASSUME circuit \in Seq(Command), Routable
  PROVE  /\ Reversed(circuit) \in Seq(Command) /\ WellFormed(Reversed(circuit))
         /\ \A k \in DOMAIN Reversed(circuit) : Operands(Reversed(circuit)[k]) \subseteq Qubits
<1>1. WellFormed(circuit)
  BY DEF Routable
<1>2. /\ Reversed(circuit) \in Seq(Command) /\ Len(Reversed(circuit)) = Len(circuit)
      /\ \A k \in 1 .. Len(circuit) : Reversed(circuit)[k] = circuit[ReversedFrom(circuit, k)]
      /\ \A k \in 1 .. Len(circuit) : ReversedFrom(circuit, k) \in 1 .. Len(circuit)
  BY <1>1, ReversedDepth, ReversedFromStep
<1>3. DOMAIN Reversed(circuit) = 1 .. Len(circuit) /\ DOMAIN circuit = 1 .. Len(circuit)
  BY <1>2
<1> QED
  BY <1>1, <1>2, <1>3, ReversedWellFormed DEF Routable

\* What is refused before it has a layout was not admissible.
LEMMA OnlyFirstRefused ==
  ASSUME CallInv, PassFailed, passInitialMap = NoMap
  PROVE  result = <<>>
<1>1. stage = "sabre" /\ passOutcome = "refused"
  BY DEF PassFailed
<1>2. CASE leg \in {"single", "forward"} /\ result = <<>>
  BY <1>2
<1>3. CASE Routable /\ leg # "single" /\ (leg # "between" => start \in Placements)
  <2>1. circuit \in Seq(Command) /\ passCircuit = IF leg = "reverse" THEN Reversed(circuit)
                                                                     ELSE circuit
    BY PassKnows DEF CallInv, PassesInOrder
  <2>2. WellFormed(passCircuit)
        /\ \A i \in DOMAIN passCircuit : Operands(passCircuit[i]) \subseteq Qubits
    BY <1>3, <2>1, ReversedRoutable DEF Routable
  <2>3. CoreProofs!CallChecked
    BY DEF CallInv, CoreProofs!IInv
  <2>4. CASE leg # "between"
    <3>1. CoreProofs!Admissible
      BY <1>3, <2>2, <2>4, SameWords DEF CoreProofs!Admissible
    <3>2. start = NoMap /\ start \in Placements
      BY <1>1, <1>3, <2>3, <2>4, <3>1 DEF CoreProofs!CallChecked
    <3> QED
      BY <3>2, RouteCallAssumption
  <2> QED
    BY <1>1, <2>4 DEF CallInv, PassesInOrder
<1> QED
  BY <1>1, <1>2, <1>3 DEF CallInv, LaterPassesAccepted

-----------------------------------------------------------------------------
(* The invariant of the call.                                              *)

\* A step that leaves Lite alone keeps Lite's invariant.
LEMMA LiteUntouched == CallInv /\ UNCHANGED lite => IInv'
  BY StepInvariant DEF CallInv, lite

\* A new pass starts from nothing.
LEMMA NewPassKeeps ==
  ASSUME CallInv, NEW l, NEW m, NewPass(l, m), UNCHANGED lite, l = "reverse" => Routable
  PROVE  /\ CoreProofs!IInv'
         /\ passCircuit' = IF leg' = "reverse" THEN Reversed(circuit') ELSE circuit'
         /\ passOutcome' = "unplaced" /\ leg' = l /\ start' = m
<1>1. circuit' = circuit /\ directed' = directed
  BY DEF lite, vars, call
<1>2. passCircuit' \in Seq(Command) /\ directed' \in BOOLEAN
  BY <1>1, PassKnows, ReversedRoutable DEF NewPass
<1>3. CoreProofs!TypeOK'
  BY <1>2, SameWords, RouteCallAssumption DEF CoreProofs!TypeOK, NewPass
<1>4. CoreProofs!CallChecked'
  BY DEF CoreProofs!CallChecked, CoreProofs!Underway, NewPass
<1>5. CoreProofs!IInv'
  BY <1>3, <1>4 DEF CoreProofs!IInv, CoreProofs!MapsFollowTheState, CoreProofs!CountsExact,
                    CoreProofs!EmittedByNode, CoreProofs!Underway, NewPass
<1> QED
  BY <1>1, <1>5 DEF NewPass

\* A step that leaves the pass alone keeps its invariant.
LEMMA PassUntouched ==
  ASSUME CallInv, UNCHANGED <<pass, start, directed>>
  PROVE  CoreProofs!IInv'
<1>1. UNCHANGED CoreProofs!vars
  BY DEF CoreProofs!vars, CoreProofs!call, CoreProofs!placement, CoreProofs!kahn,
         CoreProofs!maps, pass
<1>2. [CoreProofs!Next]_(CoreProofs!vars)
  BY <1>1
<1>3. CoreProofs!IInv /\ StallBound \in Nat
  BY RouteCallAssumption DEF CallInv
<1>4. NQubits \in Nat \ {0} /\ Edges \subseteq CoreProofs!Qubits \X CoreProofs!Qubits
  BY SameWords
<1> QED
  BY <1>2, <1>3, <1>4, CoreProofs!StepInvariant

LEMMA StartKeeps == CallInv /\ (StartSingle \/ StartTrials) => CallInv'
<1> SUFFICES ASSUME CallInv, StartSingle \/ StartTrials PROVE CallInv'
  OBVIOUS
<1>1. PICK l, m : l \in {"single", "forward"} /\ NewPass(l, m)
  BY DEF StartSingle, StartTrials
<1>2. /\ stage = "called" /\ stage' = "sabre" /\ router = "Sabre"
      /\ UNCHANGED lite /\ UNCHANGED router /\ UNCHANGED result
  BY DEF StartSingle, StartTrials
<1>3. l # "reverse"
  BY <1>1
<1>4. /\ CoreProofs!IInv'
      /\ passCircuit' = IF leg' = "reverse" THEN Reversed(circuit') ELSE circuit'
      /\ passOutcome' = "unplaced" /\ leg' = l /\ start' = m
  BY <1>1, <1>2, <1>3, NewPassKeeps
<1>5. IInv'
  BY <1>2, LiteUntouched
<1>6. result = <<>>
  BY <1>2 DEF CallInv, KeptInTime
<1> QED
  BY <1>1, <1>2, <1>4, <1>5, <1>6
  DEF CallInv, PassesInOrder, LaterPassesAccepted, KeptInTime, KeptExact

LEMMA PassKeeps == CallInv /\ Pass => CallInv'
<1> SUFFICES ASSUME CallInv, Pass PROVE CallInv'
  OBVIOUS
<1>1. stage = "sabre" /\ leg # "between" /\ UNCHANGED <<lite, router, stage, portfolio, result>>
  BY DEF Pass
<1>2. CoreProofs!Next
  BY SameCore DEF Pass, CoreProofs!Next
<1>3. [CoreProofs!Next]_(CoreProofs!vars)
  BY <1>2
<1>4. CoreProofs!IInv /\ StallBound \in Nat
  BY RouteCallAssumption DEF CallInv
<1>5. NQubits \in Nat \ {0} /\ Edges \subseteq CoreProofs!Qubits \X CoreProofs!Qubits
  BY SameWords
<1>6. CoreProofs!IInv'
  BY <1>3, <1>4, <1>5, CoreProofs!StepInvariant
<1>7. passCircuit' = passCircuit
  BY <1>2, <1>5, CoreProofs!CallKept DEF CoreProofs!call
<1>8. IInv' /\ circuit' = circuit
  BY <1>1, LiteUntouched DEF lite, vars, call
<1> QED
  BY <1>1, <1>6, <1>7, <1>8
  DEF CallInv, PassesInOrder, LaterPassesAccepted, KeptInTime, KeptExact, portfolio, Routable

\* A pass that is done leaves a layout for the next one, and its call is routable.
LEMMA DoneIsRoutable ==
  ASSUME CallInv, PassDone \/ passInitialMap # NoMap, leg = "forward"
  PROVE  Routable
  BY PassKnows DEF CallInv, PassesInOrder, PassDone, Routable

LEMMA NextLegKeeps == CallInv /\ (StartReverse \/ StartScored) => CallInv'
<1> SUFFICES ASSUME CallInv, StartReverse \/ StartScored PROVE CallInv'
  OBVIOUS
<1>1. PICK l \in {"reverse", "scored"} : NewPass(l, passFinalMap)
  BY DEF StartReverse, StartScored
<1>2. /\ PassDone /\ stage = "sabre" /\ leg \in {"forward", "reverse"}
      /\ UNCHANGED lite /\ UNCHANGED router /\ UNCHANGED stage /\ UNCHANGED result
  BY DEF StartReverse, StartScored, PassDone
<1>3. Routable
  BY <1>2, DoneIsRoutable DEF CallInv, LaterPassesAccepted
<1>4. /\ CoreProofs!IInv'
      /\ passCircuit' = IF leg' = "reverse" THEN Reversed(circuit') ELSE circuit'
      /\ passOutcome' = "unplaced" /\ leg' = l /\ start' = passFinalMap
  BY <1>1, <1>2, <1>3, NewPassKeeps
<1>5. IInv'
  BY <1>2, LiteUntouched
<1>6. passFinalMap \in Placements /\ circuit' = circuit
  BY <1>2, PassKnows DEF PassDone, lite, vars, call
<1> QED
  BY <1>2, <1>3, <1>4, <1>5, <1>6
  DEF CallInv, PassesInOrder, LaterPassesAccepted, KeptInTime, KeptExact, Routable

\* A pass that is done gives a result whose maps are its own.
LEMMA PassResultExact ==
  ASSUME CallInv, PassDone
  PROVE  /\ PassResult # <<>>
         /\ \A l \in Qubits :
              PassResult.origin[PassResult.finalMap[l]] = PassResult.initialMap[l]
<1>1. /\ passFinalMap = passL2p /\ passL2p \in [Qubits -> Qubits]
      /\ \A l \in Qubits : passCarried[passL2p[l]] = l
  BY PassKnows DEF PassDone, Placements
<1>2. DOMAIN PassResult # {}
  BY DEF PassResult, Routed
<1>3. DOMAIN <<>> = {}
  OBVIOUS
<1>4. PassResult # <<>>
  BY <1>2, <1>3
<1>5. \A l \in Qubits :
        PassResult.origin[PassResult.finalMap[l]] = PassResult.initialMap[l]
  BY <1>1 DEF PassResult, Routed
<1> QED
  BY <1>4, <1>5

LEMMA EndRoundKeeps == CallInv /\ EndRound => CallInv'
<1> SUFFICES ASSUME CallInv, EndRound PROVE CallInv'
  OBVIOUS
<1>1. /\ PassDone /\ stage = "sabre" /\ leg = "scored" /\ NewPass("between", start)
      /\ UNCHANGED lite /\ UNCHANGED router /\ UNCHANGED stage /\ UNCHANGED round
      /\ (result' = PassResult \/ result' = result)
  BY DEF EndRound, PassDone, KeepBest
<1>2. /\ CoreProofs!IInv'
      /\ passCircuit' = IF leg' = "reverse" THEN Reversed(circuit') ELSE circuit'
      /\ passOutcome' = "unplaced" /\ leg' = "between" /\ start' = start
  BY <1>1, NewPassKeeps
<1>3. IInv' /\ circuit' = circuit
  BY <1>1, LiteUntouched DEF lite, vars, call
<1>4. Routable /\ start \in Placements
  BY <1>1 DEF CallInv, LaterPassesAccepted
<1>5. KeptExact'
  BY <1>1, PassResultExact DEF CallInv, KeptExact
<1> QED
  BY <1>1, <1>2, <1>3, <1>4, <1>5
  DEF CallInv, PassesInOrder, LaterPassesAccepted, KeptInTime, Routable

LEMMA EndTrialKeeps == CallInv /\ EndTrial => CallInv'
<1> SUFFICES ASSUME CallInv, EndTrial PROVE CallInv'
  OBVIOUS
<1>1. /\ stage = "sabre" /\ passInitialMap # NoMap /\ leg # "single"
      /\ NewPass("between", NoMap) /\ round' = Rounds
      /\ UNCHANGED lite /\ UNCHANGED router /\ UNCHANGED stage /\ UNCHANGED result
  BY DEF EndTrial, PassFailed
<1>2. /\ CoreProofs!IInv'
      /\ passCircuit' = IF leg' = "reverse" THEN Reversed(circuit') ELSE circuit'
      /\ passOutcome' = "unplaced" /\ leg' = "between"
  BY <1>1, NewPassKeeps
<1>3. IInv' /\ circuit' = circuit
  BY <1>1, LiteUntouched DEF lite, vars, call
<1>4. Routable
  BY <1>1, DoneIsRoutable DEF CallInv, LaterPassesAccepted
<1>5. ~(round' < Rounds)
  BY <1>1, RouteCallAssumption
<1> QED
  BY <1>1, <1>2, <1>3, <1>4, <1>5
  DEF CallInv, PassesInOrder, LaterPassesAccepted, KeptInTime, KeptExact, Routable

LEMMA NextRoundKeeps == CallInv /\ (NextRound \/ NextTrial) => CallInv'
<1> SUFFICES ASSUME CallInv, NextRound \/ NextTrial PROVE CallInv'
  OBVIOUS
<1>1. /\ stage = "sabre" /\ leg = "between"
      /\ UNCHANGED lite /\ UNCHANGED router /\ UNCHANGED stage /\ UNCHANGED result
  BY DEF NextRound, NextTrial, Between
<1>2. Routable /\ (round < Rounds => start \in Placements)
  BY <1>1 DEF CallInv, LaterPassesAccepted
<1>3. PICK m \in Placements : NewPass("forward", m)
  BY <1>2, RouteCallAssumption DEF NextRound, NextTrial
<1>4. /\ CoreProofs!IInv'
      /\ passCircuit' = IF leg' = "reverse" THEN Reversed(circuit') ELSE circuit'
      /\ passOutcome' = "unplaced" /\ leg' = "forward" /\ start' = m
  BY <1>1, <1>3, NewPassKeeps
<1>5. IInv' /\ circuit' = circuit
  BY <1>1, LiteUntouched DEF lite, vars, call
<1> QED
  BY <1>1, <1>2, <1>4, <1>5
  DEF CallInv, PassesInOrder, LaterPassesAccepted, KeptInTime, KeptExact, Routable

LEMMA LeaveKeeps == CallInv /\ (FinishSingle \/ Throw \/ EndTrials) => CallInv'
<1> SUFFICES ASSUME CallInv, FinishSingle \/ Throw \/ EndTrials PROVE CallInv'
  OBVIOUS
<1>1. stage = "sabre" /\ (LeavePortfolio(PassResult) \/ LeavePortfolio(result))
  BY DEF FinishSingle, Throw, EndTrials, PassDone, PassFailed, Between
<1>2. NewPass("between", NoMap) /\ UNCHANGED lite /\ UNCHANGED router
  BY <1>1 DEF LeavePortfolio
<1>3. /\ CoreProofs!IInv'
      /\ passCircuit' = IF leg' = "reverse" THEN Reversed(circuit') ELSE circuit'
      /\ passOutcome' = "unplaced" /\ leg' = "between"
  BY <1>2, NewPassKeeps
<1>4. IInv' /\ router = "Sabre"
  BY <1>1, <1>2, LiteUntouched DEF CallInv, PassesInOrder
<1>5. /\ KeptExact'
      /\ (stage' = "thrown" /\ result' = <<>>) \/ (stage' = "lite" /\ result' # <<>>)
  <2>1. CASE FinishSingle
    <3>1. PassDone /\ stage' = "lite" /\ result' = PassResult
      BY <2>1 DEF FinishSingle, LeavePortfolio
    <3> QED
      BY <3>1, PassResultExact DEF KeptExact
  <2>2. CASE Throw
    <3>1. /\ stage' = "thrown" /\ result' = result /\ PassFailed
          /\ leg = "single" \/ passInitialMap = NoMap
      BY <2>2 DEF Throw, LeavePortfolio
    <3>2. result = <<>>
      BY <1>1, <3>1, OnlyFirstRefused DEF CallInv, LaterPassesAccepted
    <3> QED
      BY <3>1, <3>2 DEF KeptExact
  <2>3. CASE EndTrials
    <3>1. result' = result /\ stage' = IF result = <<>> THEN "thrown" ELSE "lite"
      BY <2>3 DEF EndTrials, LeavePortfolio
    <3> QED
      BY <3>1 DEF KeptExact, CallInv
  <2> QED
    BY <2>1, <2>2, <2>3
<1> QED
  BY <1>2, <1>3, <1>4, <1>5 DEF CallInv, PassesInOrder, LaterPassesAccepted, KeptInTime

\* The sweep keeps its call.
LEMMA SweepKeepsCall == Route => UNCHANGED call
  BY DEF Route, RejectMapping, Place, RejectRange, RejectWide, EmitNarrow, FetchPair, EmitAsIs,
         EmitFlipped, RejectDirection, RejectConditional, RejectInBranch, RejectDisconnected,
         StepSwap, Finish, Refuse, Emit

LEMMA LiteKeeps ==
  CallInv /\ (Dispatch \/ Sweep \/ ReturnLite \/ ReturnSabre \/ ThrowLite) => CallInv'
<1> SUFFICES ASSUME CallInv, Dispatch \/ Sweep \/ ReturnLite \/ ReturnSabre \/ ThrowLite
             PROVE  CallInv'
  OBVIOUS
<1> USE DEF Dispatch, Sweep, ReturnLite, ReturnSabre, ThrowLite
<1>1. /\ stage \in {"called", "lite"} /\ stage' # "sabre"
      /\ UNCHANGED portfolio /\ UNCHANGED pass /\ UNCHANGED router
  OBVIOUS
<1>2. IInv' /\ circuit' = circuit /\ directed' = directed
  <2>1. CASE Sweep
    BY <2>1, StepInvariant, SweepKeepsCall DEF CallInv, Next, call
  <2>2. CASE UNCHANGED lite
    BY <2>2, LiteUntouched DEF lite, vars, call
  <2> QED
    BY <2>1, <2>2
<1>3. CoreProofs!IInv'
  BY <1>1, <1>2, PassUntouched DEF portfolio
<1>4. PassesInOrder' /\ LaterPassesAccepted'
  BY <1>1, <1>2 DEF CallInv, PassesInOrder, LaterPassesAccepted, portfolio, pass
<1>5. KeptInTime' /\ KeptExact'
  <2>1. CASE ReturnLite
    <3>1. /\ finalMap = l2p /\ l2p \in [Qubits -> Qubits]
          /\ \A l \in Qubits : carried[l2p[l]] = l
      BY <2>1 DEF CallInv, IInv, TypeOK, Maps, MapsFollowTheState, SweepInOrder
    <3>2. result' = Routed(initialMap, finalMap, carried, swaps) /\ stage' = "returned"
      BY <2>1
    <3>3. DOMAIN result' # {}
      BY <3>2 DEF Routed
    <3>4. DOMAIN <<>> = {}
      OBVIOUS
    <3>5. result' # <<>>
      BY <3>3, <3>4
    <3>6. KeptExact'
      BY <3>1, <3>2 DEF KeptExact, Routed
    <3> QED
      BY <3>2, <3>5, <3>6 DEF KeptInTime
  <2>2. CASE Dispatch \/ Sweep \/ ReturnSabre \/ ThrowLite
    <3>1. result' = result
      BY <2>2
    <3> QED
      BY <1>1, <2>2, <3>1 DEF CallInv, KeptInTime, KeptExact
  <2> QED
    BY <2>1, <2>2
<1> QED
  BY <1>2, <1>3, <1>4, <1>5 DEF CallInv

LEMMA CallStep == CallInv /\ [CallNext]_callVars => CallInv'
<1> SUFFICES ASSUME CallInv, [CallNext]_callVars PROVE CallInv'
  OBVIOUS
<1>1. CASE StartSingle \/ StartTrials
  BY <1>1, StartKeeps
<1>2. CASE Pass
  BY <1>2, PassKeeps
<1>3. CASE StartReverse \/ StartScored
  BY <1>3, NextLegKeeps
<1>4. CASE EndRound
  BY <1>4, EndRoundKeeps
<1>5. CASE EndTrial
  BY <1>5, EndTrialKeeps
<1>6. CASE NextRound \/ NextTrial
  BY <1>6, NextRoundKeeps
<1>7. CASE FinishSingle \/ Throw \/ EndTrials
  BY <1>7, LeaveKeeps
<1>8. CASE Dispatch \/ Sweep \/ ReturnLite \/ ReturnSabre \/ ThrowLite
  BY <1>8, LiteKeeps
<1>9. CASE UNCHANGED callVars
  <2>1. /\ UNCHANGED lite /\ UNCHANGED pass /\ UNCHANGED portfolio /\ UNCHANGED result
        /\ UNCHANGED router /\ UNCHANGED stage
    BY <1>9 DEF callVars
  <2>2. IInv' /\ circuit' = circuit /\ directed' = directed
    BY <2>1, LiteUntouched DEF lite, vars, call
  <2>3. CoreProofs!IInv'
    BY <2>1, <2>2, PassUntouched DEF portfolio
  <2> QED
    BY <2>1, <2>2, <2>3
    DEF CallInv, PassesInOrder, LaterPassesAccepted, KeptInTime, KeptExact, portfolio, pass,
        Routable
<1> QED
  BY <1>1, <1>2, <1>3, <1>4, <1>5, <1>6, <1>7, <1>8, <1>9 DEF CallNext, Step, Answered

LEMMA CallStart == CallInit => CallInv
<1> SUFFICES ASSUME CallInit PROVE CallInv
  OBVIOUS
<1>1. IInv /\ circuit \in Seq(Command) /\ directed \in BOOLEAN
  BY InitInvariant DEF CallInit, IInv, TypeOK
<1>2. CoreProofs!TypeOK
  BY <1>1, SameWords, RouteCallAssumption DEF CallInit, CoreProofs!TypeOK
<1>3. CoreProofs!IInv
  BY <1>2 DEF CallInit, CoreProofs!IInv, CoreProofs!MapsFollowTheState,
              CoreProofs!CallChecked, CoreProofs!CountsExact, CoreProofs!EmittedByNode,
              CoreProofs!Underway
<1> QED
  BY <1>1, <1>3 DEF CallInit, CallInv, PassesInOrder, LaterPassesAccepted, KeptInTime, KeptExact

THEOREM CallInvariant == CallSpec => []CallInv
  BY CallStart, CallStep, PTL DEF CallSpec

-----------------------------------------------------------------------------
(* What the invariant says of a call.                                      *)

\* In every pass of every trial the counts, the ready set and the mapping arrays
\* are exact.
THEOREM PassesKeepTheirBooks == CallSpec => []CoreStateExact
<1>1. CallInv => CoreStateExact
  <2> SUFFICES ASSUME CallInv PROVE CoreStateExact
    OBVIOUS
  <2>1. CoreProofs!IInv /\ NQubits \in Nat \ {0}
        /\ Edges \subseteq CoreProofs!Qubits \X CoreProofs!Qubits
    BY SameWords DEF CallInv
  <2>2. CoreProofs!ReadyIsFrontier
    BY <2>1, CoreProofs!InvariantFrontier
  <2>3. CoreProofs!TypeOK /\ CoreProofs!MapsFollowTheState
    BY <2>1 DEF CoreProofs!IInv
  <2> QED
    BY <2>2, <2>3, SameCore DEF CoreStateExact
<1> QED
  BY <1>1, CallInvariant, PTL

\* Every pass routes its stream as the contract allows, forward or reverse, from
\* whatever layout, whatever SWAPs the heuristic picks.
THEOREM PassesRoute == CallSpec => PassesImplementRouting
<1> DEFINE PassStep == Core!Contract!Next \/ passOutcome' = "unplaced"
<1>1. CallInv /\ [CallNext]_callVars => [PassStep]_(Core!Contract!routingVars)
  <2> SUFFICES ASSUME CallInv, [CallNext]_callVars
               PROVE  [PassStep]_(Core!Contract!routingVars)
    OBVIOUS
  <2>1. CASE Pass
    <3>1. CoreProofs!Next /\ CoreProofs!IInv
      BY <2>1, SameCore DEF Pass, CoreProofs!Next, CallInv
    <3>2. [CoreProofs!Next]_(CoreProofs!vars)
      BY <3>1
    <3>3. NQubits \in Nat \ {0} /\ Edges \subseteq CoreProofs!Qubits \X CoreProofs!Qubits
      BY SameWords
    <3>4. [CoreProofs!Contract!Next]_(CoreProofs!Contract!routingVars)
      BY <3>1, <3>2, <3>3, CoreProofs!StepRefines
    <3> QED
      BY <3>4, SameContract DEF Core!Contract!routingVars, CoreProofs!Contract!routingVars
  <2>2. CASE UNCHANGED <<passCircuit, directed, passOutcome, passCarried, passRan,
                         passInitialMap, passFinalMap>>
    BY <2>2 DEF Core!Contract!routingVars
  <2>3. CASE passOutcome' = "unplaced"
    BY <2>3
  <2>4. CASE Dispatch \/ Sweep \/ ReturnLite \/ ReturnSabre \/ ThrowLite \/ Answered
             \/ UNCHANGED callVars
    <3>1. UNCHANGED pass
      BY <2>4 DEF Dispatch, Sweep, ReturnLite, ReturnSabre, ThrowLite, Answered, callVars
    <3>2. UNCHANGED directed
      BY <2>4, SweepKeepsCall DEF Dispatch, Sweep, ReturnLite, ReturnSabre, ThrowLite,
                                  Answered, callVars, lite, vars, call
    <3> QED
      BY <2>2, <3>1, <3>2 DEF pass
  <2>5. CASE StartSingle \/ StartTrials \/ FinishSingle \/ Throw \/ StartReverse \/ StartScored
             \/ EndRound \/ EndTrial \/ NextRound \/ NextTrial \/ EndTrials
    BY <2>3, <2>5 DEF StartSingle, StartTrials, FinishSingle, Throw, StartReverse,
       StartScored, EndRound, EndTrial, NextRound, NextTrial, EndTrials, LeavePortfolio, NewPass
  <2> QED
    BY <2>1, <2>4, <2>5 DEF CallNext, Step
<1> QED
  BY <1>1, CallInvariant, PTL DEF CallSpec, PassesImplementRouting

\* The stream and the two maps that are kept come from one pass, and a call that
\* keeps a result returns one.
THEOREM ResultIsOnePass == CallSpec => []ResultOfOnePass
<1>1. CallInv => ResultOfOnePass
  BY DEF CallInv, KeptInTime, KeptExact, ResultOfOnePass
<1> QED
  BY <1>1, CallInvariant, PTL

\* Inside a call Lite is the router the theorems above are about.
THEOREM CallRunsLite == CallSpec => Spec
<1>1. CallInit => Init
  BY DEF CallInit
<1>2. [CallNext]_callVars => [Next]_vars
  <2> SUFFICES ASSUME [CallNext]_callVars PROVE [Next]_vars
    OBVIOUS
  <2>1. CASE Sweep
    BY <2>1 DEF Sweep, Next
  <2>2. CASE UNCHANGED lite
    BY <2>2 DEF lite
  <2>3. UNCHANGED lite \/ Sweep
    BY DEF CallNext, Step, Answered, callVars, Dispatch, ReturnLite, ReturnSabre, ThrowLite,
       Pass, StartSingle, StartTrials, FinishSingle, Throw, StartReverse, StartScored,
       EndRound, EndTrial, NextRound, NextTrial, EndTrials, LeavePortfolio
  <2> QED
    BY <2>1, <2>2, <2>3
<1> QED
  BY <1>1, <1>2, PTL DEF CallSpec, Spec

\* In a call too the greedy sweep is a routing, and its map undoes it.
THEOREM LiteInCall == CallSpec => ImplementsRouting /\ [](MapsFollowTheState /\ ReindexRecovers)
  BY CallRunsLite, LiteImplementsRouting, MapsAreHonest, ReindexIsRight, PTL

-----------------------------------------------------------------------------
(* Why a call throws.                                                      *)

\* The part of the device qubit q is in.
Part(q) == CoreProofs!Part(q)

\* Devices and streams are those of the core.
LEMMA SameDevice ==
  /\ CoreProofs!Distance = Distance
  /\ \A a, b : CoreProofs!IsConnected(a, b) <=> IsConnected(a, b)
  /\ \A a, b : CoreProofs!Closer(a, b) = Closer(a, b)
  /\ \A g : CoreProofs!IsAsymmetric(g) <=> IsAsymmetric(g)
  /\ \A s, i : CoreProofs!Depth(s, i) = Depth(s, i)
<1>1. \A a, b : CoreProofs!IsConnected(a, b) <=> IsConnected(a, b)
  BY DEF CoreProofs!IsConnected, IsConnected, CoreProofs!HasDirectedEdge, HasDirectedEdge
<1>2. \A q : CoreProofs!Neighbours(q) = Neighbours(q)
  BY <1>1, SameWords DEF CoreProofs!Neighbours, Neighbours
<1>3. CoreProofs!Distance = Distance
  BY DEF CoreProofs!Distance, Distance, CoreProofs!Ball, Ball, CoreProofs!Qubits, Qubits,
         CoreProofs!Neighbours, Neighbours, CoreProofs!IsConnected, IsConnected,
         CoreProofs!HasDirectedEdge, HasDirectedEdge
<1>4. \A a, b : CoreProofs!Closer(a, b) = Closer(a, b)
  BY <1>2, <1>3 DEF CoreProofs!Closer, Closer
<1>5. \A g : CoreProofs!IsAsymmetric(g) <=> IsAsymmetric(g)
  BY DEF CoreProofs!IsAsymmetric, IsAsymmetric
<1>6. \A s, i : CoreProofs!Depth(s, i) = Depth(s, i)
  BY DEF CoreProofs!Depth, Depth, CoreProofs!Opened, Opened, CoreProofs!Closed, Closed,
         CoreProofs!Cardinality, Cardinality
<1> QED
  BY <1>1, <1>3, <1>4, <1>5, <1>6

\* Edges stay in a part, and inside a part there is always a next hop.
LEMMA PartsOfDevice ==
  ASSUME NEW a \in Qubits, NEW b \in Qubits
  PROVE  /\ IsConnected(a, b) => Part(a) = Part(b)
         /\ Distance[a][b] = NQubits <=> Part(a) # Part(b)
         /\ a # b /\ Part(a) = Part(b) => Closer(a, b) # {}
<1>1. /\ a \in CoreProofs!Qubits /\ b \in CoreProofs!Qubits
      /\ NQubits \in Nat \ {0} /\ Edges \subseteq CoreProofs!Qubits \X CoreProofs!Qubits
  BY SameWords
<1>2. IsConnected(a, b) => Part(a) = Part(b)
  BY <1>1, SameDevice, CoreProofs!NeighboursShareAPart DEF Part
<1>3. Distance[a][b] = NQubits <=> Part(a) # Part(b)
  BY <1>1, SameDevice, CoreProofs!DistanceTellsParts DEF Part
<1>4. a # b /\ Part(a) = Part(b) => Closer(a, b) # {}
  BY <1>1, SameDevice, CoreProofs!CloserExists DEF Part
<1> QED
  BY <1>2, <1>3, <1>4

Blocked == \E i \in DOMAIN circuit : CannotRoute(i, Wanted)

\* The SWAPs of the sweep take no qubit to another part, and the sweep is refused
\* only for its layout or a command that cannot be routed.
SweepHasCause ==
  /\ outcome = "routing" =>
       Wanted \in Placements /\ \A l \in Qubits : Part(l2p[l]) = Part(Wanted[l])
  /\ outcome = "refused" => Wanted \notin Placements \/ Blocked

\* A pair the device cannot bring together.
LEMMA DisconnectedBlocks ==
  ASSUME IInv, SweepHasCause, RejectDisconnected
  PROVE  Blocked
<1>1. /\ pos \in 1 .. Len(circuit) /\ Len(cmd.qubits) = 2
      /\ cmd.qubits[1] \in Qubits /\ cmd.qubits[2] \in Qubits
      /\ at = <<l2p[cmd.qubits[1]], l2p[cmd.qubits[2]]>> /\ at[1] \in Qubits /\ at[2] \in Qubits
  BY PairAtWires DEF RejectDisconnected, Stuck
<1>2. at[1] # at[2] /\ Closer(at[1], at[2]) = {} /\ outcome = "routing"
  BY DEF RejectDisconnected, Stuck, Placing, NeedsSwaps, IsConnected
<1>3. Part(at[1]) # Part(at[2])
  BY <1>1, <1>2, PartsOfDevice
<1>4. /\ Wanted[cmd.qubits[1]] \in Qubits /\ Wanted[cmd.qubits[2]] \in Qubits
      /\ Part(Wanted[cmd.qubits[1]]) # Part(Wanted[cmd.qubits[2]])
  BY <1>1, <1>2, <1>3 DEF SweepHasCause, Placements
<1>5. Distance[Wanted[cmd.qubits[1]]][Wanted[cmd.qubits[2]]] = NQubits
  BY <1>4, PartsOfDevice
<1>6. CannotRoute(pos, Wanted)
  BY <1>1, <1>5 DEF CannotRoute, cmd
<1> QED
  BY <1>1, <1>6 DEF Blocked

\* A pair on an edge that runs it neither as it is nor turned round.
LEMMA DirectionBlocks ==
  ASSUME IInv, RejectDirection
  PROVE  Blocked
<1>1. /\ pos \in 1 .. Len(circuit) /\ Len(cmd.qubits) = 2
      /\ cmd.qubits[1] \in Qubits /\ cmd.qubits[2] \in Qubits
      /\ at = <<l2p[cmd.qubits[1]], l2p[cmd.qubits[2]]>> /\ outcome = "routing"
  BY PairAtWires DEF RejectDirection, Placing
<1>2. /\ directed /\ IsAsymmetric(cmd.gate)
      /\ cmd.gate = "CX" => at[1] = at[2]
  BY DEF RejectDirection, RunsAgainstEdge, RunsAsIs, RunsFlipped, IsConnected
<1>3. at[1] = at[2] => cmd.qubits[1] = cmd.qubits[2]
  BY <1>1 DEF IInv, MapsFollowTheState
<1>4. CannotRoute(pos, Wanted)
  BY <1>1, <1>2, <1>3 DEF CannotRoute, cmd
<1> QED
  BY <1>1, <1>4 DEF Blocked

LEMMA SweepRefusal ==
  ASSUME IInv, SweepHasCause,
         RejectRange \/ RejectWide \/ RejectDirection \/ RejectConditional \/ RejectInBranch
           \/ RejectDisconnected
  PROVE  Blocked
<1>1. CASE RejectRange \/ RejectWide
  <2>1. pos \in 1 .. Len(circuit)
    BY <1>1, CommandAtPos DEF RejectRange, RejectWide, Fetching
  <2>2. CannotRoute(pos, Wanted)
    BY <1>1 DEF RejectRange, RejectWide, InRange, CannotRoute, cmd
  <2> QED
    BY <2>1, <2>2 DEF Blocked
<1>2. CASE RejectConditional \/ RejectInBranch
  <2>1. pos \in 1 .. Len(circuit) /\ Len(cmd.qubits) = 2
    BY <1>2, PairAtWires DEF RejectConditional, RejectInBranch, Stuck
  <2>2. depth = Depth(circuit, pos)
    BY <1>2, <2>1, PairDepth DEF RejectConditional, RejectInBranch, Stuck, Placing
  <2>3. CannotRoute(pos, Wanted)
    BY <1>2, <2>1, <2>2 DEF CannotRoute, RejectConditional, RejectInBranch, cmd
  <2> QED
    BY <2>1, <2>3 DEF Blocked
<1> QED
  BY <1>1, <1>2, DirectionBlocks, DisconnectedBlocks

LEMMA StepSwapKeepsParts ==
  ASSUME IInv, SweepHasCause, StepSwap
  PROVE  SweepHasCause'
<1>1. PICK b \in Qubits : IsNextHop(b, at[1], at[2]) /\ Exchange(at[1], b)
  BY DEF StepSwap
<1> DEFINE a == at[1]
<1>2. a \in Qubits /\ outcome = "routing" /\ outcome' = "routing"
  BY PairAtWires DEF StepSwap, Stuck, Placing
<1>3. Part(a) = Part(b)
  BY <1>1, <1>2, PartsOfDevice DEF IsNextHop, Closer, Neighbours
<1>4. /\ p2l[a] \in Qubits /\ p2l[b] \in Qubits /\ l2p[p2l[a]] = a /\ l2p[p2l[b]] = b
      /\ l2p \in [Qubits -> Qubits]
  BY <1>2 DEF IInv, TypeOK, Maps, MapsFollowTheState
<1>5. l2p' = [l2p EXCEPT ![p2l[a]] = b, ![p2l[b]] = a]
  BY <1>1 DEF Exchange
<1>6. \A l \in Qubits : \/ l2p'[l] = l2p[l]
                        \/ l2p[l] = a /\ l2p'[l] = b
                        \/ l2p[l] = b /\ l2p'[l] = a
  BY <1>4, <1>5
<1>7. \A l \in Qubits : Part(l2p'[l]) = Part(l2p[l])
  BY <1>3, <1>6
<1>8. Wanted' = Wanted
  BY DEF StepSwap, call, Wanted
<1> QED
  BY <1>2, <1>7, <1>8 DEF SweepHasCause, Part, CoreProofs!Part

\* Every refusal of the sweep has its cause.
LEMMA SweepCauseStep ==
  ASSUME IInv, SweepHasCause, [Next]_vars
  PROVE  SweepHasCause'
<1>1. CASE RejectRange \/ RejectWide \/ RejectDirection \/ RejectConditional \/ RejectInBranch
             \/ RejectDisconnected
  <2>1. Blocked /\ Refuse
    BY <1>1, SweepRefusal DEF RejectRange, RejectWide, RejectDirection, RejectConditional,
                              RejectInBranch, RejectDisconnected
  <2> QED
    BY <2>1 DEF Refuse, call, SweepHasCause, Blocked, CannotRoute, Wanted
<1>2. CASE RejectMapping
  BY <1>2 DEF RejectMapping, Refuse, call, SweepHasCause, Wanted
<1>3. CASE Place
  BY <1>3 DEF Place, call, SweepHasCause, Wanted
<1>4. CASE StepSwap
  BY <1>4, StepSwapKeepsParts
<1>5. CASE EmitNarrow \/ FetchPair \/ EmitAsIs \/ EmitFlipped \/ Finish
  <2>1. UNCHANGED call /\ UNCHANGED l2p /\ outcome = "routing" /\ outcome' \in {"routing", "done"}
    BY <1>5 DEF EmitNarrow, FetchPair, EmitAsIs, EmitFlipped, Finish, Emit, Fetching, Placing,
                placement
  <2> QED
    BY <2>1 DEF SweepHasCause, call, Wanted, Part, CoreProofs!Part
<1>6. CASE UNCHANGED vars
  BY <1>6 DEF vars, call, placement, SweepHasCause, Blocked, CannotRoute, Wanted, Part,
              CoreProofs!Part
<1> QED
  BY <1>1, <1>2, <1>3, <1>4, <1>5, <1>6 DEF Next, Route, Stopped

HasCause ==
  \/ Wanted \notin Placements
  \/ router = "Sabre" /\ ~WellFormed(circuit)
  \/ Blocked

\* From layout m SABRE has no more to refuse than from the one the caller wants.
AsGoodAsWanted(m) ==
  /\ m \in Placements => Wanted \in Placements
  /\ m \notin Placements => Wanted \notin Placements
  /\ \A i \in DOMAIN circuit :
       LET c == circuit[i] IN
       Len(c.qubits) = 2 /\ Operands(c) \subseteq Qubits
         /\ Part(m[c.qubits[1]]) # Part(m[c.qubits[2]])
           => Part(Wanted[c.qubits[1]]) # Part(Wanted[c.qubits[2]])

\* While SABRE has no result it is on its first passes, or has met the cause.
StillTrying ==
  stage = "sabre" /\ result = <<>> =>
    \/ HasCause
    \/ leg = "single" /\ AsGoodAsWanted(start)
    \/ leg \in {"forward", "reverse", "scored"} /\ start \in Placements /\ pin = NoMap
         /\ \A l \in Qubits : Part(start[l]) = Part(l)

CauseInv ==
  /\ SweepHasCause /\ CoreProofs!RefusedWithCause
  /\ StillTrying
  /\ stage = "thrown" => HasCause

\* A layout that keeps every qubit in its part is as good as the identity.
LEMMA InPlaceIsGood ==
  ASSUME pin = NoMap, NEW m \in Placements, \A l \in Qubits : Part(m[l]) = Part(l),
         circuit \in Seq(Command)
  PROVE  AsGoodAsWanted(m)
<1>1. Wanted = Identity /\ Wanted \in Placements
  BY IdentityIsPlacement DEF Wanted
<1>2. ASSUME NEW i \in DOMAIN circuit, Len(circuit[i].qubits) = 2,
             Operands(circuit[i]) \subseteq Qubits
      PROVE  /\ Part(m[circuit[i].qubits[1]]) = Part(Wanted[circuit[i].qubits[1]])
             /\ Part(m[circuit[i].qubits[2]]) = Part(Wanted[circuit[i].qubits[2]])
  <2>1. circuit[i].qubits \in Seq(Nat)
    BY <1>2 DEF Command
  <2>2. circuit[i].qubits[1] \in Qubits /\ circuit[i].qubits[2] \in Qubits
    BY <1>2, <2>1 DEF Operands
  <2> QED
    BY <1>1, <2>2 DEF Identity
<1> QED
  BY <1>1, <1>2 DEF AsGoodAsWanted

\* In a perfect layout no pair is in different parts.
LEMMA PerfectIsGood ==
  ASSUME pin = NoMap, NEW m \in Placements, Perfect(m), circuit \in Seq(Command)
  PROVE  AsGoodAsWanted(m)
<1>1. Wanted \in Placements
  BY IdentityIsPlacement DEF Wanted
<1>2. ASSUME NEW i \in DOMAIN circuit, Len(circuit[i].qubits) = 2,
             Operands(circuit[i]) \subseteq Qubits
      PROVE  Part(m[circuit[i].qubits[1]]) = Part(m[circuit[i].qubits[2]])
  <2>1. circuit[i].qubits \in Seq(Nat)
    BY <1>2 DEF Command
  <2>2. circuit[i].qubits[1] \in Qubits /\ circuit[i].qubits[2] \in Qubits
    BY <1>2, <2>1 DEF Operands
  <2>3. m[circuit[i].qubits[1]] \in Qubits /\ m[circuit[i].qubits[2]] \in Qubits
    BY <2>2 DEF Placements
  <2>4. IsConnected(m[circuit[i].qubits[1]], m[circuit[i].qubits[2]])
    BY <1>2 DEF Perfect
  <2> QED
    BY <2>3, <2>4, PartsOfDevice
<1> QED
  BY <1>1, <1>2 DEF AsGoodAsWanted

\* Every command of a pass is a command of the circuit, at the same depth.
LEMMA CommandsOfPass ==
  ASSUME CallInv, WellFormed(passCircuit), leg = "reverse" => WellFormed(circuit),
         NEW i \in DOMAIN passCircuit
  PROVE  \E j \in DOMAIN circuit :
           circuit[j] = passCircuit[i] /\ Depth(circuit, j) = Depth(passCircuit, i)
<1>1. circuit \in Seq(Command)
      /\ passCircuit = IF leg = "reverse" THEN Reversed(circuit) ELSE circuit
  BY PassKnows DEF CallInv, PassesInOrder
<1>2. CASE leg # "reverse"
  BY <1>1, <1>2
<1>3. CASE leg = "reverse"
  <2>1. WellFormed(circuit) /\ passCircuit = Reversed(circuit)
    BY <1>1, <1>3
  <2>2. Reversed(circuit) \in Seq(Command) /\ Len(Reversed(circuit)) = Len(circuit)
    BY <1>1, <2>1, ReversedDepth
  <2>3. i \in 1 .. Len(circuit)
    BY <2>1, <2>2
  <2>4. /\ Reversed(circuit)[i] = circuit[ReversedFrom(circuit, i)]
        /\ Depth(Reversed(circuit), i) = Depth(circuit, ReversedFrom(circuit, i))
        /\ ReversedFrom(circuit, i) \in 1 .. Len(circuit)
    BY <1>1, <2>1, <2>3, ReversedDepth, ReversedFromStep
  <2> QED
    BY <1>1, <2>1, <2>4
<1> QED
  BY <1>2, <1>3

\* A pass that fails from a layout as good as the one wanted has met a cause.
LEMMA FailedPass ==
  ASSUME CallInv, CauseInv, PassFailed, AsGoodAsWanted(start),
         leg = "single" \/ start \in Placements
  PROVE  HasCause
<1>1. /\ stage = "sabre" /\ passOutcome = "refused" /\ router = "Sabre" /\ leg # "between"
      /\ circuit \in Seq(Command)
      /\ passCircuit = IF leg = "reverse" THEN Reversed(circuit) ELSE circuit
  BY PassKnows DEF PassFailed, CallInv, PassesInOrder
<1>2. leg = "reverse" => Routable
  BY <1>1 DEF CallInv, LaterPassesAccepted
<1>3. passCircuit \in Seq(Command)
  BY <1>1, <1>2, ReversedRoutable
<1>4. CASE ~CoreProofs!Admissible
  <2>1. \/ start \notin Placements \/ ~WellFormed(passCircuit)
        \/ \E i \in DOMAIN passCircuit : ~(Operands(passCircuit[i]) \subseteq Qubits)
    BY <1>4, SameWords DEF CoreProofs!Admissible
  <2>2. CASE start \notin Placements
    BY <2>2 DEF AsGoodAsWanted, HasCause
  <2>3. CASE leg = "reverse" /\ start \in Placements
    BY <1>1, <1>2, <2>1, <2>3, ReversedRoutable
  <2>4. CASE leg # "reverse" /\ ~WellFormed(circuit)
    BY <1>1, <2>4 DEF HasCause
  <2>5. CASE leg # "reverse" /\ \E i \in DOMAIN circuit : ~(Operands(circuit[i]) \subseteq Qubits)
    BY <2>5 DEF HasCause, Blocked, CannotRoute
  <2> QED
    BY <1>1, <2>1, <2>2, <2>3, <2>4, <2>5
<1>5. CASE CoreProofs!Admissible
  <2>1. /\ start \in Placements /\ WellFormed(passCircuit) /\ Wanted \in Placements
        /\ \A i \in DOMAIN passCircuit : Operands(passCircuit[i]) \subseteq Qubits
    BY <1>5, SameWords DEF CoreProofs!Admissible, AsGoodAsWanted
  <2>2. PICK i \in DOMAIN passCircuit : CoreProofs!Unroutable(i, start)
    BY <1>1, <1>5 DEF CauseInv, CoreProofs!RefusedWithCause
  <2> DEFINE c == passCircuit[i]
  <2>3. PICK j \in DOMAIN circuit : circuit[j] = c /\ Depth(circuit, j) = Depth(passCircuit, i)
    BY <1>2, <2>1, CommandsOfPass DEF Routable
  <2>4. \/ Len(c.qubits) > 2
        \/ /\ Len(c.qubits) = 2
           /\ \/ directed /\ IsAsymmetric(c.gate)
                   /\ (c.gate = "CX" => c.qubits[1] = c.qubits[2])
              \/ c.conditional
              \/ Depth(passCircuit, i) > 0
              \/ Part(start[c.qubits[1]]) # Part(start[c.qubits[2]])
    BY <2>2, SameDevice DEF CoreProofs!Unroutable, CoreProofs!CannotTurn, Part
  <2>5. CASE Len(c.qubits) = 2 /\ Part(start[c.qubits[1]]) # Part(start[c.qubits[2]])
    <3>1. c.qubits \in Seq(Nat)
      BY <1>3 DEF Command
    <3>2. c.qubits[1] \in Qubits /\ c.qubits[2] \in Qubits /\ Operands(c) \subseteq Qubits
      BY <2>1, <2>5, <3>1 DEF Operands
    <3>3. Part(Wanted[c.qubits[1]]) # Part(Wanted[c.qubits[2]])
      BY <2>3, <2>5, <3>2 DEF AsGoodAsWanted
    <3>4. Wanted[c.qubits[1]] \in Qubits /\ Wanted[c.qubits[2]] \in Qubits
      BY <2>1, <3>2 DEF Placements
    <3>5. Distance[Wanted[c.qubits[1]]][Wanted[c.qubits[2]]] = NQubits
      BY <3>3, <3>4, PartsOfDevice
    <3> QED
      BY <2>3, <2>5, <3>5 DEF HasCause, Blocked, CannotRoute
  <2> QED
    BY <2>3, <2>4, <2>5 DEF HasCause, Blocked, CannotRoute
<1> QED
  BY <1>4, <1>5

\* The call is the same in every step.
LEMMA CallIsKept == [CallNext]_callVars => UNCHANGED call /\ UNCHANGED router
<1> SUFFICES ASSUME [CallNext]_callVars PROVE UNCHANGED call /\ UNCHANGED router
  OBVIOUS
<1>1. CASE Sweep
  BY <1>1, SweepKeepsCall DEF Sweep
<1>2. CASE ~Sweep
  BY <1>2 DEF CallNext, Step, Answered, callVars, Dispatch, ReturnLite, ReturnSabre, ThrowLite,
     Pass, StartSingle, StartTrials, FinishSingle, Throw, StartReverse, StartScored,
     EndRound, EndTrial, NextRound, NextTrial, EndTrials, LeavePortfolio, lite, vars
<1> QED
  BY <1>1, <1>2

LEMMA CauseKept ==
  ASSUME UNCHANGED call, UNCHANGED router
  PROVE  HasCause' = HasCause /\ Wanted' = Wanted
  BY DEF call, HasCause, Blocked, CannotRoute, Wanted

\* Lite's part, and the part of the pass under way.
LEMMA RoutersHaveCause ==
  ASSUME CallInv, CauseInv, [CallNext]_callVars
  PROVE  SweepHasCause' /\ CoreProofs!RefusedWithCause'
<1>1. SweepHasCause'
  <2>1. [Next]_vars
    BY DEF CallNext, Step, Answered, callVars, Dispatch, ReturnLite, ReturnSabre, ThrowLite,
       Pass, StartSingle, StartTrials, FinishSingle, Throw, StartReverse, StartScored,
       EndRound, EndTrial, NextRound, NextTrial, EndTrials, LeavePortfolio, Sweep, Next, lite
  <2> QED
    BY <2>1, SweepCauseStep DEF CallInv, CauseInv
<1>2. CASE [CoreProofs!Next]_(CoreProofs!vars)
  <2>1. NQubits \in Nat \ {0} /\ Edges \subseteq CoreProofs!Qubits \X CoreProofs!Qubits
    BY SameWords
  <2> QED
    BY <1>1, <1>2, <2>1, CoreProofs!CauseStep DEF CallInv, CauseInv
<1>3. CASE passOutcome' = "unplaced"
  BY <1>1, <1>3 DEF CoreProofs!RefusedWithCause, CoreProofs!Underway
<1>4. CASE Pass
  BY <1>2, <1>4, SameCore DEF Pass, CoreProofs!Next
<1>5. CASE Dispatch \/ Sweep \/ ReturnLite \/ ReturnSabre \/ ThrowLite \/ Answered
           \/ UNCHANGED callVars
  <2>1. UNCHANGED pass /\ UNCHANGED portfolio
    BY <1>5 DEF Dispatch, Sweep, ReturnLite, ReturnSabre, ThrowLite, Answered, callVars
  <2>2. UNCHANGED directed
    BY CallIsKept DEF call
  <2> QED
    BY <1>2, <2>1, <2>2 DEF pass, portfolio, CoreProofs!vars, CoreProofs!call,
       CoreProofs!placement, CoreProofs!kahn, CoreProofs!maps
<1>6. CASE StartSingle \/ StartTrials \/ FinishSingle \/ Throw \/ StartReverse \/ StartScored
           \/ EndRound \/ EndTrial \/ NextRound \/ NextTrial \/ EndTrials
  BY <1>3, <1>6 DEF StartSingle, StartTrials, FinishSingle, Throw, StartReverse,
     StartScored, EndRound, EndTrial, NextRound, NextTrial, EndTrials, LeavePortfolio, NewPass
<1> QED
  BY <1>4, <1>5, <1>6 DEF CallNext, Step

\* The first passes of a call.
LEMMA StartTries ==
  ASSUME CallInv, StartSingle \/ StartTrials, UNCHANGED call, UNCHANGED router
  PROVE  StillTrying'
<1> USE DEF NewPass
<1>1. circuit \in Seq(Command) /\ Wanted' = Wanted /\ circuit' = circuit /\ pin' = pin
  BY PassKnows, CauseKept DEF call
<1>2. CASE StartSingle /\ pin # NoMap
  <2>1. leg' = "single" /\ start' = Wanted
    BY <1>2 DEF StartSingle, Wanted
  <2>2. AsGoodAsWanted(start)'
    BY <1>1, <2>1 DEF AsGoodAsWanted
  <2> QED
    BY <2>1, <2>2 DEF StillTrying
<1>3. CASE StartSingle /\ pin = NoMap
  <2>1. PICK m \in Placements : Perfect(m) /\ leg' = "single" /\ start' = m
    BY <1>3 DEF StartSingle
  <2>2. AsGoodAsWanted(m)
    BY <1>1, <1>3, <2>1, PerfectIsGood
  <2>3. AsGoodAsWanted(start)'
    BY <1>1, <2>1, <2>2 DEF AsGoodAsWanted, Part, CoreProofs!Part
  <2> QED
    BY <2>1, <2>3 DEF StillTrying
<1>4. CASE StartTrials
  <2>1. leg' = "forward" /\ start' = Identity /\ pin = NoMap
    BY <1>4 DEF StartTrials
  <2> QED
    BY <1>1, <2>1, IdentityIsPlacement DEF StillTrying, Identity
<1> QED
  BY <1>2, <1>3, <1>4

\* A pass that is done hands on a layout that keeps every qubit in its part.
LEMMA NextLegTries ==
  ASSUME CallInv, CauseInv, StartReverse \/ StartScored, UNCHANGED call, UNCHANGED router
  PROVE  StillTrying'
<1>1. /\ stage = "sabre" /\ leg \in {"forward", "reverse"} /\ passOutcome = "done"
      /\ leg' \in {"reverse", "scored"} /\ start' = passFinalMap /\ result' = result
      /\ pin' = pin /\ HasCause' = HasCause
  BY CauseKept DEF StartReverse, StartScored, PassDone, NewPass, call
<1>2. passFinalMap = passL2p /\ passFinalMap \in Placements
  BY <1>1, PassKnows
<1>3. \A l \in Qubits : Part(passL2p[l]) = Part(start[l])
  BY <1>1, SameWords DEF CauseInv, CoreProofs!RefusedWithCause, CoreProofs!Underway, Part
<1> QED
  BY <1>1, <1>2, <1>3 DEF CauseInv, StillTrying, Part, CoreProofs!Part

\* A pass that failed without a result to fall back on had a cause.
LEMMA FirstFailure ==
  ASSUME CallInv, CauseInv, PassFailed, result = <<>>
  PROVE  HasCause
<1>1. stage = "sabre" /\ leg # "between" /\ circuit \in Seq(Command)
  BY PassKnows DEF PassFailed, CallInv, PassesInOrder
<1>2. CASE leg = "single" /\ AsGoodAsWanted(start)
  BY <1>2, FailedPass
<1>3. CASE /\ leg \in {"forward", "reverse", "scored"} /\ start \in Placements /\ pin = NoMap
           /\ \A l \in Qubits : Part(start[l]) = Part(l)
  BY <1>1, <1>3, InPlaceIsGood, FailedPass
<1> QED
  BY <1>1, <1>2, <1>3 DEF CauseInv, StillTrying

\* A scored pass leaves a result.
LEMMA RoundKeepsOne ==
  ASSUME CallInv, EndRound
  PROVE  result' # <<>>
<1>1. PassDone /\ KeepBest
  BY DEF EndRound
<1>2. PassResult # <<>>
  BY <1>1, PassResultExact
<1> QED
  BY <1>1, <1>2 DEF KeepBest, Better

LEMMA CauseCallStep == CallInv /\ CauseInv /\ [CallNext]_callVars => CauseInv'
<1> SUFFICES ASSUME CallInv, CauseInv, [CallNext]_callVars PROVE CauseInv'
  OBVIOUS
<1>1. SweepHasCause' /\ CoreProofs!RefusedWithCause'
  BY RoutersHaveCause
<1>2. UNCHANGED call /\ UNCHANGED router /\ HasCause' = HasCause /\ pin' = pin
  BY CallIsKept, CauseKept DEF call
<1>3. StillTrying' /\ (stage' = "thrown" => HasCause')
  <2>1. CASE StartSingle \/ StartTrials
    <3>1. stage' = "sabre"
      BY <2>1 DEF StartSingle, StartTrials
    <3> QED
      BY <1>2, <2>1, <3>1, StartTries
  <2>2. CASE StartReverse \/ StartScored
    <3>1. stage' = "sabre"
      BY <2>2 DEF StartReverse, StartScored, PassDone
    <3> QED
      BY <1>2, <2>2, <3>1, NextLegTries
  <2>3. CASE EndRound
    <3>1. stage' = "sabre" /\ result' # <<>>
      BY <2>3, RoundKeepsOne DEF EndRound, PassDone
    <3> QED
      BY <3>1 DEF StillTrying
  <2>4. CASE EndTrial
    <3>1. PassFailed /\ stage' = "sabre" /\ result' = result
      BY <2>4 DEF EndTrial, PassFailed
    <3> QED
      BY <1>2, <3>1, FirstFailure DEF StillTrying
  <2>5. CASE NextRound \/ NextTrial
    <3>1. stage = "sabre" /\ leg = "between" /\ stage' = "sabre" /\ result' = result
      BY <2>5 DEF NextRound, NextTrial, Between
    <3> QED
      BY <1>2, <3>1 DEF CauseInv, StillTrying
  <2>6. CASE Throw
    <3>1. PassFailed /\ stage' = "thrown" /\ (leg = "single" \/ passInitialMap = NoMap)
      BY <2>6 DEF Throw
    <3>2. result = <<>>
      BY <3>1, OnlyFirstRefused DEF CallInv, LaterPassesAccepted, PassFailed
    <3> QED
      BY <1>2, <3>1, <3>2, FirstFailure DEF StillTrying
  <2>7. CASE EndTrials
    <3>1. stage = "sabre" /\ leg = "between"
          /\ stage' = IF result = <<>> THEN "thrown" ELSE "lite"
      BY <2>7 DEF EndTrials, Between
    <3> QED
      BY <1>2, <3>1 DEF CauseInv, StillTrying
  <2>8. CASE ThrowLite
    <3>1. stage' = "thrown" /\ outcome = "refused"
      BY <2>8 DEF ThrowLite
    <3> QED
      BY <1>2, <3>1 DEF CauseInv, StillTrying, SweepHasCause, HasCause
  <2>9. CASE FinishSingle \/ Dispatch \/ ReturnLite \/ ReturnSabre
    <3>1. stage' \in {"lite", "returned"}
      BY <2>9 DEF FinishSingle, Dispatch, ReturnLite, ReturnSabre
    <3> QED
      BY <3>1 DEF StillTrying
  <2>10. CASE Pass \/ Sweep \/ Answered \/ UNCHANGED callVars
    <3>1. UNCHANGED stage /\ UNCHANGED portfolio /\ UNCHANGED result
      BY <2>10 DEF Pass, Sweep, Answered, callVars
    <3>2. UNCHANGED circuit /\ Wanted' = Wanted
      BY <1>2, CauseKept DEF call
    <3>3. AsGoodAsWanted(start)' = AsGoodAsWanted(start)
      BY <3>1, <3>2 DEF AsGoodAsWanted, portfolio, Part, CoreProofs!Part
    <3> QED
      BY <1>2, <3>1, <3>3 DEF CauseInv, StillTrying, portfolio, Part, CoreProofs!Part
  <2> QED
    BY <2>1, <2>2, <2>3, <2>4, <2>5, <2>6, <2>7, <2>8, <2>9, <2>10 DEF CallNext, Step
<1> QED
  BY <1>1, <1>3 DEF CauseInv

LEMMA CauseStart == CallInit => CauseInv
  BY DEF CallInit, Init, CauseInv, SweepHasCause, StillTrying, CoreProofs!RefusedWithCause,
         CoreProofs!Underway

\* A call throws only for a cause the interface lists, however many SWAPs and trials
\* it took, on every device and for every circuit and layout.
THEOREM OnlyListedCauses == CallSpec => []ThrowsHaveCause
<1>1. CallInv /\ CauseInv /\ [CallNext]_callVars => CallInv' /\ CauseInv'
  BY CallStep, CauseCallStep
<1>2. CallInv /\ CauseInv => ThrowsHaveCause
  BY DEF CauseInv, ThrowsHaveCause, HasCause, Blocked
<1> QED
  BY <1>1, <1>2, CallStart, CauseStart, PTL DEF CallSpec

=============================================================================
