---------------------------- MODULE StreamProofs ----------------------------
(***************************************************************************)
(* Facts about command streams and about what the decomposition rules      *)
(* write.                                                                  *)
(*                                                                         *)
(* How the branch depth moves, that the nodes of a well-formed stream      *)
(* partition its commands, that commands which must keep their order share *)
(* a wire, and that a stream reversed node by node is well-formed again.   *)
(*                                                                         *)
(* A rule looks at the gate, the operands and the angles of a command, and *)
(* at nothing else: on two commands that differ in the names of their      *)
(* qubits, bits and symbols only, every rule writes streams that differ in *)
(* the same way.                                                           *)
(*                                                                         *)
(* What it writes has the shape of the factories' commands, in gates       *)
(* nearer to the target, and branches that are cut out of a stream nest.   *)
(***************************************************************************)
EXTENDS Rebase, FiniteSetTheorems, WellFoundedInduction, TLAPS

-----------------------------------------------------------------------------
(* Depth, nodes and order                                                   *)

\* A non-empty finite set of numbers has a greatest element.
LEMMA GreatestExists ==
  ASSUME NEW T \in SUBSET Nat, IsFiniteSet(T), T # {}
  PROVE  \E m \in T : \A j \in T : j =< m
<1> DEFINE Above(j) == {k \in T : k > j}
           F == {Above(j) : j \in T}
<1>1. F \subseteq FiniteSubsetsOf(T) /\ F # {}
  <2>1. \A j \in T : Above(j) \in SUBSET T /\ IsFiniteSet(Above(j))
    BY FS_Subset
  <2> QED
    BY <2>1 DEF FiniteSubsetsOf
<1>2. \E x \in F : \A y \in F : ~ (<<y, x>> \in StrictSubsetOrdering(T))
  BY <1>1, FS_StrictSubsetOrderingWellFounded, WFMin
<1>3. PICK m \in T : \A y \in F : ~ (<<y, Above(m)>> \in StrictSubsetOrdering(T))
  BY <1>2
<1>4. ASSUME NEW k \in T, k > m
      PROVE  FALSE
  <2>1. Above(k) \subseteq Above(m) /\ Above(k) # Above(m)
    <3>1. k \in Above(m) /\ k \notin Above(k)
      BY <1>4
    <3>2. ASSUME NEW y \in T, y > k
          PROVE  y > m
      <4>1. y \in Nat /\ k \in Nat /\ m \in Nat
        OBVIOUS
      <4> QED
        BY <4>1, <1>4, <3>2
    <3> QED
      BY <3>1, <3>2
  <2>2. <<Above(k), Above(m)>> \in StrictSubsetOrdering(T)
    BY <2>1 DEF StrictSubsetOrdering
  <2> QED
    BY <1>3, <2>2
<1> QED
  BY <1>4

\* A non-empty set of numbers has a least element.
LEMMA LeastExists ==
  ASSUME NEW T \in SUBSET Nat, T # {}
  PROVE  \E m \in T : \A j \in T : m =< j
<1>1. PICK x \in T : TRUE
  OBVIOUS
<1> DEFINE B == {b \in Nat : \E j \in T : j =< x /\ b = x - j}
<1>2. B \in SUBSET Nat /\ IsFiniteSet(B) /\ B # {}
  <2>1. B \in SUBSET Nat /\ B # {}
    <3>1. x \in Nat /\ x =< x /\ x - x \in Nat
      BY <1>1
    <3>2. x - x \in B
      BY <3>1
    <3> QED
      BY <3>2
  <2>2. \A b \in B : b =< x
    BY <1>1
  <2> QED
    BY <2>1, <2>2, <1>1, FS_BoundedSetOfNaturals
<1>3. PICK b \in B : \A c \in B : c =< b
  BY <1>2, GreatestExists
<1>4. PICK m \in T : m =< x /\ b = x - m
  OBVIOUS
<1>5. ASSUME NEW j \in T, j =< x
      PROVE  m =< j
  <2>1. j \in Nat /\ m \in Nat /\ x \in Nat /\ x - j \in Nat
    BY <1>5
  <2>2. x - j \in B
    BY <2>1, <1>5
  <2>3. x - j =< b
    BY <1>3, <2>2
  <2> QED
    BY <2>1, <2>3, <1>4
<1>6. ASSUME NEW j \in T
      PROVE  m =< j
  BY <1>4, <1>5
<1> QED
  BY <1>6

-----------------------------------------------------------------------------
(* The branch depth.                                                       *)

\* One command changes the depth by one, or not at all.
LEMMA DepthStep ==
  ASSUME NEW s, Len(s) \in Nat, NEW i \in 1 .. Len(s)
  PROVE  Depth(s, i) = Depth(s, i - 1)
           + (CASE s[i].gate = "BranchBegin" -> 1
                [] s[i].gate = "BranchEnd"   -> -1
                [] OTHER                     -> 0)
<1>1. IsFiniteSet(Opened(s, i - 1)) /\ IsFiniteSet(Closed(s, i - 1))
  <2>1. IsFiniteSet(1 .. i - 1)
    BY FS_Interval
  <2> QED
    BY <2>1, FS_Subset DEF Opened, Closed
<1>2. i \notin Opened(s, i - 1) /\ i \notin Closed(s, i - 1)
  BY DEF Opened, Closed
<1>3. Opened(s, i) = IF s[i].gate = "BranchBegin" THEN Opened(s, i - 1) \cup {i}
                                                  ELSE Opened(s, i - 1)
  BY DEF Opened
<1>4. Closed(s, i) = IF s[i].gate = "BranchEnd" THEN Closed(s, i - 1) \cup {i}
                                                ELSE Closed(s, i - 1)
  BY DEF Closed
<1>5. Cardinality(Opened(s, i - 1)) \in Nat /\ Cardinality(Closed(s, i - 1)) \in Nat
  BY <1>1, FS_CardinalityType
<1>6. Cardinality(Opened(s, i)) = Cardinality(Opened(s, i - 1))
        + (IF s[i].gate = "BranchBegin" THEN 1 ELSE 0)
  <2>1. Cardinality(Opened(s, i - 1) \cup {i}) = Cardinality(Opened(s, i - 1)) + 1
    BY <1>1, <1>2, FS_AddElement
  <2> QED
    BY <1>3, <1>5, <2>1
<1>7. Cardinality(Closed(s, i)) = Cardinality(Closed(s, i - 1))
        + (IF s[i].gate = "BranchEnd" THEN 1 ELSE 0)
  <2>1. Cardinality(Closed(s, i - 1) \cup {i}) = Cardinality(Closed(s, i - 1)) + 1
    BY <1>1, <1>2, FS_AddElement
  <2> QED
    BY <1>4, <1>5, <2>1
<1> QED
  BY <1>5, <1>6, <1>7 DEF Depth

\* Before the first command no branch is open.
LEMMA DepthZero == ASSUME NEW s PROVE Depth(s, 0) = 0
<1>1. Opened(s, 0) = {} /\ Closed(s, 0) = {}
  BY DEF Opened, Closed
<1> QED
  BY <1>1, FS_EmptySet DEF Depth

\* The depth is an integer.
LEMMA DepthType ==
  ASSUME NEW s, NEW i \in Int
  PROVE  Depth(s, i) \in Int
<1>1. IsFiniteSet(1 .. i)
  BY FS_Interval
<1>2. IsFiniteSet(Opened(s, i)) /\ IsFiniteSet(Closed(s, i))
  BY <1>1, FS_Subset DEF Opened, Closed
<1> QED
  BY <1>2, FS_CardinalityType DEF Depth

-----------------------------------------------------------------------------
(* The nodes of a well-formed stream partition it.                         *)

\* A node ends where the depth first returns to zero, and a node that is no
\* region ends where it starts.
LEMMA NodeEndsIn ==
  ASSUME NEW s, Len(s) \in Nat, WellFormed(s), NEW i \in Nodes(s)
  PROVE  /\ i \in 1 .. Len(s) /\ NodeEnd(s, i) \in i .. Len(s)
         /\ Depth(s, NodeEnd(s, i)) = 0
         /\ \A k \in i .. NodeEnd(s, i) - 1 : Depth(s, k) > 0
         /\ ~IsRegion(s, i) => NodeEnd(s, i) = i /\ s[i].gate \notin Markers
<1>1. i \in 1 .. Len(s) /\ Len(s) \in Nat /\ Depth(s, i - 1) = 0 /\ Depth(s, Len(s)) = 0
  BY DEF Nodes, WellFormed
<1>2. s[i].gate \notin {"BranchElse", "BranchEnd"}
  BY <1>1 DEF WellFormed
<1> DEFINE T == {j \in i .. Len(s) : Depth(s, j) =< 0}
<1>3. T \in SUBSET Nat /\ T # {}
  BY <1>1
<1>4. PICK e \in T : \A j \in T : e =< j
  BY <1>3, LeastExists
<1>5. e \in i .. Len(s) /\ Depth(s, e) =< 0
  BY <1>4
<1>6. \A k \in i .. e - 1 : Depth(s, k) > 0
  <2> SUFFICES ASSUME NEW k \in i .. e - 1 PROVE Depth(s, k) > 0
    OBVIOUS
  <2>1. k \in i .. Len(s) /\ k \in Int /\ ~(e =< k)
    BY <1>1, <1>5
  <2>2. Depth(s, k) \in Int /\ k \notin T
    BY <1>4, <2>1, DepthType
  <2> QED
    BY <2>1, <2>2
<1>7. Depth(s, e) = 0
  <2>1. Depth(s, e) \in Int /\ Depth(s, e - 1) \in Int
    BY <1>1, <1>5, DepthType
  <2>2. Depth(s, e) >= Depth(s, e - 1) - 1
    BY <1>1, <1>5, <2>1, DepthStep
  <2>3. CASE e = i
    <3>1. Depth(s, i) >= Depth(s, i - 1)
      BY <1>1, <1>2, DepthStep
    <3> QED
      BY <1>1, <1>5, <2>1, <2>3, <3>1
  <2>4. CASE e # i
    <3>1. e - 1 \in i .. e - 1
      BY <1>1, <1>5, <2>4
    <3> QED
      BY <1>5, <1>6, <2>1, <2>2, <3>1
  <2> QED
    BY <2>3, <2>4
<1>8. \A j \in i .. Len(s) :
        Depth(s, j) = 0 /\ (\A k \in i .. j - 1 : Depth(s, k) > 0) => j = e
  <2> SUFFICES ASSUME NEW j \in i .. Len(s), Depth(s, j) = 0,
                      \A k \in i .. j - 1 : Depth(s, k) > 0
               PROVE  j = e
    OBVIOUS
  <2>1. j \in Int /\ e \in Int /\ i \in Int
    BY <1>1, <1>5
  <2>2. e =< j
    BY <1>4, <2>1
  <2>3. CASE e < j
    <3>1. e \in i .. j - 1
      BY <1>5, <2>1, <2>3
    <3> QED
      BY <1>7, <3>1
  <2> QED
    BY <2>1, <2>2, <2>3
<1>9. NodeEnd(s, i) = e
  BY <1>5, <1>6, <1>7, <1>8 DEF NodeEnd
<1>10. ASSUME ~IsRegion(s, i) PROVE e = i /\ s[i].gate \notin Markers
  <2>1. Depth(s, i) = Depth(s, i - 1)
    BY <1>1, <1>2, <1>10, DepthStep DEF IsRegion
  <2> QED
    BY <1>1, <1>2, <1>4, <1>5, <1>10, <2>1 DEF IsRegion, Markers
<1> QED
  BY <1>1, <1>5, <1>6, <1>7, <1>9, <1>10

LEMMA NodeEnds ==
  ASSUME NEW s \in Seq(Command), WellFormed(s), NEW i \in Nodes(s)
  PROVE  /\ i \in 1 .. Len(s) /\ NodeEnd(s, i) \in i .. Len(s)
         /\ Depth(s, NodeEnd(s, i)) = 0
         /\ \A k \in i .. NodeEnd(s, i) - 1 : Depth(s, k) > 0
         /\ ~IsRegion(s, i) => NodeEnd(s, i) = i /\ s[i].gate \notin Markers
<1>1. Len(s) \in Nat
  OBVIOUS
<1> QED
  BY <1>1, NodeEndsIn

\* No command belongs to two nodes.
LEMMA NodesDisjoint ==
  ASSUME NEW s \in Seq(Command), WellFormed(s), NEW i \in Nodes(s), NEW m \in Nodes(s),
         NEW n \in i .. NodeEnd(s, i), n \in m .. NodeEnd(s, m)
  PROVE  i = m
<1>1. ASSUME NEW a \in Nodes(s), NEW b \in Nodes(s), a < b, n \in a .. NodeEnd(s, a),
             n \in b .. NodeEnd(s, b)
      PROVE  FALSE
  <2>1. a \in Nat /\ b \in Nat /\ n \in Int /\ NodeEnd(s, a) \in Int
    BY NodeEnds
  <2>2. b - 1 \in a .. NodeEnd(s, a) - 1
    BY <1>1, <2>1
  <2>3. Depth(s, b - 1) > 0
    BY <2>2, NodeEnds
  <2> QED
    BY <2>3 DEF Nodes
<1>2. i \in Nat /\ m \in Nat
  BY NodeEnds
<1> QED
  BY <1>1, <1>2

\* Every command belongs to a node.
LEMMA NodeOfIt ==
  ASSUME NEW s \in Seq(Command), WellFormed(s), NEW n \in 1 .. Len(s)
  PROVE  NodeOf(s, n) \in Nodes(s) /\ n \in NodeOf(s, n) .. NodeEnd(s, NodeOf(s, n))
<1> DEFINE T == {i \in Nodes(s) : i =< n}
<1>1. n \in Nat /\ Len(s) \in Nat
  OBVIOUS
<1>2. T \in SUBSET Nat /\ \A i \in T : i =< n
  BY DEF Nodes
<1>3. 1 \in T
  BY <1>1, DepthZero DEF Nodes
<1>4. IsFiniteSet(T)
  BY <1>1, <1>2, FS_BoundedSetOfNaturals
<1>5. PICK i \in T : \A j \in T : j =< i
  BY <1>2, <1>3, <1>4, GreatestExists
<1>6. i \in Nodes(s) /\ i =< n /\ i \in Nat
  BY <1>2, <1>5
<1>7. NodeEnd(s, i) \in i .. Len(s) /\ Depth(s, NodeEnd(s, i)) = 0
  BY <1>6, NodeEnds
<1>8. n =< NodeEnd(s, i)
  <2> SUFFICES ASSUME NodeEnd(s, i) < n PROVE FALSE
    BY <1>1, <1>6, <1>7
  <2>1. NodeEnd(s, i) + 1 \in Nodes(s)
    BY <1>1, <1>6, <1>7 DEF Nodes
  <2>2. NodeEnd(s, i) + 1 \in T
    BY <1>1, <1>6, <1>7, <2>1
  <2> QED
    BY <1>5, <1>6, <1>7, <2>2
<1>9. n \in i .. NodeEnd(s, i)
  BY <1>1, <1>6, <1>7, <1>8
<1> QED
  BY <1>6, <1>9 DEF NodeOf

\* The node a command belongs to is its NodeOf.
LEMMA NodeOfUnique ==
  ASSUME NEW s \in Seq(Command), WellFormed(s), NEW i \in Nodes(s),
         NEW n \in i .. NodeEnd(s, i)
  PROVE  NodeOf(s, n) = i
<1>1. n \in 1 .. Len(s)
  BY NodeEnds
<1> QED
  BY <1>1, NodeOfIt, NodesDisjoint

-----------------------------------------------------------------------------
(* Wires.                                                                  *)

LEMMA ImageFinite ==
  ASSUME NEW S, IsFiniteSet(S), NEW f
  PROVE  IsFiniteSet({f[x] : x \in S})
<1> DEFINE g == [x \in S |-> f[x]]
           T == {f[x] : x \in S}
<1>1. g \in Surjection(S, T)
  BY DEF Surjection
<1> QED
  BY <1>1, FS_Surjection

\* A node is on finitely many wires.
LEMMA WiresFinite ==
  ASSUME NEW s \in Seq(Command), NEW i \in 1 .. Len(s)
  PROVE  IsFiniteSet(Wires(s, i))
<1>1. IsFiniteSet(1 .. Len(s)) /\ DOMAIN s = 1 .. Len(s)
  BY FS_Interval
<1> DEFINE ops == [j \in 1 .. Len(s) |-> Operands(s[j])]
           cbs == [j \in 1 .. Len(s) |-> s[j].bits]
<1>2. \A j \in 1 .. Len(s) : IsFiniteSet(Operands(s[j])) /\ IsFiniteSet(s[j].bits)
  <2> SUFFICES ASSUME NEW j \in 1 .. Len(s)
               PROVE  IsFiniteSet(Operands(s[j])) /\ IsFiniteSet(s[j].bits)
    OBVIOUS
  <2>1. s[j] \in Command
    OBVIOUS
  <2>2. s[j].qubits \in Seq(Nat) /\ IsFiniteSet(s[j].bits)
    BY <2>1 DEF Command
  <2>3. DOMAIN s[j].qubits = 1 .. Len(s[j].qubits) /\ Len(s[j].qubits) \in Nat
    BY <2>2
  <2>4. IsFiniteSet(DOMAIN s[j].qubits)
    <3>1. ASSUME NEW n \in Nat PROVE IsFiniteSet(1 .. n)
      BY FS_Interval
    <3> QED
      BY <2>3, <3>1
  <2> QED
    BY <2>2, <2>4, ImageFinite DEF Operands
<1>3. IsFiniteSet(UNION {Operands(s[j]) : j \in DOMAIN s})
  <2>1. {Operands(s[j]) : j \in DOMAIN s} = {ops[j] : j \in 1 .. Len(s)}
    BY <1>1
  <2>2. IsFiniteSet({ops[j] : j \in 1 .. Len(s)})
    BY <1>1, ImageFinite
  <2>3. \A T \in {ops[j] : j \in 1 .. Len(s)} : IsFiniteSet(T)
    BY <1>2
  <2> HIDE DEF ops
  <2> QED
    BY <2>1, <2>2, <2>3, FS_UNION
<1>4. IsFiniteSet(UNION {s[j].bits : j \in DOMAIN s})
  <2>1. {s[j].bits : j \in DOMAIN s} = {cbs[j] : j \in 1 .. Len(s)}
    BY <1>1
  <2>2. IsFiniteSet({cbs[j] : j \in 1 .. Len(s)})
    BY <1>1, ImageFinite
  <2>3. \A T \in {cbs[j] : j \in 1 .. Len(s)} : IsFiniteSet(T)
    BY <1>2
  <2> HIDE DEF cbs
  <2> QED
    BY <2>1, <2>2, <2>3, FS_UNION
<1> DEFINE A == UNION {Operands(s[j]) : j \in DOMAIN s}
           B == UNION {s[j].bits : j \in DOMAIN s}
           K == {"qubit", "cbit", "global"}
           AllWires == K \X (A \cup B \cup {0})
<1>5. IsFiniteSet(K)
  <2>1. IsFiniteSet({"qubit"})
    BY FS_Singleton
  <2>2. IsFiniteSet({"qubit"} \cup {"cbit"})
    BY <2>1, FS_AddElement
  <2>3. IsFiniteSet({"qubit"} \cup {"cbit"} \cup {"global"})
    BY <2>2, FS_AddElement
  <2>4. K = {"qubit"} \cup {"cbit"} \cup {"global"}
    OBVIOUS
  <2> QED
    BY <2>3, <2>4
<1>6. IsFiniteSet(A \cup B \cup {0})
  <2>1. IsFiniteSet(A \cup B)
    BY <1>3, <1>4, FS_Union
  <2> QED
    BY <2>1, FS_AddElement
<1>7. IsFiniteSet(AllWires)
  BY <1>5, <1>6, FS_Product
<1>8. Operands(s[i]) \subseteq A /\ s[i].bits \subseteq B
  BY <1>1
<1>9. QubitWires(s) \subseteq AllWires /\ CbitWires(s) \subseteq AllWires
      /\ GlobalWire \in AllWires
  BY DEF QubitWires, CbitWires, GlobalWire
<1>10. {<<"qubit", q>> : q \in Operands(s[i])} \subseteq AllWires
       /\ {<<"cbit", b>> : b \in s[i].bits} \subseteq AllWires
  BY <1>8
<1>11. Wires(s, i) \subseteq AllWires
  <2> HIDE DEF AllWires
  <2> QED
    BY <1>9, <1>10 DEF Wires
<1> HIDE DEF AllWires
<1> QED
  BY <1>7, <1>11, FS_Subset

\* The wires of a node: its operands, its bits, and the global wire where the
\* node is a phase, a fence or a region.
LEMMA NodeWires ==
  ASSUME NEW s \in Seq(Command), NEW i \in 1 .. Len(s)
  PROVE  /\ \A q \in Operands(s[i]) : <<"qubit", q>> \in Wires(s, i)
         /\ \A b \in s[i].bits : <<"cbit", b>> \in Wires(s, i)
         /\ s[i].gate = "GPhase" \/ IsFence(s[i]) \/ IsRegion(s, i) => GlobalWire \in Wires(s, i)
         /\ IsFence(s[i]) \/ IsRegion(s, i) => QubitWires(s) \subseteq Wires(s, i)
         /\ IsRegion(s, i) => CbitWires(s) \subseteq Wires(s, i)
<1>1. DOMAIN s = 1 .. Len(s)
  OBVIOUS
<1>2. \A q \in Operands(s[i]) : <<"qubit", q>> \in QubitWires(s)
  BY <1>1 DEF QubitWires
<1>3. \A b \in s[i].bits : <<"cbit", b>> \in CbitWires(s)
  BY <1>1 DEF CbitWires
<1> QED
  BY <1>2, <1>3 DEF Wires

\* A command of a region, and a command outside any.
LEMMA CommandOfNode ==
  ASSUME NEW s \in Seq(Command), WellFormed(s), NEW i \in Nodes(s),
         NEW n \in i .. NodeEnd(s, i)
  PROVE  /\ n \in 1 .. Len(s)
         /\ IsRegion(s, i) => InRegion(s, n)
         /\ ~IsRegion(s, i) => n = i /\ ~InRegion(s, n)
<1>1. /\ i \in 1 .. Len(s) /\ NodeEnd(s, i) \in i .. Len(s) /\ Depth(s, NodeEnd(s, i)) = 0
      /\ \A k \in i .. NodeEnd(s, i) - 1 : Depth(s, k) > 0
      /\ ~IsRegion(s, i) => NodeEnd(s, i) = i /\ s[i].gate \notin Markers
  BY NodeEnds
<1>2. n \in 1 .. Len(s)
  BY <1>1
<1>3. ASSUME ~IsRegion(s, i) PROVE n = i /\ ~InRegion(s, n)
  <2>1. n = i /\ Depth(s, n) = 0 /\ s[n].gate # "BranchEnd"
    BY <1>1, <1>3 DEF Markers
  <2> QED
    BY <2>1 DEF InRegion
<1>4. ASSUME IsRegion(s, i) PROVE InRegion(s, n)
  <2>1. CASE n # NodeEnd(s, i)
    BY <1>1, <2>1 DEF InRegion
  <2>2. CASE n = NodeEnd(s, i)
    <3>1. Depth(s, i) = 1
      <4>1. Depth(s, i) = Depth(s, i - 1) + 1
        BY <1>1, <1>4, DepthStep DEF IsRegion
      <4> QED
        BY <4>1 DEF Nodes
    <3>2. n # i /\ n - 1 \in i .. NodeEnd(s, i) - 1
      BY <1>1, <2>2, <3>1
    <3>3. Depth(s, n) < Depth(s, n - 1)
      BY <1>1, <2>2, <3>2
    <3>4. Depth(s, n - 1) \in Int
      BY <1>2, DepthType
    <3>5. s[n].gate = "BranchEnd"
      BY <1>2, <3>3, <3>4, DepthStep
    <3> QED
      BY <3>5 DEF InRegion
  <2> QED
    BY <2>1, <2>2
<1> QED
  BY <1>2, <1>3, <1>4

\* A node that is no region is on a wire, and so is every other node with a region
\* in the same stream: a region spans every wire.
LEMMA RegionMeetsAll ==
  ASSUME NEW s \in Seq(Command), WellFormed(s), NEW i \in Nodes(s), NEW m \in Nodes(s),
         IsRegion(s, i)
  PROVE  Wires(s, i) \cap Wires(s, m) # {}
<1>1. i \in 1 .. Len(s) /\ m \in 1 .. Len(s) /\ DOMAIN s = 1 .. Len(s)
  BY NodeEnds
<1>2. /\ GlobalWire \in Wires(s, i) /\ QubitWires(s) \subseteq Wires(s, i)
      /\ CbitWires(s) \subseteq Wires(s, i)
  BY <1>1, NodeWires
<1>3. CASE IsRegion(s, m) \/ s[m].gate = "GPhase" \/ IsFence(s[m])
  <2>1. GlobalWire \in Wires(s, m)
    BY <1>1, <1>3, NodeWires
  <2> QED
    BY <1>2, <2>1
<1>4. CASE ~IsRegion(s, m) /\ s[m].gate # "GPhase" /\ ~IsFence(s[m])
  <2>1. s[m].gate \notin Markers
    BY <1>4, NodeEnds
  <2>2. s[m] \in Command
    BY <1>1
  <2>3. s[m].qubits # <<>> /\ s[m].qubits \in Seq(Nat)
    BY <1>4, <2>1, <2>2 DEF Command, IsFence
  <2>4. PICK q \in Operands(s[m]) : TRUE
    <3>1. 1 \in DOMAIN s[m].qubits
      BY <2>3
    <3> QED
      BY <3>1 DEF Operands
  <2>5. <<"qubit", q>> \in Wires(s, m) /\ <<"qubit", q>> \in QubitWires(s)
    BY <1>1, <2>4, NodeWires DEF QubitWires
  <2> QED
    BY <1>2, <2>5
<1> QED
  BY <1>3, <1>4

\* Two commands that must keep their order belong to one node, or to nodes that
\* share a wire.
LEMMA OrderedShareWire ==
  ASSUME NEW s \in Seq(Command), WellFormed(s), NEW i \in Nodes(s), NEW m \in Nodes(s),
         NEW j \in i .. NodeEnd(s, i), NEW n \in m .. NodeEnd(s, m), Ordered(s, j, n)
  PROVE  Wires(s, i) \cap Wires(s, m) # {}
<1>1. /\ i \in 1 .. Len(s) /\ m \in 1 .. Len(s) /\ j \in 1 .. Len(s) /\ n \in 1 .. Len(s)
  BY NodeEnds, CommandOfNode
<1>2. CASE IsRegion(s, i) \/ IsRegion(s, m)
  <2>1. CASE IsRegion(s, i)
    BY <2>1, RegionMeetsAll
  <2>2. CASE IsRegion(s, m)
    <3>1. Wires(s, m) \cap Wires(s, i) # {}
      BY <2>2, RegionMeetsAll
    <3> QED
      BY <3>1
  <2> QED
    BY <1>2, <2>1, <2>2
<1>3. CASE ~IsRegion(s, i) /\ ~IsRegion(s, m)
  <2>1. j = i /\ n = m /\ ~InRegion(s, i) /\ ~InRegion(s, m)
    BY <1>3, CommandOfNode
  <2>2. s[i] \in Command /\ s[m] \in Command
    BY <1>1
  <2>3. /\ \A q \in Operands(s[i]) : <<"qubit", q>> \in Wires(s, i)
        /\ \A q \in Operands(s[m]) : <<"qubit", q>> \in Wires(s, m)
        /\ \A b \in s[i].bits : <<"cbit", b>> \in Wires(s, i)
        /\ \A b \in s[m].bits : <<"cbit", b>> \in Wires(s, m)
        /\ s[i].gate = "GPhase" \/ IsFence(s[i]) => GlobalWire \in Wires(s, i)
        /\ s[m].gate = "GPhase" \/ IsFence(s[m]) => GlobalWire \in Wires(s, m)
        /\ IsFence(s[i]) => QubitWires(s) \subseteq Wires(s, i)
        /\ IsFence(s[m]) => QubitWires(s) \subseteq Wires(s, m)
    BY <1>1, NodeWires
  <2>4. ASSUME NEW k \in 1 .. Len(s), s[k].qubits # <<>>
        PROVE  \E q \in Operands(s[k]) : <<"qubit", q>> \in QubitWires(s)
    <3>1. s[k] \in Command
      OBVIOUS
    <3>2. 1 \in DOMAIN s[k].qubits
      BY <2>4, <3>1 DEF Command
    <3>3. s[k].qubits[1] \in Operands(s[k]) /\ k \in DOMAIN s
      BY <3>2 DEF Operands
    <3> QED
      BY <3>3 DEF QubitWires
  <2>5. CASE Operands(s[i]) \cap Operands(s[m]) # {} \/ s[i].bits \cap s[m].bits # {}
    BY <2>3, <2>5
  <2>6. CASE s[i].gate = "GPhase" /\ s[m].gate = "GPhase"
    BY <2>3, <2>6
  <2>7. CASE IsFence(s[i]) /\ UsesRegister(s[m])
    <3>1. CASE s[m].qubits # <<>>
      BY <1>1, <2>3, <2>4, <2>7, <3>1
    <3>2. CASE s[m].gate = "GPhase" \/ IsFence(s[m])
      BY <2>3, <2>7, <3>2
    <3> QED
      BY <2>7, <3>1, <3>2 DEF UsesRegister
  <2>8. CASE IsFence(s[m]) /\ UsesRegister(s[i])
    <3>1. CASE s[i].qubits # <<>>
      BY <1>1, <2>3, <2>4, <2>8, <3>1
    <3>2. CASE s[i].gate = "GPhase" \/ IsFence(s[i])
      BY <2>3, <2>8, <3>2
    <3> QED
      BY <2>8, <3>1, <3>2 DEF UsesRegister
  <2> QED
    BY <2>1, <2>5, <2>6, <2>7, <2>8 DEF Ordered
<1> QED
  BY <1>2, <1>3

-----------------------------------------------------------------------------
(* The reversed stream.                                                    *)

\* Which command of s stands at k in the reversed stream.
ReversedFrom(s, k) ==
  LET n == Len(s) + 1 - k
      i == NodeOf(s, n)
  IN i + NodeEnd(s, i) - n

\* The command at k and the one before it: next to each other in one node, or
\* the end of a node and the start of the node before it.
LEMMA ReversedFromStep ==
  ASSUME NEW s \in Seq(Command), WellFormed(s), NEW k \in 1 .. Len(s)
  PROVE  /\ ReversedFrom(s, k) \in 1 .. Len(s)
         /\ \/ /\ k > 1 /\ ReversedFrom(s, k) = ReversedFrom(s, k - 1) + 1
            \/ /\ Depth(s, ReversedFrom(s, k) - 1) = 0
               /\ k > 1 => Depth(s, ReversedFrom(s, k - 1)) = 0
<1> DEFINE n == Len(s) + 1 - k
           i == NodeOf(s, n)
<1>1. n \in 1 .. Len(s) /\ Len(s) \in Nat
  OBVIOUS
<1>2. i \in Nodes(s) /\ n \in i .. NodeEnd(s, i)
  BY <1>1, NodeOfIt
<1>3. i \in 1 .. Len(s) /\ NodeEnd(s, i) \in i .. Len(s) /\ Depth(s, NodeEnd(s, i)) = 0
  BY <1>2, NodeEnds
<1>4. ReversedFrom(s, k) = i + NodeEnd(s, i) - n
  BY DEF ReversedFrom
<1>5. ReversedFrom(s, k) \in 1 .. Len(s)
  BY <1>1, <1>2, <1>3, <1>4
<1>6. CASE n < NodeEnd(s, i)
  <2>1. k > 1 /\ k - 1 \in 1 .. Len(s) /\ Len(s) + 1 - (k - 1) = n + 1
    BY <1>1, <1>3, <1>6
  <2>2. n + 1 \in i .. NodeEnd(s, i)
    BY <1>2, <1>3, <1>6
  <2>3. NodeOf(s, n + 1) = i
    BY <1>2, <2>2, NodeOfUnique
  <2>4. ReversedFrom(s, k - 1) = i + NodeEnd(s, i) - (n + 1)
    BY <2>1, <2>3 DEF ReversedFrom
  <2> QED
    BY <1>1, <1>3, <1>4, <1>5, <2>1, <2>4
<1>7. CASE n = NodeEnd(s, i)
  <2>1. ReversedFrom(s, k) = i
    BY <1>1, <1>3, <1>4, <1>7
  <2>2. Depth(s, i - 1) = 0
    BY <1>2 DEF Nodes
  <2>3. ASSUME k > 1
        PROVE  Depth(s, ReversedFrom(s, k - 1)) = 0
    <3>1. Len(s) + 1 - (k - 1) = n + 1 /\ n + 1 \in 1 .. Len(s)
      BY <1>1, <2>3
    <3>2. n + 1 \in Nodes(s)
      BY <1>1, <1>3, <1>7, <3>1 DEF Nodes
    <3>3. NodeEnd(s, n + 1) \in n + 1 .. Len(s) /\ Depth(s, NodeEnd(s, n + 1)) = 0
      BY <3>2, NodeEnds
    <3>4. NodeOf(s, n + 1) = n + 1
      BY <1>1, <3>2, <3>3, NodeOfUnique
    <3>5. ReversedFrom(s, k - 1) = NodeEnd(s, n + 1)
      BY <1>1, <3>1, <3>3, <3>4 DEF ReversedFrom
    <3> QED
      BY <3>3, <3>5
  <2> QED
    BY <1>5, <2>1, <2>2, <2>3
<1> QED
  BY <1>1, <1>2, <1>3, <1>6, <1>7

\* Reversing keeps the commands, and the depth each of them runs at.
LEMMA ReversedDepth ==
  ASSUME NEW s \in Seq(Command), WellFormed(s)
  PROVE  /\ Reversed(s) \in Seq(Command) /\ Len(Reversed(s)) = Len(s)
         /\ \A k \in 1 .. Len(s) :
              /\ Reversed(s)[k] = s[ReversedFrom(s, k)]
              /\ Depth(Reversed(s), k) = Depth(s, ReversedFrom(s, k))
<1> DEFINE r == Reversed(s)
<1>1. r = [k \in 1 .. Len(s) |-> s[ReversedFrom(s, k)]]
  BY DEF Reversed, ReversedFrom
<1>2. \A k \in 1 .. Len(s) : ReversedFrom(s, k) \in 1 .. Len(s)
  BY ReversedFromStep
<1>3. r \in [1 .. Len(s) -> Command] /\ Len(s) \in Nat
  BY <1>1, <1>2
<1>4. r \in Seq(Command) /\ Len(r) = Len(s)
  <2> HIDE DEF r
  <2> QED
    BY <1>3
<1> HIDE DEF r
<1> DEFINE Wrong == {k \in 1 .. Len(s) : Depth(r, k) # Depth(s, ReversedFrom(s, k))}
<1>5. Wrong = {}
  <2> SUFFICES ASSUME Wrong # {} PROVE FALSE
    OBVIOUS
  <2>1. PICK k \in Wrong : \A j \in Wrong : k =< j
    <3>1. Wrong \in SUBSET Nat
      OBVIOUS
    <3> HIDE DEF Wrong
    <3> QED
      BY <3>1, LeastExists
  <2> DEFINE f == ReversedFrom(s, k)
  <2>2. k \in 1 .. Len(s) /\ f \in 1 .. Len(s) /\ Depth(r, k) # Depth(s, f)
    BY <1>2, <2>1
  <2>3. r[k] = s[f]
    BY <1>1, <2>2
  <2>4. Depth(r, k) \in Int /\ Depth(r, k - 1) \in Int /\ Depth(s, f) \in Int
        /\ Depth(s, f - 1) \in Int
    BY <2>2, DepthType
  <2>5. Depth(r, k) - Depth(r, k - 1) = Depth(s, f) - Depth(s, f - 1)
    <3> DEFINE d(g) == CASE g = "BranchBegin" -> 1
                         [] g = "BranchEnd"   -> -1
                         [] OTHER             -> 0
    <3>1. Depth(r, k) = Depth(r, k - 1) + d(r[k].gate)
      BY <1>4, <2>2, DepthStep
    <3>2. Depth(s, f) = Depth(s, f - 1) + d(s[f].gate)
      BY <2>2, DepthStep
    <3>3. d(r[k].gate) = d(s[f].gate) /\ d(s[f].gate) \in Int
      BY <2>3
    <3> HIDE DEF d
    <3> QED
      BY <2>4, <3>1, <3>2, <3>3
  <2>6. k > 1 => Depth(r, k - 1) = Depth(s, ReversedFrom(s, k - 1))
    <3> SUFFICES ASSUME k > 1 PROVE k - 1 \notin Wrong /\ k - 1 \in 1 .. Len(s)
      OBVIOUS
    <3> QED
      BY <2>1, <2>2
  <2>7. Depth(r, k - 1) = Depth(s, f - 1)
    <3>1. CASE k = 1
      <4>1. Depth(s, f - 1) = 0
        BY <2>2, <3>1, ReversedFromStep
      <4> QED
        BY <3>1, <4>1, DepthZero
    <3>2. CASE k > 1 /\ f = ReversedFrom(s, k - 1) + 1
      <4>1. ReversedFrom(s, k - 1) \in Int
        BY <1>2, <2>2, <3>2
      <4> QED
        BY <2>6, <3>2, <4>1
    <3>3. CASE k > 1 /\ Depth(s, f - 1) = 0 /\ Depth(s, ReversedFrom(s, k - 1)) = 0
      BY <2>6, <3>3
    <3> QED
      BY <2>2, <3>1, <3>2, <3>3, ReversedFromStep
  <2> QED
    BY <2>2, <2>4, <2>5, <2>7
<1>6. \A k \in 1 .. Len(s) : r[k] = s[ReversedFrom(s, k)]
  BY <1>1
<1> QED
  BY <1>4, <1>5, <1>6 DEF r

\* Every command is at some place of the reversed stream, and the stream stays
\* well-formed.
LEMMA ReversedWellFormed ==
  ASSUME NEW s \in Seq(Command), WellFormed(s)
  PROVE  WellFormed(Reversed(s))
<1> DEFINE r == Reversed(s)
<1>1. /\ r \in Seq(Command) /\ Len(r) = Len(s) /\ Len(s) \in Nat
      /\ \A k \in 1 .. Len(s) : r[k] = s[ReversedFrom(s, k)]
                                  /\ Depth(r, k) = Depth(s, ReversedFrom(s, k))
      /\ \A k \in 1 .. Len(s) : ReversedFrom(s, k) \in 1 .. Len(s)
  BY ReversedDepth, ReversedFromStep
<1> HIDE DEF r
<1>2. ASSUME NEW k \in 1 .. Len(s), Depth(r, k - 1) = 0
      PROVE  r[k].gate \notin {"BranchElse", "BranchEnd"}
  <2>1. Depth(s, ReversedFrom(s, k) - 1) = 0
    <3>1. CASE k > 1 /\ ReversedFrom(s, k) = ReversedFrom(s, k - 1) + 1
      <4>1. k - 1 \in 1 .. Len(s)
        BY <3>1
      <4> QED
        BY <1>1, <1>2, <3>1, <4>1
    <3> QED
      BY <3>1, ReversedFromStep
  <2> QED
    BY <1>1, <2>1 DEF WellFormed
<1>3. Depth(r, Len(r)) = 0
  <2>1. CASE Len(s) = 0
    BY <1>1, <2>1, DepthZero
  <2>2. CASE Len(s) # 0
    <3>1. 1 \in 1 .. Len(s) /\ Len(s) \in 1 .. Len(s) /\ Len(s) + 1 - Len(s) = 1
      BY <1>1, <2>2
    <3>2. 1 \in Nodes(s)
      BY <3>1, DepthZero DEF Nodes
    <3>3. NodeEnd(s, 1) \in 1 .. Len(s) /\ Depth(s, NodeEnd(s, 1)) = 0
      BY <3>2, NodeEnds
    <3>4. NodeOf(s, 1) = 1
      BY <3>2, <3>3, NodeOfUnique
    <3>5. ReversedFrom(s, Len(s)) = NodeEnd(s, 1)
      BY <3>1, <3>3, <3>4 DEF ReversedFrom
    <3> QED
      BY <1>1, <3>1, <3>3, <3>5
  <2> QED
    BY <2>1, <2>2
<1>4. WellFormed(r)
  BY <1>1, <1>2, <1>3 DEF WellFormed
<1> QED
  BY <1>4 DEF r

-----------------------------------------------------------------------------
(* Sequences                                                                *)

\* s is a sequence.
Listed(s) == \E T : s \in Seq(T)

\* The sequences flattened so far.
JoinsUpTo(f, ss, n) == f = [i \in 1 .. n |-> IF i = 1 THEN ss[i] ELSE f[i - 1] \o ss[i]]

LEMMA JoinsExist ==
  ASSUME NEW S, NEW ss \in Seq(Seq(S)), NEW n \in 0 .. Len(ss)
  PROVE  \E f \in [1 .. n -> Seq(S)] : JoinsUpTo(f, ss, n)
<1> DEFINE Bad == {m \in 0 .. Len(ss) : ~ \E f \in [1 .. m -> Seq(S)] : JoinsUpTo(f, ss, m)}
<1> SUFFICES ASSUME Bad # {} PROVE FALSE
  OBVIOUS
<1>1. PICK m \in Bad : \A j \in Bad : m =< j
  <2>1. Bad \in SUBSET Nat
    OBVIOUS
  <2> HIDE DEF Bad
  <2> QED
    BY <2>1, LeastExists
<1>2. m \in 0 .. Len(ss) /\ Len(ss) \in Nat
  BY <1>1
<1>3. CASE m = 0
  <2> DEFINE f == [i \in 1 .. 0 |-> ss[i]]
  <2>1. f \in [1 .. 0 -> Seq(S)] /\ JoinsUpTo(f, ss, 0)
    BY DEF JoinsUpTo
  <2> QED
    BY <1>1, <1>3, <2>1
<1>4. CASE m # 0
  <2>1. m - 1 \in 0 .. Len(ss) /\ m - 1 \notin Bad
    <3>1. m - 1 \in 0 .. Len(ss) /\ ~ (m =< m - 1)
      BY <1>2, <1>4
    <3> HIDE DEF Bad
    <3> QED
      BY <1>1, <3>1
  <2>2. PICK f \in [1 .. m - 1 -> Seq(S)] : JoinsUpTo(f, ss, m - 1)
    BY <2>1
  <2> DEFINE last == IF m = 1 THEN ss[m] ELSE f[m - 1] \o ss[m]
             g == [i \in 1 .. m |-> IF i = m THEN last ELSE f[i]]
  <2>3. ss[m] \in Seq(S) /\ (m # 1 => f[m - 1] \in Seq(S))
    BY <1>2, <1>4
  <2>4. last \in Seq(S)
    BY <2>3
  <2> HIDE DEF last
  <2>5. g \in [1 .. m -> Seq(S)]
    BY <1>2, <2>4
  <2>6. g[m] = last /\ \A i \in 1 .. m - 1 : g[i] = f[i]
    BY <1>2, <1>4
  <2>7. DOMAIN g = 1 .. m /\ g = [i \in 1 .. m |-> g[i]]
    OBVIOUS
  <2> HIDE DEF g
  <2>8. ASSUME NEW i \in 1 .. m
        PROVE  g[i] = IF i = 1 THEN ss[i] ELSE g[i - 1] \o ss[i]
    <3>1. CASE i = m
      <4>1. i # 1 => g[i - 1] = f[m - 1]
        BY <1>2, <2>6, <3>1
      <4> QED
        BY <2>6, <3>1, <4>1 DEF last
    <3>2. CASE i # m
      <4>1. i \in 1 .. m - 1 /\ g[i] = f[i] /\ (i # 1 => g[i - 1] = f[i - 1])
        BY <1>2, <2>6, <3>2
      <4>2. f[i] = IF i = 1 THEN ss[i] ELSE f[i - 1] \o ss[i]
        <5> DEFINE J == [j \in 1 .. m - 1 |-> IF j = 1 THEN ss[j] ELSE f[j - 1] \o ss[j]]
        <5>1. f = J
          BY <2>2 DEF JoinsUpTo
        <5>2. J[i] = IF i = 1 THEN ss[i] ELSE f[i - 1] \o ss[i]
          BY <4>1
        <5> HIDE DEF J
        <5> QED
          BY <5>1, <5>2
      <4> QED
        BY <4>1, <4>2
    <3> QED
      BY <3>1, <3>2
  <2>9. JoinsUpTo(g, ss, m)
    BY <2>7, <2>8 DEF JoinsUpTo
  <2> QED
    BY <1>1, <2>5, <2>9
<1> QED
  BY <1>3, <1>4

LEMMA FlattenIn ==
  ASSUME NEW S, NEW ss \in Seq(Seq(S))
  PROVE  FlattenSeq(ss) \in Seq(S)
<1> DEFINE n == Len(ss)
<1>1. n \in Nat
  OBVIOUS
<1>2. CASE n = 0
  <2>1. FlattenSeq(ss) = ss /\ ss = <<>>
    BY <1>2 DEF FlattenSeq
  <2> QED
    BY <2>1
<1>3. CASE n # 0
  <2> DEFINE F == CHOOSE f : f = [i \in 1 .. n |-> IF i = 1 THEN ss[i] ELSE f[i - 1] \o ss[i]]
  <2>1. PICK f \in [1 .. n -> Seq(S)] : JoinsUpTo(f, ss, n)
    BY <1>1, JoinsExist
  <2>2. JoinsUpTo(F, ss, n)
    BY <2>1 DEF JoinsUpTo
  <2>3. FlattenSeq(ss) = F[n]
    BY <1>3 DEF FlattenSeq
  <2> HIDE DEF F
  <2> DEFINE Bad == {i \in 1 .. n : F[i] \notin Seq(S)}
  <2>4. Bad = {}
    <3> SUFFICES ASSUME Bad # {} PROVE FALSE
      OBVIOUS
    <3>1. PICK m \in Bad : \A j \in Bad : m =< j
      <4>1. Bad \in SUBSET Nat
        OBVIOUS
      <4> HIDE DEF Bad
      <4> QED
        BY <4>1, LeastExists
    <3>2. m \in 1 .. n /\ F[m] \notin Seq(S) /\ ss[m] \in Seq(S)
      BY <3>1
    <3>3. F[m] = IF m = 1 THEN ss[m] ELSE F[m - 1] \o ss[m]
      <4> DEFINE J == [j \in 1 .. n |-> IF j = 1 THEN ss[j] ELSE F[j - 1] \o ss[j]]
      <4>1. F = J
        BY <2>2 DEF JoinsUpTo
      <4>2. J[m] = IF m = 1 THEN ss[m] ELSE F[m - 1] \o ss[m]
        BY <3>2
      <4> HIDE DEF J
      <4> QED
        BY <4>1, <4>2
    <3>4. m # 1
      BY <3>2, <3>3
    <3>5. m - 1 \in 1 .. n /\ m - 1 \notin Bad
      BY <1>1, <3>1, <3>2, <3>4
    <3>6. F[m - 1] \in Seq(S)
      BY <3>5
    <3> QED
      BY <3>2, <3>3, <3>4, <3>6
  <2>5. n \in 1 .. n
    BY <1>1, <1>3
  <2> QED
    BY <2>3, <2>4, <2>5
<1> QED
  BY <1>2, <1>3

\* A flattened sequence holds what its pieces hold.
LEMMA FlattenPieces ==
  ASSUME NEW ss, Listed(ss), \A i \in DOMAIN ss : Listed(ss[i])
  PROVE  \E S : /\ FlattenSeq(ss) \in Seq(S)
                /\ \A x \in S : \E i \in DOMAIN ss : \E j \in DOMAIN ss[i] : x = ss[i][j]
<1> DEFINE S == UNION {Range(ss[i]) : i \in DOMAIN ss}
<1>1. \A i \in DOMAIN ss : ss[i] \in Seq(S)
  <2> SUFFICES ASSUME NEW i \in DOMAIN ss PROVE ss[i] \in Seq(S)
    OBVIOUS
  <2>1. PICK T : ss[i] \in Seq(T)
    BY DEF Listed
  <2>2. \A j \in 1 .. Len(ss[i]) : ss[i][j] \in S
    <3>1. DOMAIN ss[i] = 1 .. Len(ss[i])
      BY <2>1
    <3> QED
      BY <3>1 DEF Range
  <2> HIDE DEF S
  <2> QED
    BY <2>1, <2>2
<1>2. ss \in Seq(Seq(S))
  <2>1. PICK T : ss \in Seq(T)
    BY DEF Listed
  <2>2. DOMAIN ss = 1 .. Len(ss)
    BY <2>1
  <2> HIDE DEF S
  <2> QED
    BY <1>1, <2>1, <2>2
<1>3. \A x \in S : \E i \in DOMAIN ss : \E j \in DOMAIN ss[i] : x = ss[i][j]
  BY DEF Range
<1> HIDE DEF S
<1>4. FlattenSeq(ss) \in Seq(S)
  BY <1>2, FlattenIn
<1> QED
  BY <1>3, <1>4

\* Sequences of sequences have their elements in one set.
LEMMA PiecesIn ==
  ASSUME NEW ss, Listed(ss), \A i \in DOMAIN ss : Listed(ss[i])
  PROVE  \E S : ss \in Seq(Seq(S))
<1> DEFINE S == UNION {Range(ss[i]) : i \in DOMAIN ss}
<1>1. \A i \in DOMAIN ss : ss[i] \in Seq(S)
  <2> SUFFICES ASSUME NEW i \in DOMAIN ss PROVE ss[i] \in Seq(S)
    OBVIOUS
  <2>1. PICK T : ss[i] \in Seq(T)
    BY DEF Listed
  <2>2. \A j \in 1 .. Len(ss[i]) : ss[i][j] \in S
    <3>1. DOMAIN ss[i] = 1 .. Len(ss[i])
      BY <2>1
    <3> QED
      BY <3>1 DEF Range
  <2> HIDE DEF S
  <2> QED
    BY <2>1, <2>2
<1>2. PICK T : ss \in Seq(T)
  BY DEF Listed
<1>3. DOMAIN ss = 1 .. Len(ss)
  BY <1>2
<1> HIDE DEF S
<1>4. ss \in Seq(Seq(S))
  BY <1>1, <1>2, <1>3
<1> QED
  BY <1>4

LEMMA FlattenNone == FlattenSeq(<<>>) = <<>>
BY DEF FlattenSeq

\* A flattened sequence is joined piece by piece.
LEMMA FlattenForm ==
  ASSUME NEW S, NEW ss \in Seq(Seq(S)), ss # <<>>
  PROVE  \E F \in [1 .. Len(ss) -> Seq(S)] :
           /\ FlattenSeq(ss) = F[Len(ss)] /\ F[1] = ss[1]
           /\ \A i \in 2 .. Len(ss) : F[i] = F[i - 1] \o ss[i]
<1> DEFINE n == Len(ss)
           F == CHOOSE f : f = [i \in 1 .. n |-> IF i = 1 THEN ss[i] ELSE f[i - 1] \o ss[i]]
<1>1. n \in Nat /\ n # 0
  OBVIOUS
<1>2. PICK f \in [1 .. n -> Seq(S)] : JoinsUpTo(f, ss, n)
  BY <1>1, JoinsExist
<1>3. JoinsUpTo(F, ss, n)
  BY <1>2 DEF JoinsUpTo
<1>4. FlattenSeq(ss) = F[n]
  BY <1>1 DEF FlattenSeq
<1> HIDE DEF F
<1>5. ASSUME NEW i \in 1 .. n PROVE F[i] = IF i = 1 THEN ss[i] ELSE F[i - 1] \o ss[i]
  <2> DEFINE J == [j \in 1 .. n |-> IF j = 1 THEN ss[j] ELSE F[j - 1] \o ss[j]]
  <2>1. F = J
    BY <1>3 DEF JoinsUpTo
  <2>2. J[i] = IF i = 1 THEN ss[i] ELSE F[i - 1] \o ss[i]
    OBVIOUS
  <2> HIDE DEF J
  <2> QED
    BY <2>1, <2>2
<1>6. F[1] = ss[1] /\ \A i \in 2 .. n : F[i] = F[i - 1] \o ss[i]
  <2>1. F[1] = ss[1]
    <3>1. 1 \in 1 .. n
      BY <1>1
    <3> QED
      BY <1>5, <3>1
  <2>2. ASSUME NEW i \in 2 .. n PROVE F[i] = F[i - 1] \o ss[i]
    <3>1. i \in 1 .. n /\ i # 1
      BY <1>1
    <3> QED
      BY <1>5, <3>1
  <2> QED
    BY <2>1, <2>2
<1> DEFINE Bad == {i \in 1 .. n : F[i] \notin Seq(S)}
<1>7. Bad = {}
  <2> SUFFICES ASSUME Bad # {} PROVE FALSE
    OBVIOUS
  <2>1. PICK m \in Bad : \A j \in Bad : m =< j
    <3>1. Bad \in SUBSET Nat
      OBVIOUS
    <3> HIDE DEF Bad
    <3> QED
      BY <3>1, LeastExists
  <2>2. m \in 1 .. n /\ F[m] \notin Seq(S) /\ ss[m] \in Seq(S)
    BY <2>1
  <2>3. m # 1
    BY <1>1, <1>6, <2>2
  <2>4. m - 1 \in 1 .. n /\ m - 1 \notin Bad
    BY <1>1, <2>1, <2>2, <2>3
  <2>5. F[m - 1] \in Seq(S)
    BY <2>4
  <2>6. F[m] = F[m - 1] \o ss[m]
    <3>1. m \in 2 .. n
      BY <1>1, <2>2, <2>3
    <3> QED
      BY <1>6, <3>1
  <2>7. F[m - 1] \o ss[m] \in Seq(S)
    BY <2>2, <2>5
  <2> QED
    BY <2>2, <2>6, <2>7
<1>8. F = [i \in 1 .. n |-> F[i]]
  BY <1>3 DEF JoinsUpTo
<1>9. F \in [1 .. n -> Seq(S)]
  BY <1>7, <1>8
<1> QED
  BY <1>4, <1>6, <1>9

-----------------------------------------------------------------------------
(* Twins: commands that differ in names only                                *)

\* A renaming: of the wires in x.wires to x.ends and of x.symbols, and the gates
\* that may be written.
Renaming(x) ==
  /\ \A w \in x.wires : x.wire[w] \in x.ends
  /\ None \notin x.symbols /\ \A a \in x.symbols : x.name[a] # None

\* The same operands, and the same parameters, under the renaming.
Wired(x, q, r) ==
  /\ q \in Seq(x.wires) /\ r \in Seq(x.ends) /\ Len(r) = Len(q)
  /\ \A i \in 1 .. Len(q) : r[i] = x.wire[q[i]]

Turned(x, p, r) ==
  /\ p = [coeff |-> p.coeff, symbol |-> p.symbol, offset |-> p.offset]
  /\ p.symbol \in x.symbols \cup {None}
  /\ r = [coeff |-> p.coeff, offset |-> p.offset,
          symbol |-> IF p.symbol = None THEN None ELSE x.name[p.symbol]]

Angles(x, ps, rs) ==
  /\ Listed(ps) /\ Listed(rs) /\ Len(rs) = Len(ps)
  /\ \A i \in 1 .. Len(ps) : Turned(x, ps[i], rs[i])

\* A gate a rule writes, and the one it writes under the renaming.
Twin(x, d, e) ==
  /\ d = Make(d.gate, d.qubits, d.params, <<>>, <<>>)
  /\ e = Make(d.gate, e.qubits, e.params, <<>>, <<>>)
  /\ d.gate \in x.gates /\ HasShape(d) /\ (d.qubits = <<>> => d.gate = "GPhase")
  /\ Wired(x, d.qubits, e.qubits) /\ Angles(x, d.params, e.params)

Twins(x, s, t) ==
  /\ Listed(s) /\ Listed(t) /\ Len(t) = Len(s)
  /\ \A i \in 1 .. Len(s) : Twin(x, s[i], t[i])

-----------------------------------------------------------------------------
LEMMA ListedLen ==
  ASSUME NEW s, Listed(s)
  PROVE  Len(s) \in Nat /\ DOMAIN s = 1 .. Len(s)
BY DEF Listed

LEMMA ListedFunction ==
  ASSUME NEW n \in Nat, NEW s, s = [k \in 1 .. n |-> s[k]]
  PROVE  Listed(s) /\ Len(s) = n
<1> DEFINE S == {s[k] : k \in 1 .. n}
<1>1. s \in [1 .. n -> S]
  OBVIOUS
<1> HIDE DEF S
<1>2. s \in Seq(S) /\ Len(s) = n
  BY <1>1
<1> QED
  BY <1>2 DEF Listed

LEMMA ListedTuples ==
  /\ Listed(<<>>)
  /\ \A a : Listed(<<a>>)
  /\ \A a, b : Listed(<<a, b>>)
  /\ \A a, b, c : Listed(<<a, b, c>>)
  /\ \A a, b, c, d : Listed(<<a, b, c, d>>)
<1>1. <<>> \in Seq({})
  OBVIOUS
<1>2. ASSUME NEW a PROVE Listed(<<a>>)
  <2>1. <<a>> \in Seq({a})
    OBVIOUS
  <2> QED
    BY <2>1 DEF Listed
<1>3. ASSUME NEW a, NEW b PROVE Listed(<<a, b>>)
  <2>1. <<a, b>> \in Seq({a, b})
    OBVIOUS
  <2> QED
    BY <2>1 DEF Listed
<1>4. ASSUME NEW a, NEW b, NEW c PROVE Listed(<<a, b, c>>)
  <2>1. <<a, b, c>> \in Seq({a, b, c})
    OBVIOUS
  <2> QED
    BY <2>1 DEF Listed
<1>5. ASSUME NEW a, NEW b, NEW c, NEW d PROVE Listed(<<a, b, c, d>>)
  <2>1. <<a, b, c, d>> \in Seq({a, b, c, d})
    OBVIOUS
  <2> QED
    BY <2>1 DEF Listed
<1> QED
  BY <1>1, <1>2, <1>3, <1>4, <1>5 DEF Listed

LEMMA ListedJoin ==
  ASSUME NEW a, NEW b, Listed(a), Listed(b)
  PROVE  /\ Listed(a \o b) /\ Len(a \o b) = Len(a) + Len(b)
         /\ \A i \in 1 .. Len(a \o b) :
              (a \o b)[i] = IF i =< Len(a) THEN a[i] ELSE b[i - Len(a)]
<1>1. PICK S : a \in Seq(S)
  BY DEF Listed
<1>2. PICK T : b \in Seq(T)
  BY DEF Listed
<1>3. a \in Seq(S \cup T) /\ b \in Seq(S \cup T)
  BY <1>1, <1>2
<1>4. a \o b \in Seq(S \cup T)
  BY <1>3
<1>5. Listed(a \o b)
  BY <1>4 DEF Listed
<1> QED
  BY <1>3, <1>5

-----------------------------------------------------------------------------
(* Operands and parameters                                                 *)

LEMMA SeqTuples ==
  ASSUME NEW S, NEW a \in S, NEW b \in S, NEW c \in S
  PROVE  /\ <<a>> \in Seq(S) /\ Len(<<a>>) = 1 /\ <<a>>[1] = a
         /\ <<a, b>> \in Seq(S) /\ Len(<<a, b>>) = 2 /\ <<a, b>>[1] = a /\ <<a, b>>[2] = b
         /\ <<a, b, c>> \in Seq(S) /\ Len(<<a, b, c>>) = 3
         /\ <<a, b, c>>[1] = a /\ <<a, b, c>>[2] = b /\ <<a, b, c>>[3] = c
OBVIOUS

LEMMA WiredNone ==
  ASSUME NEW x
  PROVE  Wired(x, <<>>, <<>>)
BY DEF Wired

LEMMA WiredOne ==
  ASSUME NEW x, Renaming(x), NEW a \in x.wires, NEW u, u = x.wire[a]
  PROVE  Wired(x, <<a>>, <<u>>)
<1>1. u \in x.ends
  BY DEF Renaming
<1> DEFINE q == <<a>>
           r == <<u>>
<1>2. q \in Seq(x.wires) /\ r \in Seq(x.ends) /\ Len(q) = 1 /\ Len(r) = 1 /\ q[1] = a /\ r[1] = u
  BY <1>1, SeqTuples
<1> HIDE DEF q, r
<1>3. Wired(x, q, r)
  BY <1>2 DEF Wired
<1> QED
  BY <1>3 DEF q, r

LEMMA WiredTwo ==
  ASSUME NEW x, Renaming(x), NEW a \in x.wires, NEW b \in x.wires,
         NEW u, u = x.wire[a], NEW v, v = x.wire[b]
  PROVE  Wired(x, <<a, b>>, <<u, v>>)
<1>1. u \in x.ends /\ v \in x.ends
  BY DEF Renaming
<1> DEFINE q == <<a, b>>
           r == <<u, v>>
<1>2. /\ q \in Seq(x.wires) /\ r \in Seq(x.ends) /\ Len(q) = 2 /\ Len(r) = 2
      /\ q[1] = a /\ r[1] = u /\ q[2] = b /\ r[2] = v
  BY <1>1, SeqTuples
<1> HIDE DEF q, r
<1>3. Wired(x, q, r)
  BY <1>2 DEF Wired
<1> QED
  BY <1>3 DEF q, r

LEMMA WiredThree ==
  ASSUME NEW x, Renaming(x), NEW a \in x.wires, NEW b \in x.wires, NEW c \in x.wires,
         NEW u, u = x.wire[a], NEW v, v = x.wire[b], NEW w, w = x.wire[c]
  PROVE  Wired(x, <<a, b, c>>, <<u, v, w>>)
<1>1. u \in x.ends /\ v \in x.ends /\ w \in x.ends
  BY DEF Renaming
<1> DEFINE q == <<a, b, c>>
           r == <<u, v, w>>
<1>2. /\ q \in Seq(x.wires) /\ r \in Seq(x.ends) /\ Len(q) = 3 /\ Len(r) = 3
      /\ q[1] = a /\ r[1] = u /\ q[2] = b /\ r[2] = v /\ q[3] = c /\ r[3] = w
  BY <1>1, SeqTuples
<1> HIDE DEF q, r
<1>3. Wired(x, q, r)
  BY <1>2 DEF Wired
<1> QED
  BY <1>3 DEF q, r

LEMMA WiredAt ==
  ASSUME NEW x, NEW q, NEW r, Wired(x, q, r), NEW i \in 1 .. Len(q)
  PROVE  q[i] \in x.wires /\ r[i] = x.wire[q[i]] /\ r[i] \in x.ends
BY DEF Wired

LEMMA TurnedConcrete ==
  ASSUME NEW x, Renaming(x), NEW k
  PROVE  Turned(x, Eighths(k), Eighths(k))
BY DEF Turned, Eighths, Renaming

LEMMA HalfForm ==
  ASSUME NEW c, NEW a, NEW o
  PROVE  Half([coeff |-> c, symbol |-> a, offset |-> o])
           = [coeff |-> c \div 2, symbol |-> a, offset |-> o \div 2]
<1> DEFINE R(u, v, w) == [coeff |-> u, symbol |-> v, offset |-> w]
           p == R(c, a, o)
           n == c \div 2
           m == o \div 2
<1>1. p.coeff \div 2 = n /\ p.offset \div 2 = m
  OBVIOUS
<1>2. Half(p) = [p EXCEPT !.coeff = p.coeff \div 2, !.offset = p.offset \div 2]
  BY DEF Half
<1>3. Half(p) = [p EXCEPT !.coeff = n, !.offset = m]
  BY <1>1, <1>2
<1> HIDE DEF n, m
<1>4. [p EXCEPT !.coeff = n] = R(n, a, o) /\ [R(n, a, o) EXCEPT !.offset = m] = R(n, a, m)
  OBVIOUS
<1> HIDE DEF p, R
<1>5. [[p EXCEPT !.coeff = n] EXCEPT !.offset = m] = R(n, a, m)
  BY <1>4
<1>6. [p EXCEPT !.coeff = n, !.offset = m] = R(n, a, m)
  BY <1>5, Zenon
<1>7. Half(p) = R(n, a, m)
  BY <1>3, <1>6
<1> QED
  BY <1>7 DEF p, R, n, m

LEMMA TurnedHalf ==
  ASSUME NEW x, NEW p, NEW r, Turned(x, p, r)
  PROVE  Turned(x, Half(p), Half(r))
<1> DEFINE c == p.coeff
           a == p.symbol
           o == p.offset
           b == IF a = None THEN None ELSE x.name[a]
           R(u, v, w) == [coeff |-> u, symbol |-> v, offset |-> w]
<1>1. p = R(c, a, o) /\ r = R(c, b, o) /\ a \in x.symbols \cup {None}
  BY DEF Turned
<1> HIDE DEF c, a, o
<1>2. Half(R(c, a, o)) = R(c \div 2, a, o \div 2)
  BY HalfForm
<1>3. Half(R(c, b, o)) = R(c \div 2, b, o \div 2)
  BY HalfForm
<1>4. Turned(x, R(c \div 2, a, o \div 2), R(c \div 2, b, o \div 2))
  BY <1>1 DEF Turned
<1> HIDE DEF R, b
<1> QED
  BY <1>1, <1>2, <1>3, <1>4

LEMMA NegParamForm ==
  ASSUME NEW c, NEW a, NEW o
  PROVE  NegParam([coeff |-> c, symbol |-> a, offset |-> o])
           = [coeff |-> (-c), symbol |-> a, offset |-> (-o)]
<1> DEFINE R(u, v, w) == [coeff |-> u, symbol |-> v, offset |-> w]
           p == R(c, a, o)
           n == (-c)
           m == (-o)
<1>1. (-p.coeff) = n /\ (-p.offset) = m
  OBVIOUS
<1>2. NegParam(p) = [p EXCEPT !.coeff = (-p.coeff), !.offset = (-p.offset)]
  BY DEF NegParam
<1>3. NegParam(p) = [p EXCEPT !.coeff = n, !.offset = m]
  BY <1>1, <1>2
<1> HIDE DEF n, m
<1>4. [p EXCEPT !.coeff = n] = R(n, a, o) /\ [R(n, a, o) EXCEPT !.offset = m] = R(n, a, m)
  OBVIOUS
<1> HIDE DEF p, R
<1>5. [[p EXCEPT !.coeff = n] EXCEPT !.offset = m] = R(n, a, m)
  BY <1>4
<1>6. [p EXCEPT !.coeff = n, !.offset = m] = R(n, a, m)
  BY <1>5, Zenon
<1>7. NegParam(p) = R(n, a, m)
  BY <1>3, <1>6
<1> QED
  BY <1>7 DEF p, R, n, m

LEMMA TurnedNeg ==
  ASSUME NEW x, NEW p, NEW r, Turned(x, p, r)
  PROVE  Turned(x, NegParam(p), NegParam(r))
<1> DEFINE c == p.coeff
           a == p.symbol
           o == p.offset
           b == IF a = None THEN None ELSE x.name[a]
           R(u, v, w) == [coeff |-> u, symbol |-> v, offset |-> w]
<1>1. p = R(c, a, o) /\ r = R(c, b, o) /\ a \in x.symbols \cup {None}
  BY DEF Turned
<1> HIDE DEF c, a, o
<1>2. NegParam(R(c, a, o)) = R((-c), a, (-o))
  BY NegParamForm
<1>3. NegParam(R(c, b, o)) = R((-c), b, (-o))
  BY NegParamForm
<1>4. Turned(x, R((-c), a, (-o)), R((-c), b, (-o)))
  BY <1>1 DEF Turned
<1> HIDE DEF R, b
<1> QED
  BY <1>1, <1>2, <1>3, <1>4

LEMMA TurnedSum ==
  ASSUME NEW x, Renaming(x), NEW p, NEW r, Turned(x, p, r), NEW u, NEW v, Turned(x, u, v)
  PROVE  Turned(x, SumParam(p, u), SumParam(r, v))
BY DEF Turned, SumParam, IsConcrete, Renaming

LEMMA AnglesNone ==
  ASSUME NEW x
  PROVE  Angles(x, <<>>, <<>>)
BY ListedTuples DEF Angles

LEMMA AnglesOne ==
  ASSUME NEW x, NEW p, NEW r, Turned(x, p, r)
  PROVE  Angles(x, <<p>>, <<r>>)
<1> DEFINE ps == <<p>>
           rs == <<r>>
<1>1. /\ Listed(ps) /\ Listed(rs) /\ Len(ps) = 1 /\ Len(rs) = 1 /\ ps[1] = p /\ rs[1] = r
  BY ListedTuples
<1> HIDE DEF ps, rs
<1>2. Angles(x, ps, rs)
  BY <1>1 DEF Angles
<1> QED
  BY <1>2 DEF ps, rs

LEMMA AnglesThree ==
  ASSUME NEW x, NEW p, NEW r, Turned(x, p, r), NEW u, NEW v, Turned(x, u, v),
         NEW a, NEW b, Turned(x, a, b)
  PROVE  Angles(x, <<p, u, a>>, <<r, v, b>>)
<1> DEFINE ps == <<p, u, a>>
           rs == <<r, v, b>>
<1>1. /\ Listed(ps) /\ Listed(rs) /\ Len(ps) = 3 /\ Len(rs) = 3 /\ ps[1] = p /\ rs[1] = r
      /\ ps[2] = u /\ rs[2] = v /\ ps[3] = a /\ rs[3] = b
  BY ListedTuples
<1> HIDE DEF ps, rs
<1>2. Angles(x, ps, rs)
  BY <1>1 DEF Angles
<1> QED
  BY <1>2 DEF ps, rs

LEMMA AnglesAt ==
  ASSUME NEW x, NEW ps, NEW rs, Angles(x, ps, rs), NEW i \in 1 .. Len(ps)
  PROVE  Turned(x, ps[i], rs[i])
BY DEF Angles

MonoGates == {"X", "Z", "H", "S", "Sdg", "T", "Tdg"}
MonoTurns == {"Rx", "Ry", "Rz", "P"}
PairOns == {"CX", "CZ"}
PairTurns == {"CP", "CRx", "RZZ"}

LEMMA Shapes ==
  /\ \A g \in MonoGates : NumQubits(g) = 1 /\ NumParams(g) = 0
  /\ \A g \in MonoTurns : NumQubits(g) = 1 /\ NumParams(g) = 1
  /\ \A g \in PairOns : NumQubits(g) = 2 /\ NumParams(g) = 0
  /\ \A g \in PairTurns : NumQubits(g) = 2 /\ NumParams(g) = 1
  /\ NumQubits("CCX") = 3 /\ NumParams("CCX") = 0
  /\ NumQubits("U") = 1 /\ NumParams("U") = 3
  /\ NumQubits("GPhase") = 0 /\ NumParams("GPhase") = 1
<1>1. \A g \in MonoGates : NumQubits(g) = 1 /\ NumParams(g) = 0
  BY DEF MonoGates, NumQubits, NumParams, PairGates, Markers, Additive
<1>2. \A g \in MonoTurns : NumQubits(g) = 1 /\ NumParams(g) = 1
  BY DEF MonoTurns, NumQubits, NumParams, PairGates, Markers, Additive
<1>3. \A g \in PairOns : NumQubits(g) = 2 /\ NumParams(g) = 0
  BY DEF PairOns, NumQubits, NumParams, PairGates, Markers, Additive
<1>4. \A g \in PairTurns : NumQubits(g) = 2 /\ NumParams(g) = 1
  BY DEF PairTurns, NumQubits, NumParams, PairGates, Markers, Additive
<1>5. NumQubits("CCX") = 3 /\ NumParams("CCX") = 0
  BY DEF NumQubits, NumParams, PairGates, Markers, Additive
<1>6. NumQubits("U") = 1 /\ NumParams("U") = 3
  BY DEF NumQubits, NumParams, PairGates, Markers, Additive
<1>7. NumQubits("GPhase") = 0 /\ NumParams("GPhase") = 1
  BY DEF NumQubits, NumParams, PairGates, Markers, Additive
<1> QED
  BY <1>1, <1>2, <1>3, <1>4, <1>5, <1>6, <1>7

LEMMA MadeFields ==
  ASSUME NEW g, NEW q, NEW p
  PROVE  /\ Make(g, q, p, <<>>, <<>>).gate = g /\ Make(g, q, p, <<>>, <<>>).qubits = q
         /\ Make(g, q, p, <<>>, <<>>).params = p /\ Make(g, q, p, <<>>, <<>>).cbits = <<>>
         /\ Make(g, q, p, <<>>, <<>>).cond = <<>> /\ Make(g, q, p, <<>>, <<>>).factors = <<>>
BY DEF Make, CommandOf

LEMMA MakeTwin ==
  ASSUME NEW x, NEW g \in x.gates, NEW q, NEW r, Wired(x, q, r), NEW p, NEW u, Angles(x, p, u),
         HasShape(Make(g, q, p, <<>>, <<>>)), q = <<>> => g = "GPhase"
  PROVE  Twin(x, Make(g, q, p, <<>>, <<>>), Make(g, r, u, <<>>, <<>>))
<1> DEFINE d == Make(g, q, p, <<>>, <<>>)
           e == Make(g, r, u, <<>>, <<>>)
<1>1. d.gate = g /\ d.qubits = q /\ d.params = p /\ e.qubits = r /\ e.params = u /\ HasShape(d)
  BY MadeFields
<1> HIDE DEF d, e
<1>2. d = Make(d.gate, d.qubits, d.params, <<>>, <<>>)
  BY <1>1 DEF d
<1>3. e = Make(d.gate, e.qubits, e.params, <<>>, <<>>)
  BY <1>1 DEF e
<1>4. Twin(x, d, e)
  BY <1>1, <1>2, <1>3 DEF Twin
<1> QED
  BY <1>4 DEF d, e

LEMMA GateTwin ==
  ASSUME NEW x, NEW g \in x.gates, NEW q, NEW r, Wired(x, q, r), NEW p, NEW u, Angles(x, p, u),
         Len(q) = NumQubits(g), Len(p) = NumParams(g), Len(q) # 0 \/ g = "GPhase"
  PROVE  Twin(x, Make(g, q, p, <<>>, <<>>), Make(g, r, u, <<>>, <<>>))
<1>1. HasShape(Make(g, q, p, <<>>, <<>>))
  BY MadeFields DEF HasShape
<1>2. q = <<>> => Len(q) = 0
  OBVIOUS
<1> QED
  BY <1>1, <1>2, MakeTwin

LEMMA OnAll ==
  ASSUME NEW x, NEW g \in x.gates, NEW q, NEW r, Wired(x, q, r),
         \/ g \in MonoGates /\ Len(q) = 1
         \/ g \in PairOns /\ Len(q) = 2
         \/ g = "CCX" /\ Len(q) = 3
  PROVE  Twin(x, On(g, q), On(g, r))
<1> DEFINE p == <<>>
<1>1. Len(q) = NumQubits(g) /\ NumParams(g) = 0 /\ Len(q) # 0
  <2>1. CASE g \in MonoGates /\ Len(q) = 1
    <3>1. NumQubits(g) = 1 /\ NumParams(g) = 0
      BY <2>1, Shapes
    <3> QED
      BY <2>1, <3>1
  <2>2. CASE g \in PairOns /\ Len(q) = 2
    <3>1. NumQubits(g) = 2 /\ NumParams(g) = 0
      BY <2>2, Shapes
    <3> QED
      BY <2>2, <3>1
  <2>3. CASE g = "CCX" /\ Len(q) = 3
    <3>1. NumQubits(g) = 3 /\ NumParams(g) = 0
      BY <2>3, Shapes
    <3> QED
      BY <2>3, <3>1
  <2> QED
    BY <2>1, <2>2, <2>3
<1>2. Angles(x, p, p) /\ Len(p) = 0
  BY AnglesNone
<1>3. On(g, q) = Make(g, q, p, <<>>, <<>>) /\ On(g, r) = Make(g, r, p, <<>>, <<>>)
  BY DEF On
<1> HIDE DEF p
<1>4. Len(p) = NumParams(g)
  BY <1>1, <1>2
<1> QED
  BY <1>1, <1>2, <1>3, <1>4, GateTwin

LEMMA ByAll ==
  ASSUME NEW x, NEW g \in x.gates, NEW q, NEW r, Wired(x, q, r),
         \/ g \in MonoTurns /\ Len(q) = 1
         \/ g \in PairTurns /\ Len(q) = 2
         \/ g = "GPhase" /\ Len(q) = 0,
         NEW a, NEW b, Turned(x, a, b)
  PROVE  Twin(x, By(g, q, a), By(g, r, b))
<1> DEFINE p == <<a>>
           o == <<b>>
<1>1. Len(q) = NumQubits(g) /\ NumParams(g) = 1 /\ (Len(q) # 0 \/ g = "GPhase")
  <2>1. CASE g \in MonoTurns /\ Len(q) = 1
    <3>1. NumQubits(g) = 1 /\ NumParams(g) = 1
      BY <2>1, Shapes
    <3> QED
      BY <2>1, <3>1
  <2>2. CASE g \in PairTurns /\ Len(q) = 2
    <3>1. NumQubits(g) = 2 /\ NumParams(g) = 1
      BY <2>2, Shapes
    <3> QED
      BY <2>2, <3>1
  <2>3. CASE g = "GPhase" /\ Len(q) = 0
    <3>1. NumQubits(g) = 0 /\ NumParams(g) = 1
      BY <2>3, Shapes
    <3> QED
      BY <2>3, <3>1
  <2> QED
    BY <2>1, <2>2, <2>3
<1>2. Angles(x, p, o) /\ Len(p) = 1
  BY AnglesOne
<1>3. By(g, q, a) = Make(g, q, p, <<>>, <<>>) /\ By(g, r, b) = Make(g, r, o, <<>>, <<>>)
  BY DEF By
<1> HIDE DEF p, o
<1>4. Len(p) = NumParams(g)
  BY <1>1, <1>2
<1> QED
  BY <1>1, <1>2, <1>3, <1>4, GateTwin

LEMMA UTwin ==
  ASSUME NEW x, "U" \in x.gates, NEW q, NEW r, Wired(x, q, r), Len(q) = 1,
         NEW a, NEW b, NEW c, NEW u, NEW v, NEW w,
         Turned(x, a, u), Turned(x, b, v), Turned(x, c, w)
  PROVE  Twin(x, Make("U", q, <<a, b, c>>, <<>>, <<>>), Make("U", r, <<u, v, w>>, <<>>, <<>>))
<1> DEFINE p == <<a, b, c>>
           o == <<u, v, w>>
           g == "U"
<1>1. Len(q) = NumQubits(g) /\ NumParams(g) = 3
  BY Shapes
<1>2. Angles(x, p, o) /\ Len(p) = 3
  BY AnglesThree
<1> HIDE DEF p, o
<1>3. Len(p) = NumParams(g)
  BY <1>1, <1>2
<1>4. Twin(x, Make("U", q, p, <<>>, <<>>), Make("U", r, o, <<>>, <<>>))
  BY <1>1, <1>2, <1>3, GateTwin
<1> QED
  BY <1>4 DEF p, o

LEMMA OnOne ==
  ASSUME NEW x, Renaming(x), NEW g \in x.gates, g \in MonoGates, NEW a \in x.wires,
         NEW u, u = x.wire[a]
  PROVE  Twin(x, On(g, <<a>>), On(g, <<u>>))
<1> DEFINE q == <<a>>
           r == <<u>>
<1>1. Wired(x, q, r)
  BY WiredOne
<1>3. Len(q) = 1
  OBVIOUS
<1> HIDE DEF q, r
<1>2. Twin(x, On(g, q), On(g, r))
  BY <1>1, <1>3, OnAll
<1> QED
  BY <1>2 DEF q, r

LEMMA OnTwo ==
  ASSUME NEW x, Renaming(x), NEW g \in x.gates, g \in PairOns, NEW a \in x.wires, NEW b \in x.wires,
         NEW u, u = x.wire[a], NEW v, v = x.wire[b]
  PROVE  Twin(x, On(g, <<a, b>>), On(g, <<u, v>>))
<1> DEFINE q == <<a, b>>
           r == <<u, v>>
<1>1. Wired(x, q, r) /\ Len(q) = 2
  BY WiredTwo
<1> HIDE DEF q, r
<1>2. Twin(x, On(g, q), On(g, r))
  BY <1>1, OnAll
<1> QED
  BY <1>2 DEF q, r

LEMMA OnThree ==
  ASSUME NEW x, Renaming(x), "CCX" \in x.gates, NEW a \in x.wires, NEW b \in x.wires, NEW c \in x.wires,
         NEW u, u = x.wire[a], NEW v, v = x.wire[b], NEW w, w = x.wire[c]
  PROVE  Twin(x, On("CCX", <<a, b, c>>), On("CCX", <<u, v, w>>))
<1> DEFINE q == <<a, b, c>>
           r == <<u, v, w>>
<1>1. Wired(x, q, r) /\ Len(q) = 3
  BY WiredThree
<1> HIDE DEF q, r
<1>2. Twin(x, On("CCX", q), On("CCX", r))
  BY <1>1, OnAll
<1> QED
  BY <1>2 DEF q, r

LEMMA ByOne ==
  ASSUME NEW x, Renaming(x), NEW g \in x.gates, g \in MonoTurns, NEW a \in x.wires,
         NEW u, u = x.wire[a],
         NEW p, NEW o, Turned(x, p, o)
  PROVE  Twin(x, By(g, <<a>>, p), By(g, <<u>>, o))
<1> DEFINE q == <<a>>
           r == <<u>>
<1>1. Wired(x, q, r) /\ Len(q) = 1
  BY WiredOne
<1> HIDE DEF q, r
<1>2. Twin(x, By(g, q, p), By(g, r, o))
  BY <1>1, ByAll
<1> QED
  BY <1>2 DEF q, r

LEMMA ByTwo ==
  ASSUME NEW x, Renaming(x), NEW g \in x.gates, g \in PairTurns, NEW a \in x.wires, NEW b \in x.wires,
         NEW u, u = x.wire[a], NEW v, v = x.wire[b],
         NEW p, NEW o, Turned(x, p, o)
  PROVE  Twin(x, By(g, <<a, b>>, p), By(g, <<u, v>>, o))
<1> DEFINE q == <<a, b>>
           r == <<u, v>>
<1>1. Wired(x, q, r) /\ Len(q) = 2
  BY WiredTwo
<1> HIDE DEF q, r
<1>2. Twin(x, By(g, q, p), By(g, r, o))
  BY <1>1, ByAll
<1> QED
  BY <1>2 DEF q, r

LEMMA PhaseTwin ==
  ASSUME NEW x, "GPhase" \in x.gates, NEW p, NEW o, Turned(x, p, o)
  PROVE  Twin(x, Phase(p), Phase(o))
<1>1. Wired(x, <<>>, <<>>) /\ Len(<<>>) = 0
  BY WiredNone
<1> QED
  BY <1>1, ByAll DEF Phase

-----------------------------------------------------------------------------
(* Sequences of gates                                                      *)

LEMMA NoTwins ==
  ASSUME NEW x
  PROVE  Twins(x, <<>>, <<>>)
BY ListedTuples DEF Twins

LEMMA OneTwins ==
  ASSUME NEW x, NEW a, NEW u, Twin(x, a, u)
  PROVE  Twins(x, <<a>>, <<u>>)
<1> DEFINE s == <<a>>
           t == <<u>>
<1>1. Listed(s) /\ Listed(t) /\ Len(s) = 1 /\ Len(t) = 1 /\ s[1] = a /\ t[1] = u
  BY ListedTuples
<1> HIDE DEF s, t
<1>2. Twins(x, s, t)
  BY <1>1 DEF Twins
<1> QED
  BY <1>2 DEF s, t

LEMMA JoinTwins ==
  ASSUME NEW x, NEW a, NEW b, NEW u, NEW v, Twins(x, a, u), Twins(x, b, v)
  PROVE  Twins(x, a \o b, u \o v)
<1>1. Listed(a) /\ Listed(b) /\ Listed(u) /\ Listed(v) /\ Len(u) = Len(a) /\ Len(v) = Len(b)
  BY DEF Twins
<1>2. /\ Listed(a \o b) /\ Len(a \o b) = Len(a) + Len(b)
      /\ Listed(u \o v) /\ Len(u \o v) = Len(a) + Len(b)
  BY <1>1, ListedJoin
<1>3. Len(a) \in Nat /\ Len(b) \in Nat
  BY <1>1, ListedLen
<1>4. ASSUME NEW i \in 1 .. Len(a \o b) PROVE Twin(x, (a \o b)[i], (u \o v)[i])
  <2>1. i \in 1 .. Len(u \o v)
    BY <1>2
  <2>2. CASE i =< Len(a)
    <3>1. (a \o b)[i] = a[i] /\ (u \o v)[i] = u[i]
      BY <1>1, <2>1, <2>2, ListedJoin
    <3> QED
      BY <1>3, <2>2, <3>1 DEF Twins
  <2>3. CASE ~ (i =< Len(a))
    <3>1. (a \o b)[i] = b[i - Len(a)] /\ (u \o v)[i] = v[i - Len(a)]
      BY <1>1, <2>1, <2>3, ListedJoin
    <3>2. i - Len(a) \in 1 .. Len(b)
      BY <1>2, <1>3, <2>3
    <3> QED
      BY <3>1, <3>2 DEF Twins
  <2> QED
    BY <2>2, <2>3
<1> QED
  BY <1>2, <1>4 DEF Twins

LEMMA TwoTwins ==
  ASSUME NEW x, NEW a, NEW b, NEW u, NEW v,
         Twin(x, a, u), Twin(x, b, v)
  PROVE  Twins(x, <<a, b>>, <<u, v>>)
<1> DEFINE s == <<a, b>>
           t == <<u, v>>
<1>1. /\ Listed(s) /\ Listed(t) /\ Len(s) = 2 /\ Len(t) = 2
      /\ s[1] = a /\ s[2] = b
      /\ t[1] = u /\ t[2] = v
  BY ListedTuples
<1> HIDE DEF s, t
<1>2. Twins(x, s, t)
  BY <1>1 DEF Twins
<1> QED
  BY <1>2 DEF s, t

LEMMA ThreeTwins ==
  ASSUME NEW x, NEW a, NEW b, NEW c, NEW u, NEW v, NEW w,
         Twin(x, a, u), Twin(x, b, v), Twin(x, c, w)
  PROVE  Twins(x, <<a, b, c>>, <<u, v, w>>)
<1> DEFINE s == <<a, b, c>>
           t == <<u, v, w>>
<1>1. /\ Listed(s) /\ Listed(t) /\ Len(s) = 3 /\ Len(t) = 3
      /\ s[1] = a /\ s[2] = b /\ s[3] = c
      /\ t[1] = u /\ t[2] = v /\ t[3] = w
  BY ListedTuples
<1> HIDE DEF s, t
<1>2. Twins(x, s, t)
  BY <1>1 DEF Twins
<1> QED
  BY <1>2 DEF s, t

LEMMA FourTwins ==
  ASSUME NEW x, NEW a, NEW b, NEW c, NEW d, NEW u, NEW v, NEW w, NEW z,
         Twin(x, a, u), Twin(x, b, v), Twin(x, c, w), Twin(x, d, z)
  PROVE  Twins(x, <<a, b, c, d>>, <<u, v, w, z>>)
<1> DEFINE s == <<a, b, c, d>>
           t == <<u, v, w, z>>
<1>1. /\ Listed(s) /\ Listed(t) /\ Len(s) = 4 /\ Len(t) = 4
      /\ s[1] = a /\ s[2] = b /\ s[3] = c /\ s[4] = d
      /\ t[1] = u /\ t[2] = v /\ t[3] = w /\ t[4] = z
  BY ListedTuples
<1> HIDE DEF s, t
<1>2. Twins(x, s, t)
  BY <1>1 DEF Twins
<1> QED
  BY <1>2 DEF s, t

LEMMA ConjugatedTwins ==
  ASSUME NEW x, NEW a, NEW b, NEW u, NEW v, Twins(x, a, u), Twins(x, b, v)
  PROVE  Twins(x, Conjugated(a, b), Conjugated(u, v))
BY JoinTwins DEF Conjugated

LEMMA ListTwins ==
  ASSUME NEW x, NEW n \in Nat, NEW s, s = [k \in 1 .. n |-> s[k]], NEW t, t = [k \in 1 .. n |-> t[k]],
         \A k \in 1 .. n : Twin(x, s[k], t[k])
  PROVE  Twins(x, s, t)
BY ListedFunction DEF Twins

LEMMA ReverseTwins ==
  ASSUME NEW x, NEW s, NEW t, Twins(x, s, t)
  PROVE  Twins(x, Reverse(s), Reverse(t))
<1> DEFINE n == Len(s)
           u == [i \in 1 .. n |-> s[n - i + 1]]
           v == [i \in 1 .. n |-> t[n - i + 1]]
<1>1. n \in Nat /\ Len(t) = n
  BY ListedLen DEF Twins
<1>2. Reverse(s) = u /\ Reverse(t) = v
  BY <1>1 DEF Reverse
<1> HIDE DEF n
<1>3. \A k \in 1 .. n : n - k + 1 \in 1 .. n
  BY <1>1
<1>4. \A k \in 1 .. n : Twin(x, u[k], v[k])
  BY <1>3 DEF Twins, n
<1>5. u = [k \in 1 .. n |-> u[k]] /\ v = [k \in 1 .. n |-> v[k]]
  OBVIOUS
<1> HIDE DEF u, v
<1>6. Twins(x, u, v)
  BY <1>1, <1>4, <1>5, ListTwins
<1> QED
  BY <1>2, <1>6

LEMMA FlattenTwins ==
  ASSUME NEW x, NEW ss, NEW ts, Listed(ss), Listed(ts), Len(ts) = Len(ss),
         \A i \in 1 .. Len(ss) : Twins(x, ss[i], ts[i])
  PROVE  Twins(x, FlattenSeq(ss), FlattenSeq(ts))
<1> DEFINE n == Len(ss)
<1>1. n \in Nat /\ DOMAIN ss = 1 .. n /\ DOMAIN ts = 1 .. n
  BY ListedLen
<1>2. CASE n = 0
  <2>1. ss = <<>> /\ ts = <<>>
    BY <1>2 DEF Listed
  <2> QED
    BY <2>1, FlattenNone, NoTwins
<1>3. CASE n # 0
  <2>1. (\A i \in DOMAIN ss : Listed(ss[i])) /\ (\A i \in DOMAIN ts : Listed(ts[i]))
    BY <1>1 DEF Twins
  <2>2. PICK S : ss \in Seq(Seq(S))
    BY <2>1, PiecesIn
  <2>3. PICK T : ts \in Seq(Seq(T))
    BY <2>1, PiecesIn
  <2>4. ss # <<>> /\ ts # <<>>
    BY <1>3
  <2>5. PICK F \in [1 .. n -> Seq(S)] :
          /\ FlattenSeq(ss) = F[n] /\ F[1] = ss[1]
          /\ \A i \in 2 .. n : F[i] = F[i - 1] \o ss[i]
    BY <2>2, <2>4, FlattenForm
  <2>6. PICK G \in [1 .. n -> Seq(T)] :
          /\ FlattenSeq(ts) = G[n] /\ G[1] = ts[1]
          /\ \A i \in 2 .. n : G[i] = G[i - 1] \o ts[i]
    <3>1. Len(ts) = n
      OBVIOUS
    <3> HIDE DEF n
    <3> QED
      BY <2>3, <2>4, <3>1, FlattenForm
  <2> DEFINE Bad == {i \in 1 .. n : ~ Twins(x, F[i], G[i])}
  <2>7. Bad = {}
    <3> SUFFICES ASSUME Bad # {} PROVE FALSE
      OBVIOUS
    <3>1. PICK m \in Bad : \A j \in Bad : m =< j
      <4>1. Bad \in SUBSET Nat
        OBVIOUS
      <4> HIDE DEF Bad
      <4> QED
        BY <4>1, LeastExists
    <3>2. m \in 1 .. n /\ ~ Twins(x, F[m], G[m]) /\ Twins(x, ss[m], ts[m])
      BY <3>1
    <3>3. m # 1
      BY <2>5, <2>6, <3>2
    <3>4. m \in 2 .. n /\ m - 1 \in 1 .. n /\ m - 1 \notin Bad
      BY <1>1, <3>1, <3>2, <3>3
    <3>5. F[m] = F[m - 1] \o ss[m] /\ G[m] = G[m - 1] \o ts[m]
      BY <2>5, <2>6, <3>4
    <3>6. Twins(x, F[m - 1], G[m - 1])
      BY <3>4
    <3> HIDE DEF Bad
    <3> QED
      BY <3>2, <3>5, <3>6, JoinTwins
  <2>8. n \in 1 .. n
    BY <1>1, <1>3
  <2> QED
    BY <2>5, <2>6, <2>7, <2>8
<1> QED
  BY <1>2, <1>3

LEMMA WiredJoin ==
  ASSUME NEW x, NEW a, NEW b, NEW u, NEW v, Wired(x, a, u), Wired(x, b, v)
  PROVE  Wired(x, a \o b, u \o v) /\ Len(a \o b) = Len(a) + Len(b)
<1> DEFINE W == x.wires
           E == x.ends
<1>1. /\ a \in Seq(W) /\ b \in Seq(W) /\ u \in Seq(E) /\ v \in Seq(E)
      /\ Len(u) = Len(a) /\ Len(v) = Len(b)
  BY DEF Wired
<1> HIDE DEF W, E
<1>2. /\ a \o b \in Seq(W) /\ Len(a \o b) = Len(a) + Len(b)
      /\ u \o v \in Seq(E) /\ Len(u \o v) = Len(a \o b)
      /\ Len(a) \in Nat /\ Len(b) \in Nat
  BY <1>1
<1>3. ASSUME NEW i \in 1 .. Len(a \o b) PROVE (u \o v)[i] = x.wire[(a \o b)[i]]
  <2>1. CASE i =< Len(a)
    <3>1. i \in 1 .. Len(a) /\ (a \o b)[i] = a[i] /\ (u \o v)[i] = u[i]
      BY <1>1, <1>2, <2>1
    <3> QED
      BY <3>1 DEF Wired
  <2>2. CASE ~ (i =< Len(a))
    <3>1. i - Len(a) \in 1 .. Len(b) /\ (a \o b)[i] = b[i - Len(a)] /\ (u \o v)[i] = v[i - Len(a)]
      BY <1>1, <1>2, <2>2
    <3> QED
      BY <3>1 DEF Wired
  <2> QED
    BY <2>1, <2>2
<1> QED
  BY <1>2, <1>3 DEF Wired, W, E

LEMMA WiredAppend ==
  ASSUME NEW x, Renaming(x), NEW a, NEW u, Wired(x, a, u), NEW t \in x.wires, NEW z, z = x.wire[t]
  PROVE  Wired(x, Append(a, t), Append(u, z)) /\ Len(Append(a, t)) = Len(a) + 1
<1> DEFINE W == x.wires
           E == x.ends
<1>1. /\ a \in Seq(W) /\ u \in Seq(E) /\ Len(u) = Len(a) /\ z \in E /\ t \in W
  BY DEF Wired, Renaming
<1> HIDE DEF W, E
<1>2. /\ Append(a, t) \in Seq(W) /\ Len(Append(a, t)) = Len(a) + 1
      /\ Append(u, z) \in Seq(E) /\ Len(Append(u, z)) = Len(a) + 1 /\ Len(a) \in Nat
  BY <1>1
<1>3. ASSUME NEW i \in 1 .. Len(a) + 1 PROVE Append(u, z)[i] = x.wire[Append(a, t)[i]]
  <2>1. CASE i \in 1 .. Len(a)
    <3>1. Append(a, t)[i] = a[i] /\ Append(u, z)[i] = u[i]
      BY <1>1, <1>2, <2>1
    <3> QED
      BY <2>1, <3>1 DEF Wired
  <2>2. CASE i = Len(a) + 1
    BY <1>1, <1>2, <2>2
  <2> QED
    BY <1>2, <2>1, <2>2
<1> QED
  BY <1>2, <1>3 DEF Wired, W, E

LEMMA WiredSub ==
  ASSUME NEW x, NEW a, NEW u, Wired(x, a, u), NEW i \in Nat \ {0}, NEW j \in Nat, j =< Len(a), i =< j + 1
  PROVE  Wired(x, SubSeq(a, i, j), SubSeq(u, i, j)) /\ Len(SubSeq(a, i, j)) = j + 1 - i
<1> DEFINE W == x.wires
           E == x.ends
<1>1. a \in Seq(W) /\ u \in Seq(E) /\ Len(u) = Len(a) /\ Len(a) \in Nat
  BY DEF Wired
<1> HIDE DEF W, E
<1>2. /\ SubSeq(a, i, j) \in Seq(W) /\ SubSeq(u, i, j) \in Seq(E)
      /\ Len(SubSeq(a, i, j)) = j + 1 - i /\ Len(SubSeq(u, i, j)) = j + 1 - i
  BY <1>1
<1>3. ASSUME NEW k \in 1 .. j + 1 - i PROVE SubSeq(u, i, j)[k] = x.wire[SubSeq(a, i, j)[k]]
  <2>1. SubSeq(a, i, j)[k] = a[i + k - 1] /\ SubSeq(u, i, j)[k] = u[i + k - 1]
    BY <1>1
  <2>2. i + k - 1 \in 1 .. Len(a)
    BY <1>1
  <2> QED
    BY <2>1, <2>2 DEF Wired
<1> QED
  BY <1>2, <1>3 DEF Wired, W, E

LEMMA WiredTail ==
  ASSUME NEW x, NEW a, NEW u, Wired(x, a, u), Len(a) >= 1
  PROVE  Wired(x, Tail(a), Tail(u)) /\ Len(Tail(a)) = Len(a) - 1
<1> DEFINE W == x.wires
           E == x.ends
<1>1. a \in Seq(W) /\ u \in Seq(E) /\ Len(u) = Len(a) /\ Len(a) \in Nat
  BY DEF Wired
<1> HIDE DEF W, E
<1>2. /\ Tail(a) \in Seq(W) /\ Tail(u) \in Seq(E)
      /\ Len(Tail(a)) = Len(a) - 1 /\ Len(Tail(u)) = Len(a) - 1
  BY <1>1
<1>3. ASSUME NEW k \in 1 .. Len(a) - 1 PROVE Tail(u)[k] = x.wire[Tail(a)[k]]
  <2>1. Tail(a)[k] = a[k + 1] /\ Tail(u)[k] = u[k + 1] /\ k + 1 \in 1 .. Len(a)
    BY <1>1
  <2> QED
    BY <2>1 DEF Wired
<1> QED
  BY <1>2, <1>3 DEF Wired, W, E

LEMMA WiredReverse ==
  ASSUME NEW x, NEW a, NEW u, Wired(x, a, u)
  PROVE  Wired(x, Reverse(a), Reverse(u)) /\ Len(Reverse(a)) = Len(a)
<1> DEFINE W == x.wires
           E == x.ends
           n == Len(a)
           r == [i \in 1 .. n |-> a[n - i + 1]]
           s == [i \in 1 .. n |-> u[n - i + 1]]
<1>1. a \in Seq(W) /\ u \in Seq(E) /\ Len(u) = n /\ n \in Nat
  BY DEF Wired
<1>2. Reverse(a) = r /\ Reverse(u) = s
  BY <1>1 DEF Reverse
<1> HIDE DEF W, E, n
<1>3. \A i \in 1 .. n : n - i + 1 \in 1 .. n
  BY <1>1
<1>4. \A i \in 1 .. n : a[i] \in W /\ u[i] \in E
  BY <1>1 DEF n
<1>5. r \in [1 .. n -> W] /\ s \in [1 .. n -> E]
  BY <1>3, <1>4
<1>6. \A i \in 1 .. n : s[i] = x.wire[r[i]]
  BY <1>3 DEF Wired, n
<1> HIDE DEF r, s
<1>7. r \in Seq(W) /\ s \in Seq(E) /\ Len(r) = n /\ Len(s) = n
  BY <1>1, <1>5
<1> QED
  BY <1>2, <1>6, <1>7 DEF Wired, W, E, n

-----------------------------------------------------------------------------
(* The multi-controlled X                                                  *)

LEMMA ChainTwins ==
  ASSUME NEW x, Renaming(x), "CCX" \in x.gates,
         NEW c, NEW r, Wired(x, c, r), NEW anc, NEW enc, Wired(x, anc, enc),
         NEW t \in x.wires, NEW z, z = x.wire[t], Len(c) > 2, Len(anc) >= Len(c) - 2
  PROVE  Twins(x, McxChain(c, t, anc), McxChain(r, z, enc))
<1> DEFINE m == Len(c)
           D(a, f) == [k \in 1 .. m - 3 |-> On("CCX", <<a[m - k], f[m - 2 - k], f[m - 1 - k]>>)]
           down == D(c, anc)
           doun == D(r, enc)
           first == <<On("CCX", <<c[m], anc[m - 2], t>>)>>
           firzt == <<On("CCX", <<r[m], enc[m - 2], z>>)>>
           last == <<On("CCX", <<c[1], c[2], anc[1]>>)>>
           lazt == <<On("CCX", <<r[1], r[2], enc[1]>>)>>
<1>1. m \in Nat /\ m > 2 /\ Len(anc) \in Nat /\ Len(anc) >= m - 2 /\ Len(r) = m
  BY DEF Wired
<1>2. \A i \in 1 .. m : c[i] \in x.wires /\ r[i] = x.wire[c[i]]
  BY WiredAt
<1>3. \A i \in 1 .. m - 2 : anc[i] \in x.wires /\ enc[i] = x.wire[anc[i]]
  BY <1>1, WiredAt
<1> HIDE DEF m
<1>4. Twins(x, down, doun)
  <2>1. ASSUME NEW k \in 1 .. m - 3 PROVE Twin(x, down[k], doun[k])
    <3>1. m - k \in 1 .. m /\ m - 2 - k \in 1 .. m - 2 /\ m - 1 - k \in 1 .. m - 2
      BY <1>1
    <3>2. /\ down[k] = On("CCX", <<c[m - k], anc[m - 2 - k], anc[m - 1 - k]>>)
          /\ doun[k] = On("CCX", <<r[m - k], enc[m - 2 - k], enc[m - 1 - k]>>)
      OBVIOUS
    <3> HIDE DEF D
    <3> QED
      BY <1>2, <1>3, <3>1, <3>2, OnThree
  <2>2. m - 3 \in Nat /\ down = [k \in 1 .. m - 3 |-> down[k]] /\ doun = [k \in 1 .. m - 3 |-> doun[k]]
    BY <1>1
  <2> HIDE DEF down, doun
  <2> QED
    BY <2>1, <2>2, ListTwins
<1>5. Twins(x, first, firzt)
  <2>1. m \in 1 .. m /\ m - 2 \in 1 .. m - 2
    BY <1>1
  <2>2. Twin(x, On("CCX", <<c[m], anc[m - 2], t>>), On("CCX", <<r[m], enc[m - 2], z>>))
    BY <1>2, <1>3, <2>1, OnThree
  <2> QED
    BY <2>2, OneTwins
<1>6. Twins(x, last, lazt)
  <2>1. 1 \in 1 .. m /\ 2 \in 1 .. m /\ 1 \in 1 .. m - 2
    BY <1>1
  <2>2. Twin(x, On("CCX", <<c[1], c[2], anc[1]>>), On("CCX", <<r[1], r[2], enc[1]>>))
    BY <1>2, <1>3, <2>1, OnThree
  <2> QED
    BY <2>2, OneTwins
<1> DEFINE back == Reverse(down)
           bakk == Reverse(doun)
<1>7. McxChain(c, t, anc) = Twice(first \o down \o last \o back)
  BY DEF McxChain, m
<1>8. McxChain(r, z, enc) = Twice(firzt \o doun \o lazt \o bakk)
  BY <1>1 DEF McxChain, m
<1> HIDE DEF first, firzt, last, lazt, down, doun
<1>9. Twins(x, back, bakk)
  BY <1>4, ReverseTwins
<1> HIDE DEF back, bakk
<1>10. Twins(x, first \o down \o last \o back, firzt \o doun \o lazt \o bakk)
  BY <1>4, <1>5, <1>6, <1>9, JoinTwins
<1> QED
  BY <1>7, <1>8, <1>10, JoinTwins DEF Twice

McxGates == {"X", "CX", "CCX"}

LEMMA LadderTwins ==
  ASSUME NEW x, Renaming(x), McxGates \subseteq x.gates,
         NEW c, NEW r, Wired(x, c, r), NEW anc, NEW enc, Wired(x, anc, enc),
         NEW t \in x.wires, NEW z, z = x.wire[t], Len(anc) >= Len(c) - 2
  PROVE  Twins(x, Ladder(c, t, anc), Ladder(r, z, enc))
<1> DEFINE m == Len(c)
<1>1. m \in Nat /\ Len(r) = m
  BY DEF Wired
<1>2. \A i \in 1 .. m : c[i] \in x.wires /\ r[i] = x.wire[c[i]]
  BY WiredAt
<1>3. "X" \in x.gates /\ "CX" \in x.gates /\ "CCX" \in x.gates /\ "X" \in MonoGates /\ "CX" \in PairOns
  BY DEF McxGates, MonoGates, PairOns
<1>4. CASE m = 0
  <2>1. Ladder(c, t, anc) = <<On("X", <<t>>)>> /\ Ladder(r, z, enc) = <<On("X", <<z>>)>>
    BY <1>1, <1>4 DEF Ladder
  <2>2. Twin(x, On("X", <<t>>), On("X", <<z>>))
    BY <1>3, OnOne
  <2> QED
    BY <2>1, <2>2, OneTwins
<1>5. CASE m = 1
  <2>1. Ladder(c, t, anc) = <<On("CX", <<c[1], t>>)>> /\ Ladder(r, z, enc) = <<On("CX", <<r[1], z>>)>>
    BY <1>1, <1>5 DEF Ladder
  <2>2. Twin(x, On("CX", <<c[1], t>>), On("CX", <<r[1], z>>))
    <3>1. 1 \in 1 .. m
      BY <1>5
    <3> HIDE DEF m
    <3> QED
      BY <1>2, <1>3, <3>1, OnTwo
  <2> QED
    BY <2>1, <2>2, OneTwins
<1>6. CASE m = 2
  <2>1. /\ Ladder(c, t, anc) = <<On("CCX", <<c[1], c[2], t>>)>>
        /\ Ladder(r, z, enc) = <<On("CCX", <<r[1], r[2], z>>)>>
    BY <1>1, <1>6 DEF Ladder
  <2>2. Twin(x, On("CCX", <<c[1], c[2], t>>), On("CCX", <<r[1], r[2], z>>))
    <3>1. 1 \in 1 .. m /\ 2 \in 1 .. m
      BY <1>6
    <3> HIDE DEF m
    <3> QED
      BY <1>2, <1>3, <3>1, OnThree
  <2> QED
    BY <2>1, <2>2, OneTwins
<1>7. CASE m > 2
  <2>1. Ladder(c, t, anc) = McxChain(c, t, anc) /\ Ladder(r, z, enc) = McxChain(r, z, enc)
    BY <1>1, <1>7 DEF Ladder
  <2> QED
    BY <1>3, <1>7, <2>1, ChainTwins
<1> QED
  BY <1>1, <1>4, <1>5, <1>6, <1>7

LEMMA McxTwins ==
  ASSUME NEW x, Renaming(x), McxGates \subseteq x.gates,
         NEW c, NEW r, Wired(x, c, r), NEW f, NEW e, Wired(x, f, e),
         NEW t \in x.wires, NEW z, z = x.wire[t], Len(f) >= 1
  PROVE  Twins(x, Mcx(c, t, f), Mcx(r, z, e))
<1> DEFINE m == Len(c)
           k == (m + 1) \div 2
           lo == SubSeq(c, 1, k)
           hi == SubSeq(c, k + 1, m)
           lp == SubSeq(r, 1, k)
           hp == SubSeq(r, k + 1, m)
           A == Ladder(lo, f[1], Tail(f) \o hi \o <<t>>)
           B == Ladder(Append(hi, f[1]), t, Tail(f) \o lo)
           Q == Ladder(lp, e[1], Tail(e) \o hp \o <<z>>)
           R == Ladder(Append(hp, e[1]), z, Tail(e) \o lp)
<1>1. m \in Nat /\ Len(r) = m /\ Len(f) \in Nat /\ Len(e) = Len(f)
  BY DEF Wired
<1>2. CASE m =< 2 \/ Len(f) >= m - 2
  <2>1. Mcx(c, t, f) = Ladder(c, t, f) /\ Mcx(r, z, e) = Ladder(r, z, e)
    BY <1>1, <1>2 DEF Mcx
  <2>2. Len(f) >= m - 2
    BY <1>1, <1>2
  <2> QED
    BY <2>1, <2>2, LadderTwins
<1>3. CASE ~ (m =< 2 \/ Len(f) >= m - 2)
  <2>1. Mcx(c, t, f) = Twice(A \o B) /\ Mcx(r, z, e) = Twice(Q \o R)
    BY <1>1, <1>3 DEF Mcx
  <2>2. k \in Nat /\ k >= 1 /\ k =< m /\ 2 * k =< m + 1 /\ 2 * k >= m
    BY <1>1, <1>3
  <2>3. f[1] \in x.wires /\ e[1] = x.wire[f[1]]
    <3>1. 1 \in 1 .. Len(f)
      BY <1>1
    <3> QED
      BY <3>1, WiredAt
  <2> HIDE DEF k, m
  <2>4. Wired(x, lo, lp) /\ Len(lo) = k
    <3>1. 1 \in Nat \ {0} /\ k \in Nat /\ k =< Len(c) /\ 1 =< k + 1 /\ k + 1 - 1 = k
      BY <2>2 DEF m
    <3> QED
      BY <3>1, WiredSub
  <2>5. Wired(x, hi, hp) /\ Len(hi) = m - k
    <3>1. k + 1 \in Nat \ {0} /\ m \in Nat /\ m =< Len(c) /\ k + 1 =< m + 1 /\ m + 1 - (k + 1) = m - k
      BY <1>1, <2>2 DEF m
    <3> QED
      BY <3>1, WiredSub
  <2>6. Wired(x, Tail(f), Tail(e)) /\ Len(Tail(f)) = Len(f) - 1
    BY WiredTail
  <2>7. Wired(x, <<t>>, <<z>>) /\ Len(<<t>>) = 1
    BY WiredOne
  <2> HIDE DEF lo, lp, hi, hp
  <2>8. Twins(x, A, Q)
    <3>1. Wired(x, Tail(f) \o hi, Tail(e) \o hp) /\ Len(Tail(f) \o hi) = Len(f) - 1 + (m - k)
      <4>1. Wired(x, Tail(f) \o hi, Tail(e) \o hp) /\ Len(Tail(f) \o hi) = Len(Tail(f)) + Len(hi)
        BY <2>5, <2>6, WiredJoin
      <4> QED
        BY <2>5, <2>6, <4>1
    <3>2. /\ Wired(x, Tail(f) \o hi \o <<t>>, Tail(e) \o hp \o <<z>>)
          /\ Len(Tail(f) \o hi \o <<t>>) = Len(f) - 1 + (m - k) + 1
      BY <2>7, <3>1, WiredJoin
    <3>3. Len(f) - 1 + (m - k) + 1 >= k - 2
      BY <1>1, <2>2
    <3> QED
      BY <2>3, <2>4, <3>2, <3>3, LadderTwins
  <2>9. Twins(x, B, R)
    <3>1. Wired(x, Append(hi, f[1]), Append(hp, e[1])) /\ Len(Append(hi, f[1])) = m - k + 1
      BY <2>3, <2>5, WiredAppend
    <3>2. Wired(x, Tail(f) \o lo, Tail(e) \o lp) /\ Len(Tail(f) \o lo) = Len(f) - 1 + k
      BY <2>4, <2>6, WiredJoin
    <3>3. Len(f) - 1 + k >= m - k + 1 - 2
      BY <1>1, <2>2
    <3>4. Len(Tail(f) \o lo) >= Len(Append(hi, f[1])) - 2
      BY <1>1, <2>2, <3>1, <3>2, <3>3
    <3> QED
      BY <3>1, <3>2, <3>4, LadderTwins
  <2> HIDE DEF A, B, Q, R
  <2> QED
    BY <2>1, <2>8, <2>9, JoinTwins DEF Twice
<1> QED
  BY <1>2, <1>3

MczGates == McxGates \cup {"CP", "Z", "CZ", "H"}

LEMMA PeeledTwins ==
  ASSUME NEW x, Renaming(x), MczGates \subseteq x.gates,
         NEW c, NEW r, Wired(x, c, r), NEW t \in x.wires, NEW z, z = x.wire[t],
         NEW v, NEW j \in 1 .. Len(c)
  PROVE  Twins(x, Peeled(c, t, v, j), Peeled(r, z, v, j))
<1> DEFINE m == Len(c)
           half == Half(Eighths(v \div 2 ^ (m - j)))
           rest == SubSeq(c, 1, j - 1)
           resp == SubSeq(r, 1, j - 1)
           over == SubSeq(c, j + 1, m)
           oper == SubSeq(r, j + 1, m)
           free == Append(Reverse(over), t)
           frep == Append(Reverse(oper), z)
           ladder == Mcx(rest, c[j], free)
           lapper == Mcx(resp, r[j], frep)
<1>1. m \in Nat /\ j \in Nat /\ j >= 1 /\ j =< m /\ Len(r) = m
  BY DEF Wired
<1>2. c[j] \in x.wires /\ r[j] = x.wire[c[j]]
  BY WiredAt
<1>3. /\ Peeled(c, t, v, j)
           = <<By("CP", <<c[j], t>>, half)>> \o ladder \o <<By("CP", <<c[j], t>>, NegParam(half))>> \o ladder
      /\ Peeled(r, z, v, j)
           = <<By("CP", <<r[j], z>>, half)>> \o lapper \o <<By("CP", <<r[j], z>>, NegParam(half))>> \o lapper
  BY <1>1 DEF Peeled, Kicked
<1>4. Turned(x, half, half) /\ Turned(x, NegParam(half), NegParam(half))
  BY TurnedConcrete, TurnedHalf, TurnedNeg
<1>5. "CP" \in x.gates /\ "CP" \in PairTurns /\ McxGates \subseteq x.gates
  BY DEF MczGates, PairTurns
<1> HIDE DEF half
<1>6. /\ Twins(x, <<By("CP", <<c[j], t>>, half)>>, <<By("CP", <<r[j], z>>, half)>>)
      /\ Twins(x, <<By("CP", <<c[j], t>>, NegParam(half))>>, <<By("CP", <<r[j], z>>, NegParam(half))>>)
  BY <1>2, <1>4, <1>5, ByTwo, OneTwins
<1>7. Wired(x, rest, resp)
  <2>1. 1 \in Nat \ {0} /\ j - 1 \in Nat /\ j - 1 =< Len(c) /\ 1 =< j - 1 + 1
    BY <1>1
  <2> QED
    BY <2>1, WiredSub
<1>8. Wired(x, over, oper)
  <2>1. j + 1 \in Nat \ {0} /\ m \in Nat /\ m =< Len(c) /\ j + 1 =< m + 1
    BY <1>1
  <2> QED
    BY <2>1, WiredSub
<1> HIDE DEF m, rest, resp, over, oper
<1>9. Wired(x, free, frep) /\ Len(free) = Len(Reverse(over)) + 1 /\ Wired(x, Reverse(over), Reverse(oper))
  BY <1>8, WiredReverse, WiredAppend
<1>10. Len(free) >= 1
  <2>1. Len(Reverse(over)) \in Nat
    BY <1>9 DEF Wired
  <2> QED
    BY <1>9, <2>1
<1>11. Twins(x, ladder, lapper)
  BY <1>2, <1>5, <1>7, <1>9, <1>10, McxTwins
<1> HIDE DEF ladder, lapper
<1> QED
  BY <1>3, <1>6, <1>11, JoinTwins

LEMMA McPhaseTwins ==
  ASSUME NEW x, Renaming(x), MczGates \subseteq x.gates,
         NEW c, NEW r, Wired(x, c, r), NEW t \in x.wires, NEW z, z = x.wire[t],
         NEW v, Len(c) >= 1
  PROVE  Twins(x, McPhase(c, t, v), McPhase(r, z, v))
<1> DEFINE m == Len(c)
           n == m - 1
           ss == [i \in 1 .. n |-> Peeled(c, t, v, m + 1 - i)]
           ts == [i \in 1 .. n |-> Peeled(r, z, v, m + 1 - i)]
           p == Eighths(v \div 2 ^ (m - 1))
           last == <<By("CP", <<c[1], t>>, p)>>
           lazt == <<By("CP", <<r[1], z>>, p)>>
<1>1. m \in Nat /\ Len(r) = m /\ n \in Nat
  BY DEF Wired
<1>2. McPhase(c, t, v) = FlattenSeq(ss) \o last /\ McPhase(r, z, v) = FlattenSeq(ts) \o lazt
  BY <1>1 DEF McPhase
<1>3. \A i \in 1 .. n : Twins(x, ss[i], ts[i])
  <2> SUFFICES ASSUME NEW i \in 1 .. n PROVE Twins(x, ss[i], ts[i])
    OBVIOUS
  <2>1. m + 1 - i \in 1 .. Len(c)
    BY <1>1
  <2>2. Twins(x, Peeled(c, t, v, m + 1 - i), Peeled(r, z, v, m + 1 - i))
    BY <2>1, PeeledTwins
  <2> QED
    BY <2>2
<1>4. Twins(x, last, lazt)
  <2>1. 1 \in 1 .. Len(c)
    BY <1>1
  <2>2. c[1] \in x.wires /\ r[1] = x.wire[c[1]]
    BY <2>1, WiredAt
  <2>3. "CP" \in x.gates /\ "CP" \in PairTurns /\ Turned(x, p, p)
    BY TurnedConcrete DEF MczGates, PairTurns
  <2> HIDE DEF p
  <2> QED
    BY <2>2, <2>3, ByTwo, OneTwins
<1>5. ss = [i \in 1 .. n |-> ss[i]] /\ ts = [i \in 1 .. n |-> ts[i]]
  OBVIOUS
<1> HIDE DEF n, ss, ts, last, lazt
<1>6. Listed(ss) /\ Listed(ts) /\ Len(ss) = n /\ Len(ts) = n
  BY <1>1, <1>5, ListedFunction
<1>7. Twins(x, FlattenSeq(ss), FlattenSeq(ts))
  BY <1>3, <1>6, FlattenTwins
<1> QED
  BY <1>2, <1>4, <1>7, JoinTwins

LEMMA MczTwins ==
  ASSUME NEW x, Renaming(x), MczGates \subseteq x.gates, NEW q, NEW r, Wired(x, q, r), Len(q) >= 1
  PROVE  Twins(x, MczRule(q), MczRule(r))
<1> DEFINE m == Len(q)
           c == Front(q)
           e == Front(r)
           t == Last(q)
           z == Last(r)
<1>1. m \in Nat /\ Len(r) = m /\ q \in Seq(x.wires) /\ r \in Seq(x.ends)
  BY DEF Wired
<1>2. {"Z", "CZ", "H", "CCX"} \subseteq x.gates /\ {"Z", "H"} \subseteq MonoGates /\ "CZ" \in PairOns
  BY DEF MczGates, McxGates, MonoGates, PairOns
<1>3. CASE m = 1
  <2>1. MczRule(q) = <<On("Z", q)>> /\ MczRule(r) = <<On("Z", r)>>
    BY <1>1, <1>3 DEF MczRule
  <2> QED
    BY <1>2, <1>3, <2>1, OnAll, OneTwins
<1>4. CASE m = 2
  <2>1. MczRule(q) = <<On("CZ", q)>> /\ MczRule(r) = <<On("CZ", r)>>
    BY <1>1, <1>4 DEF MczRule
  <2> QED
    BY <1>2, <1>4, <2>1, OnAll, OneTwins
<1>5. m \in 1 .. m /\ t = q[m] /\ z = r[m]
  BY <1>1 DEF Last
<1>6. t \in x.wires /\ z = x.wire[t]
  BY <1>5, WiredAt
<1>7. CASE m = 3
  <2>1. /\ MczRule(q) = Conjugated(<<On("H", <<t>>)>>, <<On("CCX", q)>>)
        /\ MczRule(r) = Conjugated(<<On("H", <<z>>)>>, <<On("CCX", r)>>)
    BY <1>1, <1>7 DEF MczRule
  <2>2. Twin(x, On("CCX", q), On("CCX", r))
    BY <1>2, <1>7, OnAll
  <2> HIDE DEF t, z
  <2>3. Twin(x, On("H", <<t>>), On("H", <<z>>))
    BY <1>2, <1>6, OnOne
  <2> QED
    BY <2>1, <2>2, <2>3, OneTwins, ConjugatedTwins
<1>8. CASE m > 3
  <2>1. MczRule(q) = McPhase(c, t, 16) /\ MczRule(r) = McPhase(e, z, 16)
    BY <1>1, <1>8 DEF MczRule
  <2>2. Wired(x, c, e) /\ Len(c) = m - 1
    <3>1. 1 \in Nat \ {0} /\ m - 1 \in Nat /\ m - 1 =< Len(q) /\ 1 =< m - 1 + 1 /\ m - 1 + 1 - 1 = m - 1
      BY <1>1, <1>8
    <3>2. c = SubSeq(q, 1, m - 1) /\ e = SubSeq(r, 1, m - 1)
      BY <1>1 DEF Front
    <3> QED
      BY <3>1, <3>2, WiredSub
  <2> HIDE DEF c, e, t, z
  <2> QED
    BY <1>1, <1>6, <1>8, <2>1, <2>2, McPhaseTwins
<1> QED
  BY <1>1, <1>3, <1>4, <1>7, <1>8

\* The gates that each rule of the tables writes.
GatesWritten(g) ==
  CASE g = "U" -> {"GPhase", "Rz", "Ry"}
    [] g = "P" -> {"GPhase", "Rz"}
    [] g \in {"Sdg", "Tdg", "S", "T"} -> {"P"}
    [] g \in {"SX", "SXdg"} -> {"GPhase", "Rx"}
    [] g = "CRx" -> {"H", "Rz", "CX"}
    [] g = "CRy" -> {"Ry", "CX"}
    [] g = "CRz" -> {"Rz", "CX"}
    [] g = "CP" -> {"GPhase", "Rz", "CX"}
    [] g \in {"CS", "CSdg"} -> {"CP"}
    [] g \in {"CSX", "CSXdg"} -> {"P", "CRx"}
    [] g = "CU" -> {"P", "CX", "U"}
    [] g = "CY" -> {"Sdg", "CX", "S"}
    [] g = "CZ" -> {"H", "CX"}
    [] g = "CH" -> {"Ry", "CX"}
    [] g = "CSWAP" -> {"CX", "CCX"}
    [] g = "CCX" -> {"H", "CX", "T", "Tdg"}
    [] g = "SWAP" -> {"CX"}
    [] g = "iSWAP" -> {"S", "H", "CX"}
    [] g = "iSWAPdg" -> {"Sdg", "H", "CX"}
    [] g = "ECR" -> {"H", "CX", "Rz", "X"}
    [] g = "RZZ" -> {"CX", "Rz"}
    [] g = "RXX" -> {"H", "RZZ"}
    [] g = "RYY" -> {"Rx", "RZZ"}
    [] g = "MCZ" -> MczGates
    [] g = "Rx" -> {"H", "Rz"}
    [] g = "Ry" -> {"H", "Rz", "Sdg", "S"}
    [] g = "H" -> {"Rz", "Ry", "GPhase"}
    [] OTHER -> {}

LEMMA Kinds ==
  /\ "X" \in MonoGates /\ "Z" \in MonoGates /\ "H" \in MonoGates /\ "S" \in MonoGates
  /\ "Sdg" \in MonoGates /\ "T" \in MonoGates /\ "Tdg" \in MonoGates
  /\ "Rx" \in MonoTurns /\ "Ry" \in MonoTurns /\ "Rz" \in MonoTurns /\ "P" \in MonoTurns
  /\ "CX" \in PairOns /\ "CZ" \in PairOns
  /\ "CP" \in PairTurns /\ "CRx" \in PairTurns /\ "RZZ" \in PairTurns
BY DEF MonoGates, MonoTurns, PairOns, PairTurns

LEMMA TurnedRight ==
  ASSUME NEW x, Renaming(x)
  PROVE  /\ Turned(x, PI_2, PI_2) /\ Turned(x, NegParam(PI_2), NegParam(PI_2))
         /\ Turned(x, PI_4, PI_4) /\ Turned(x, NegParam(PI_4), NegParam(PI_4))
         /\ Turned(x, Angle(2), Angle(2)) /\ Turned(x, Eighths(0), Eighths(0))
<1>1. Turned(x, PI_2, PI_2) /\ Turned(x, Angle(2), Angle(2)) /\ Turned(x, Eighths(0), Eighths(0))
  BY TurnedConcrete DEF PI_2, Angle
<1>2. Turned(x, PI_4, PI_4)
  BY <1>1, TurnedHalf DEF PI_4
<1> QED
  BY <1>1, <1>2, TurnedNeg

LEMMA OneQubitTwins ==
  ASSUME NEW x, Renaming(x), NEW g \in OneQubitRules, GatesWritten(g) \subseteq x.gates,
         NEW q, NEW r, Wired(x, q, r), NEW p, NEW o, Angles(x, p, o), NEW f, NEW e, Twins(x, f, e),
         g # "Custom" => Len(q) = 1 /\ Len(p) = NumParams(g)
  PROVE  Twins(x, OneQubitRule(g, q, p, f), OneQubitRule(g, r, o, e))
<1> USE Kinds, TurnedRight
<1>1. CASE g = "U"
  <2>1. Len(p) = 3
    BY <1>1, Shapes
  <2>2. Turned(x, p[1], o[1]) /\ Turned(x, p[2], o[2]) /\ Turned(x, p[3], o[3])
    BY <2>1, AnglesAt
  <2>3. Turned(x, Half(SumParam(p[2], p[3])), Half(SumParam(o[2], o[3])))
    BY <2>2, TurnedSum, TurnedHalf
  <2>4. "GPhase" \in x.gates /\ "Rz" \in x.gates /\ "Ry" \in x.gates
    BY <1>1 DEF GatesWritten
  <2> DEFINE a == Phase(Half(SumParam(p[2], p[3])))
             b == By("Rz", q, p[3])
             c == By("Ry", q, p[1])
             d == By("Rz", q, p[2])
             u == Phase(Half(SumParam(o[2], o[3])))
             v == By("Rz", r, o[3])
             w == By("Ry", r, o[1])
             z == By("Rz", r, o[2])
  <2>5. Twin(x, a, u)
    BY <2>3, <2>4, PhaseTwin
  <2>6. Twin(x, b, v) /\ Twin(x, c, w) /\ Twin(x, d, z)
    BY <1>1, <2>2, <2>4, ByAll
  <2>7. OneQubitRule(g, q, p, f) = <<a, b, c, d>> /\ OneQubitRule(g, r, o, e) = <<u, v, w, z>>
    BY <1>1 DEF OneQubitRule
  <2> HIDE DEF a, b, c, d, u, v, w, z
  <2> QED
    BY <2>5, <2>6, <2>7, FourTwins
<1>2. CASE g = "P"
  <2>1. Len(p) = 1 /\ Len(q) = 1
    BY <1>2, Shapes DEF MonoTurns
  <2>2. Turned(x, p[1], o[1]) /\ "GPhase" \in x.gates /\ "Rz" \in x.gates
    BY <1>2, <2>1, AnglesAt DEF GatesWritten
  <2>3. Twin(x, Phase(Half(p[1])), Phase(Half(o[1]))) /\ Twin(x, By("Rz", q, p[1]), By("Rz", r, o[1]))
    BY <2>1, <2>2, TurnedHalf, PhaseTwin, ByAll
  <2> QED
    BY <1>2, <2>3, TwoTwins DEF OneQubitRule
<1>3. CASE g = "Sdg"
  <2>1. "P" \in x.gates /\ Len(q) = 1
    BY <1>3 DEF GatesWritten
  <2>2. Twin(x, By("P", q, NegParam(PI_2)), By("P", r, NegParam(PI_2)))
    BY <2>1, ByAll
  <2> QED
    BY <1>3, <2>2, OneTwins DEF OneQubitRule
<1>4. CASE g = "Tdg"
  <2>1. "P" \in x.gates /\ Len(q) = 1
    BY <1>4 DEF GatesWritten
  <2>2. Twin(x, By("P", q, NegParam(PI_4)), By("P", r, NegParam(PI_4)))
    BY <2>1, ByAll
  <2> QED
    BY <1>4, <2>2, OneTwins DEF OneQubitRule
<1>5. CASE g = "SX"
  <2>1. "GPhase" \in x.gates /\ "Rx" \in x.gates /\ Len(q) = 1
    BY <1>5 DEF GatesWritten
  <2>2. Twin(x, Phase(PI_4), Phase(PI_4)) /\ Twin(x, By("Rx", q, PI_2), By("Rx", r, PI_2))
    BY <2>1, PhaseTwin, ByAll
  <2> QED
    BY <1>5, <2>2, TwoTwins DEF OneQubitRule
<1>6. CASE g = "SXdg"
  <2>1. "GPhase" \in x.gates /\ "Rx" \in x.gates /\ Len(q) = 1
    BY <1>6 DEF GatesWritten
  <2>2. /\ Twin(x, Phase(NegParam(PI_4)), Phase(NegParam(PI_4)))
        /\ Twin(x, By("Rx", q, NegParam(PI_2)), By("Rx", r, NegParam(PI_2)))
    BY <2>1, PhaseTwin, ByAll
  <2> QED
    BY <1>6, <2>2, TwoTwins DEF OneQubitRule
<1>7. CASE g = "Custom"
  BY <1>7 DEF OneQubitRule
<1> QED
  BY <1>1, <1>2, <1>3, <1>4, <1>5, <1>6, <1>7 DEF OneQubitRules

LEMMA SandwichTwins ==
  ASSUME NEW x, Renaming(x), NEW g \in x.gates, g \in MonoTurns, "CX" \in x.gates,
         NEW c \in x.wires, NEW d, d = x.wire[c], NEW t \in x.wires, NEW z, z = x.wire[t],
         NEW p, NEW o, Turned(x, p, o)
  PROVE  Twins(x, Sandwich(g, c, t, p), Sandwich(g, d, z, o))
<1> DEFINE a == By(g, <<t>>, Half(p))
           b == On("CX", <<c, t>>)
           e == By(g, <<t>>, NegParam(Half(p)))
           u == By(g, <<z>>, Half(o))
           v == On("CX", <<d, z>>)
           w == By(g, <<z>>, NegParam(Half(o)))
<1>1. Twin(x, a, u) /\ Twin(x, b, v) /\ Twin(x, e, w)
  BY TurnedHalf, TurnedNeg, ByOne, OnTwo, Kinds
<1>2. Sandwich(g, c, t, p) = <<a, b, e, b>> /\ Sandwich(g, d, z, o) = <<u, v, w, v>>
  BY DEF Sandwich
<1> HIDE DEF a, b, e, u, v, w
<1> QED
  BY <1>1, <1>2, FourTwins

LEMMA SevenTwins ==
  ASSUME NEW x, NEW a, NEW b, NEW c, NEW d, NEW u, NEW v, NEW w, NEW z,
         Twin(x, a, u), Twin(x, b, v), Twin(x, c, w), Twin(x, d, z),
         NEW e, NEW f, NEW h, Twin(x, e, h), NEW k, Twin(x, f, k)
  PROVE  Twins(x, <<a, b, c, d, e, d, f>>, <<u, v, w, z, h, z, k>>)
<1> DEFINE S == {a, b, c, d, e, f}
           T == {u, v, w, z, h, k}
           s == <<a, b, c, d, e, d, f>>
           t == <<u, v, w, z, h, z, k>>
<1>1. s \in Seq(S) /\ t \in Seq(T)
  OBVIOUS
<1>2. Len(s) = 7 /\ Len(t) = 7
  OBVIOUS
<1>3. /\ s[1] = a /\ s[2] = b /\ s[3] = c /\ s[4] = d /\ s[5] = e /\ s[6] = d /\ s[7] = f
      /\ t[1] = u /\ t[2] = v /\ t[3] = w /\ t[4] = z /\ t[5] = h /\ t[6] = z /\ t[7] = k
  OBVIOUS
<1> HIDE DEF S, T, s, t
<1>4. Twins(x, s, t)
  BY <1>1, <1>2, <1>3 DEF Twins, Listed
<1> QED
  BY <1>4 DEF s, t

LEMMA CUTwins ==
  ASSUME NEW x, Renaming(x), {"P", "CX", "U"} \subseteq x.gates,
         NEW c \in x.wires, NEW d, d = x.wire[c], NEW t \in x.wires, NEW z, z = x.wire[t],
         NEW p, NEW o, Angles(x, p, o), Len(p) = 4
  PROVE  Twins(x, CURule(c, t, p), CURule(d, z, o))
<1>1. /\ Turned(x, p[1], o[1]) /\ Turned(x, p[2], o[2]) /\ Turned(x, p[3], o[3])
      /\ Turned(x, p[4], o[4])
  <2>1. \A i \in 1 .. 4 : Turned(x, p[i], o[i])
    BY AnglesAt
  <2> QED
    BY <2>1
<1> DEFINE half(v) == Half(SumParam(v[2], v[3]))
           diff(v) == Half(SumParam(v[3], NegParam(v[2])))
           zero == Eighths(0)
<1>2. /\ Turned(x, half(p), half(o)) /\ Turned(x, diff(p), diff(o)) /\ Turned(x, zero, zero)
      /\ Turned(x, NegParam(half(p)), NegParam(half(o)))
      /\ Turned(x, Half(p[1]), Half(o[1])) /\ Turned(x, NegParam(Half(p[1])), NegParam(Half(o[1])))
  BY <1>1, TurnedSum, TurnedHalf, TurnedNeg, TurnedRight
<1> DEFINE U(w, v) == Make("U", <<w>>, v, <<>>, <<>>)
           A(e, v) == By("P", <<e>>, v[4])
           B(e, v) == By("P", <<e>>, half(v))
           D(w, v) == By("P", <<w>>, diff(v))
           E(e, w) == On("CX", <<e, w>>)
           F(w, v) == U(w, <<NegParam(Half(v[1])), zero, NegParam(half(v))>>)
           H(w, v) == U(w, <<Half(v[1]), v[2], zero>>)
<1>3. /\ CURule(c, t, p) = <<A(c, p), B(c, p), D(t, p), E(c, t), F(t, p), E(c, t), H(t, p)>>
      /\ CURule(d, z, o) = <<A(d, o), B(d, o), D(z, o), E(d, z), F(z, o), E(d, z), H(z, o)>>
  BY DEF CURule
<1> HIDE DEF half, diff, zero
<1>4. Twin(x, A(c, p), A(d, o)) /\ Twin(x, B(c, p), B(d, o)) /\ Twin(x, D(t, p), D(z, o))
  BY <1>1, <1>2, ByOne, Kinds
<1>5. Twin(x, E(c, t), E(d, z))
  BY OnTwo, Kinds
<1>6. Wired(x, <<t>>, <<z>>) /\ Len(<<t>>) = 1
  BY WiredOne
<1>7. Twin(x, F(t, p), F(z, o))
  BY <1>2, <1>6, UTwin
<1>8. Twin(x, H(t, p), H(z, o))
  BY <1>1, <1>2, <1>6, UTwin
<1> HIDE DEF A, B, D, E, F, H
<1> QED
  BY <1>3, <1>4, <1>5, <1>7, <1>8, SevenTwins

LEMMA FirstAngle ==
  ASSUME NEW x, NEW p, NEW o, Angles(x, p, o), Len(p) = 1
  PROVE  Turned(x, p[1], o[1])
<1>1. 1 \in 1 .. Len(p)
  OBVIOUS
<1> QED
  BY <1>1, AnglesAt

LEMMA WiredPair ==
  ASSUME NEW x, NEW q, NEW r, Wired(x, q, r), Len(q) = 2
  PROVE  /\ q[1] \in x.wires /\ q[2] \in x.wires /\ r[1] = x.wire[q[1]] /\ r[2] = x.wire[q[2]]
         /\ Len(r) = 2
<1>1. 1 \in 1 .. Len(q) /\ 2 \in 1 .. Len(q)
  OBVIOUS
<1>2. Len(r) = 2
  BY DEF Wired
<1> QED
  BY <1>1, <1>2, WiredAt

LEMMA WiredTriple ==
  ASSUME NEW x, NEW q, NEW r, Wired(x, q, r), Len(q) = 3
  PROVE  /\ q[1] \in x.wires /\ q[2] \in x.wires /\ q[3] \in x.wires
         /\ r[1] = x.wire[q[1]] /\ r[2] = x.wire[q[2]] /\ r[3] = x.wire[q[3]] /\ Len(r) = 3
<1>1. 1 \in 1 .. Len(q) /\ 2 \in 1 .. Len(q) /\ 3 \in 1 .. Len(q)
  OBVIOUS
<1>2. Len(r) = 3
  BY DEF Wired
<1> QED
  BY <1>1, <1>2, WiredAt

LEMMA ControlledRotationTwins ==
  ASSUME NEW x, Renaming(x), NEW g \in ControlledRotationRules, GatesWritten(g) \subseteq x.gates,
         NEW c \in x.wires, NEW d, d = x.wire[c], NEW t \in x.wires, NEW z, z = x.wire[t],
         NEW p, NEW o, Angles(x, p, o), Len(p) = NumParams(g)
  PROVE  Twins(x, ControlledRotationRule(g, c, t, p), ControlledRotationRule(g, d, z, o))
<1> USE Kinds, TurnedRight
<1>1. CASE g \in {"CRx", "CRy", "CRz", "CP"}
  <2>1. Len(p) = 1
    BY <1>1 DEF NumParams, Additive
  <2>2. Turned(x, p[1], o[1])
    BY <2>1, FirstAngle
  <2>3. CASE g = "CRx"
    <3>1. "H" \in x.gates /\ "Rz" \in x.gates /\ "CX" \in x.gates
      BY <2>3 DEF GatesWritten
    <3>2. Twins(x, <<On("H", <<t>>)>>, <<On("H", <<z>>)>>)
      BY <3>1, OnOne, OneTwins
    <3>3. Twins(x, Sandwich("Rz", c, t, p[1]), Sandwich("Rz", d, z, o[1]))
      BY <2>2, <3>1, SandwichTwins
    <3> QED
      BY <2>3, <3>2, <3>3, ConjugatedTwins DEF ControlledRotationRule
  <2>4. CASE g = "CRy"
    <3>1. "Ry" \in x.gates /\ "CX" \in x.gates
      BY <2>4 DEF GatesWritten
    <3>2. Twins(x, Sandwich("Ry", c, t, p[1]), Sandwich("Ry", d, z, o[1]))
      BY <2>2, <3>1, SandwichTwins
    <3> QED
      BY <2>4, <3>2 DEF ControlledRotationRule
  <2>5. CASE g = "CRz"
    <3>1. "Rz" \in x.gates /\ "CX" \in x.gates
      BY <2>5 DEF GatesWritten
    <3>2. Twins(x, Sandwich("Rz", c, t, p[1]), Sandwich("Rz", d, z, o[1]))
      BY <2>2, <3>1, SandwichTwins
    <3> QED
      BY <2>5, <3>2 DEF ControlledRotationRule
  <2>6. CASE g = "CP"
    <3>1. "GPhase" \in x.gates /\ "Rz" \in x.gates /\ "CX" \in x.gates
      BY <2>6 DEF GatesWritten
    <3> DEFINE A(v) == <<Phase(Quarter(v[1]))>>
               B(e, w, v) == Sandwich("Rz", e, w, v[1])
               C(e, v) == <<By("Rz", <<e>>, Half(v[1]))>>
    <3>2. Turned(x, Quarter(p[1]), Quarter(o[1])) /\ Turned(x, Half(p[1]), Half(o[1]))
      BY <2>2, TurnedHalf DEF Quarter
    <3>3. Twins(x, A(p), A(o))
      BY <3>1, <3>2, PhaseTwin, OneTwins
    <3>4. Twins(x, B(c, t, p), B(d, z, o))
      BY <2>2, <3>1, SandwichTwins
    <3>5. Twins(x, C(c, p), C(d, o))
      BY <3>1, <3>2, ByOne, OneTwins
    <3>6. /\ ControlledRotationRule(g, c, t, p) = A(p) \o B(c, t, p) \o C(c, p)
          /\ ControlledRotationRule(g, d, z, o) = A(o) \o B(d, z, o) \o C(d, o)
      BY <2>6 DEF ControlledRotationRule
    <3> HIDE DEF A, B, C
    <3> QED
      BY <3>3, <3>4, <3>5, <3>6, JoinTwins
  <2> QED
    BY <1>1, <2>3, <2>4, <2>5, <2>6
<1>2. CASE g \in {"CS", "CSdg"}
  <2>1. "CP" \in x.gates
    BY <1>2 DEF GatesWritten
  <2>2. /\ Twin(x, By("CP", <<c, t>>, PI_2), By("CP", <<d, z>>, PI_2))
        /\ Twin(x, By("CP", <<c, t>>, NegParam(PI_2)), By("CP", <<d, z>>, NegParam(PI_2)))
    BY <2>1, ByTwo
  <2>3. CASE g = "CS"
    BY <2>2, <2>3, OneTwins DEF ControlledRotationRule
  <2>4. CASE g = "CSdg"
    BY <2>2, <2>4, OneTwins DEF ControlledRotationRule
  <2> QED
    BY <1>2, <2>3, <2>4
<1>3. CASE g \in {"CSX", "CSXdg"}
  <2>1. "P" \in x.gates /\ "CRx" \in x.gates
    BY <1>3 DEF GatesWritten
  <2> DEFINE A(e, v) == By("P", <<e>>, v)
             B(e, w, v) == By("CRx", <<e, w>>, v)
  <2>2. /\ Twin(x, A(c, PI_4), A(d, PI_4)) /\ Twin(x, B(c, t, PI_2), B(d, z, PI_2))
        /\ Twin(x, A(c, NegParam(PI_4)), A(d, NegParam(PI_4)))
        /\ Twin(x, B(c, t, NegParam(PI_2)), B(d, z, NegParam(PI_2)))
    BY <2>1, ByOne, ByTwo
  <2>3. CASE g = "CSX"
    <3>1. \A e, w, v : ControlledRotationRule(g, e, w, v) = <<A(e, PI_4), B(e, w, PI_2)>>
      BY <2>3 DEF ControlledRotationRule
    <3> HIDE DEF A, B
    <3> QED
      BY <2>2, <3>1, TwoTwins
  <2>4. CASE g = "CSXdg"
    <3>1. \A e, w, v : ControlledRotationRule(g, e, w, v) = <<A(e, NegParam(PI_4)), B(e, w, NegParam(PI_2))>>
      BY <2>4 DEF ControlledRotationRule
    <3> HIDE DEF A, B
    <3> QED
      BY <2>2, <3>1, TwoTwins
  <2> QED
    BY <1>3, <2>3, <2>4
<1>4. CASE g = "CU"
  <2>1. {"P", "CX", "U"} \subseteq x.gates
    BY <1>4 DEF GatesWritten
  <2>2. Len(p) = 4
    BY <1>4 DEF NumParams, Additive
  <2>3. \A e, w, v : ControlledRotationRule(g, e, w, v) = CURule(e, w, v)
    BY <1>4 DEF ControlledRotationRule
  <2> QED
    BY <2>1, <2>2, <2>3, CUTwins
<1> QED
  BY <1>1, <1>2, <1>3, <1>4 DEF ControlledRotationRules

LEMMA ToffoliTwins ==
  ASSUME NEW x, Renaming(x), {"H", "CX", "T", "Tdg"} \subseteq x.gates,
         NEW q, NEW r, Wired(x, q, r), Len(q) = 3
  PROVE  Twins(x, ControlledRule("CCX", q), ControlledRule("CCX", r))
<1> DEFINE h(s) == On("H", <<s[3]>>)
           bt(s) == On("CX", <<s[2], s[3]>>)
           ct(s) == On("CX", <<s[1], s[3]>>)
           cb(s) == On("CX", <<s[1], s[2]>>)
           Tt(s) == On("T", <<s[3]>>)
           Tb(s) == On("T", <<s[2]>>)
           Tc(s) == On("T", <<s[1]>>)
           tdg(s) == On("Tdg", <<s[3]>>)
           bdg(s) == On("Tdg", <<s[2]>>)
           A(s) == <<h(s), bt(s), tdg(s), ct(s)>>
           B(s) == <<Tt(s), bt(s), tdg(s), ct(s)>>
           C(s) == <<Tb(s), Tt(s), h(s), cb(s)>>
           D(s) == <<Tc(s), bdg(s), cb(s)>>
           F(s) == <<h(s), bt(s), tdg(s), ct(s), Tt(s), bt(s), tdg(s), ct(s), Tb(s), Tt(s), h(s), cb(s),
                     Tc(s), bdg(s), cb(s)>>
<1>2. Len(r) = 3
  BY WiredTriple
<1>3. ControlledRule("CCX", q) = F(q) /\ ControlledRule("CCX", r) = F(r)
  BY <1>2 DEF ControlledRule
<1>4. /\ q[1] \in x.wires /\ q[2] \in x.wires /\ q[3] \in x.wires
      /\ r[1] = x.wire[q[1]] /\ r[2] = x.wire[q[2]] /\ r[3] = x.wire[q[3]]
  BY WiredTriple
<1>5. /\ Twin(x, h(q), h(r)) /\ Twin(x, Tt(q), Tt(r)) /\ Twin(x, Tb(q), Tb(r))
      /\ Twin(x, Tc(q), Tc(r)) /\ Twin(x, tdg(q), tdg(r)) /\ Twin(x, bdg(q), bdg(r))
  BY <1>4, OnOne, Kinds
<1>6. Twin(x, bt(q), bt(r)) /\ Twin(x, ct(q), ct(r)) /\ Twin(x, cb(q), cb(r))
  BY <1>4, OnTwo, Kinds
<1> HIDE DEF h, bt, ct, cb, Tt, Tb, Tc, tdg, bdg
<1>7. Twins(x, A(q), A(r)) /\ Twins(x, B(q), B(r)) /\ Twins(x, C(q), C(r))
  BY <1>5, <1>6, FourTwins
<1>8. Twins(x, D(q), D(r))
  BY <1>5, <1>6, ThreeTwins
<1>9. ASSUME NEW s PROVE F(s) = A(s) \o B(s) \o C(s) \o D(s)
  <2> DEFINE S == {h(s), bt(s), ct(s), cb(s), Tt(s), Tb(s), Tc(s), tdg(s), bdg(s)}
  <2>1. A(s) \in Seq(S) /\ B(s) \in Seq(S) /\ C(s) \in Seq(S) /\ D(s) \in Seq(S)
    OBVIOUS
  <2>2. F(s) = A(s) \o B(s) \o C(s) \o D(s)
    BY <2>1
  <2> QED
    BY <2>2
<1> HIDE DEF A, B, C, D, F
<1> QED
  BY <1>3, <1>7, <1>8, <1>9, JoinTwins

LEMMA ControlledTwins ==
  ASSUME NEW x, Renaming(x), NEW g \in ControlledRules, GatesWritten(g) \subseteq x.gates,
         NEW q, NEW r, Wired(x, q, r), Len(q) = NumQubits(g)
  PROVE  Twins(x, ControlledRule(g, q), ControlledRule(g, r))
<1> USE Kinds, TurnedRight
<1>1. CASE g \in {"CY", "CZ", "CH"}
  <2>1. Len(q) = 2 /\ Len(r) = 2
    <3>1. NumQubits(g) = 2
      BY <1>1 DEF NumQubits, PairGates, Markers
    <3> QED
      BY <3>1, WiredPair
  <2>3. q[1] \in x.wires /\ q[2] \in x.wires /\ r[1] = x.wire[q[1]] /\ r[2] = x.wire[q[2]]
    BY <2>1, WiredPair
  <2> DEFINE CX(s) == On("CX", <<s[1], s[2]>>)
  <2>4. "CX" \in x.gates
    BY <1>1 DEF GatesWritten
  <2>5. Twin(x, CX(q), CX(r))
    BY <2>3, <2>4, OnTwo
  <2>6. CASE g = "CY"
    <3>1. "S" \in x.gates /\ "Sdg" \in x.gates
      BY <2>6 DEF GatesWritten
    <3>2. Twin(x, On("Sdg", <<q[2]>>), On("Sdg", <<r[2]>>)) /\ Twin(x, On("S", <<q[2]>>), On("S", <<r[2]>>))
      BY <2>3, <3>1, OnOne
    <3>3. /\ ControlledRule(g, q) = <<On("Sdg", <<q[2]>>), CX(q), On("S", <<q[2]>>)>>
          /\ ControlledRule(g, r) = <<On("Sdg", <<r[2]>>), CX(r), On("S", <<r[2]>>)>>
      BY <2>1, <2>6 DEF ControlledRule
    <3> HIDE DEF CX
    <3> QED
      BY <2>5, <3>2, <3>3, ThreeTwins
  <2>7. CASE g = "CZ"
    <3>1. "H" \in x.gates
      BY <2>7 DEF GatesWritten
    <3>2. Twin(x, On("H", <<q[2]>>), On("H", <<r[2]>>))
      BY <2>3, <3>1, OnOne
    <3>3. /\ ControlledRule(g, q) = Conjugated(<<On("H", <<q[2]>>)>>, <<CX(q)>>)
          /\ ControlledRule(g, r) = Conjugated(<<On("H", <<r[2]>>)>>, <<CX(r)>>)
      BY <2>1, <2>7 DEF ControlledRule
    <3> HIDE DEF CX
    <3> QED
      BY <2>5, <3>2, <3>3, OneTwins, ConjugatedTwins
  <2>8. CASE g = "CH"
    <3>1. "Ry" \in x.gates
      BY <2>8 DEF GatesWritten
    <3> DEFINE A(s) == By("Ry", <<s[2]>>, PI_4)
               B(s) == By("Ry", <<s[2]>>, NegParam(PI_4))
    <3>2. Twin(x, A(q), A(r)) /\ Twin(x, B(q), B(r))
      BY <2>3, <3>1, ByOne
    <3>3. ControlledRule(g, q) = <<A(q), CX(q), B(q)>> /\ ControlledRule(g, r) = <<A(r), CX(r), B(r)>>
      BY <2>1, <2>8 DEF ControlledRule
    <3> HIDE DEF CX, A, B
    <3> QED
      BY <2>5, <3>2, <3>3, ThreeTwins
  <2> QED
    BY <1>1, <2>6, <2>7, <2>8
<1>2. CASE g \in {"CCX", "CSWAP"}
  <2>1. Len(q) = 3 /\ Len(r) = 3
    <3>1. NumQubits(g) = 3
      BY <1>2 DEF NumQubits, PairGates, Markers
    <3> QED
      BY <3>1, WiredTriple
  <2>2. CASE g = "CCX"
    BY <2>1, <2>2, ToffoliTwins DEF GatesWritten
  <2>3. CASE g = "CSWAP"
    <3>2. /\ q[1] \in x.wires /\ q[2] \in x.wires /\ q[3] \in x.wires
          /\ r[1] = x.wire[q[1]] /\ r[2] = x.wire[q[2]] /\ r[3] = x.wire[q[3]]
      BY <2>1, WiredTriple
    <3>3. "CX" \in x.gates /\ "CCX" \in x.gates
      BY <2>3 DEF GatesWritten
    <3> DEFINE A(s) == On("CX", <<s[3], s[2]>>)
               B(s) == On("CCX", <<s[1], s[2], s[3]>>)
    <3>4. Twin(x, A(q), A(r)) /\ Twin(x, B(q), B(r))
      BY <3>2, <3>3, OnTwo, OnThree
    <3>5. /\ ControlledRule(g, q) = Conjugated(<<A(q)>>, <<B(q)>>)
          /\ ControlledRule(g, r) = Conjugated(<<A(r)>>, <<B(r)>>)
      BY <2>1, <2>3 DEF ControlledRule
    <3> HIDE DEF A, B
    <3> QED
      BY <3>4, <3>5, OneTwins, ConjugatedTwins
  <2> QED
    BY <1>2, <2>2, <2>3
<1> QED
  BY <1>1, <1>2 DEF ControlledRules

LEMMA BothTwins ==
  ASSUME NEW x, Renaming(x), NEW g \in x.gates, g \in MonoGates,
         NEW a \in x.wires, NEW b \in x.wires, NEW u, u = x.wire[a], NEW v, v = x.wire[b],
         NEW q, q[1] = a, q[2] = b, NEW r, r[1] = u, r[2] = v
  PROVE  Twins(x, OnBoth(g, q), OnBoth(g, r))
<1>1. Twin(x, On(g, <<a>>), On(g, <<u>>)) /\ Twin(x, On(g, <<b>>), On(g, <<v>>))
  BY OnOne
<1> QED
  BY <1>1, TwoTwins DEF OnBoth

LEMMA PairTwins ==
  ASSUME NEW x, Renaming(x), NEW g \in PairRules, GatesWritten(g) \subseteq x.gates,
         NEW q, NEW r, Wired(x, q, r), Len(q) = 2, NEW p, NEW o, Angles(x, p, o), Len(p) = NumParams(g)
  PROVE  Twins(x, PairRule(g, q, p), PairRule(g, r, o))
<1> USE Kinds, TurnedRight
<1>1. /\ q[1] \in x.wires /\ q[2] \in x.wires /\ r[1] = x.wire[q[1]] /\ r[2] = x.wire[q[2]]
      /\ Len(r) = 2
  BY WiredPair
<1> DEFINE there(s) == On("CX", s)
           back(s) == On("CX", <<s[2], s[1]>>)
           h1(s) == On("H", <<s[1]>>)
           h2(s) == On("H", <<s[2]>>)
           RotateX(s, v) == <<By("Rx", <<s[1]>>, v), By("Rx", <<s[2]>>, v)>>
           RZX(s, v) == Conjugated(<<there(s)>>, <<By("Rz", <<s[2]>>, v)>>)
           RZZ(s, v) == <<By("RZZ", s, v)>>
<1>2. "CX" \in x.gates => Twin(x, there(q), there(r)) /\ Twin(x, back(q), back(r))
  BY <1>1, OnAll, OnTwo
<1>3. "H" \in x.gates => Twin(x, h1(q), h1(r)) /\ Twin(x, h2(q), h2(r))
  BY <1>1, OnOne
<1>4. ASSUME "Rx" \in x.gates, NEW v, NEW w, Turned(x, v, w)
      PROVE  Twins(x, RotateX(q, v), RotateX(r, w))
  <2>1. Twin(x, By("Rx", <<q[1]>>, v), By("Rx", <<r[1]>>, w)) /\ Twin(x, By("Rx", <<q[2]>>, v), By("Rx", <<r[2]>>, w))
    BY <1>1, <1>4, ByOne
  <2> QED
    BY <2>1, TwoTwins
<1>5. ASSUME "CX" \in x.gates, "Rz" \in x.gates, NEW v, NEW w, Turned(x, v, w)
      PROVE  Twins(x, RZX(q, v), RZX(r, w))
  <2>1. Twins(x, <<By("Rz", <<q[2]>>, v)>>, <<By("Rz", <<r[2]>>, w)>>)
    BY <1>1, <1>5, ByOne, OneTwins
  <2> HIDE DEF there
  <2> QED
    BY <1>2, <1>5, <2>1, OneTwins, ConjugatedTwins
<1>6. ASSUME "RZZ" \in x.gates, NEW v, NEW w, Turned(x, v, w)
      PROVE  Twins(x, RZZ(q, v), RZZ(r, w))
  <2>1. Twin(x, By("RZZ", q, v), By("RZZ", r, w))
    BY <1>6, ByAll
  <2> QED
    BY <2>1, OneTwins
<1>7. g \in {"RZZ", "RXX", "RYY"} => Turned(x, p[1], o[1])
  <2>1. g \in {"RZZ", "RXX", "RYY"} => NumParams(g) = 1
    BY DEF NumParams, Additive
  <2> QED
    BY <2>1, FirstAngle
<1>8. CASE g = "SWAP"
  <2>1. "CX" \in x.gates
    BY <1>8 DEF GatesWritten
  <2>2. \A s, v : PairRule(g, s, v) = <<there(s), back(s), there(s)>>
    BY <1>8 DEF PairRule
  <2> HIDE DEF there, back
  <2> QED
    BY <1>2, <2>1, <2>2, ThreeTwins
<1>9. CASE g = "iSWAP"
  <2>1. "CX" \in x.gates /\ "H" \in x.gates /\ "S" \in x.gates
    BY <1>9 DEF GatesWritten
  <2>2. \A s, v : PairRule(g, s, v) = OnBoth("S", s) \o <<h1(s), there(s), back(s), h2(s)>>
    BY <1>9 DEF PairRule
  <2>3. Twins(x, OnBoth("S", q), OnBoth("S", r))
    BY <1>1, <2>1, BothTwins
  <2> HIDE DEF there, back, h1, h2
  <2>4. Twins(x, <<h1(q), there(q), back(q), h2(q)>>, <<h1(r), there(r), back(r), h2(r)>>)
    BY <1>2, <1>3, <2>1, FourTwins
  <2> QED
    BY <2>2, <2>3, <2>4, JoinTwins
<1>10. CASE g = "iSWAPdg"
  <2>1. "CX" \in x.gates /\ "H" \in x.gates /\ "Sdg" \in x.gates
    BY <1>10 DEF GatesWritten
  <2>2. \A s, v : PairRule(g, s, v)
                    = <<h2(s), back(s), there(s), h1(s)>> \o OnBoth("Sdg", <<s[2], s[1]>>)
    BY <1>10 DEF PairRule
  <2>3. Twins(x, OnBoth("Sdg", <<q[2], q[1]>>), OnBoth("Sdg", <<r[2], r[1]>>))
    <3> DEFINE a == <<q[2], q[1]>>
               b == <<r[2], r[1]>>
    <3>1. a[1] = q[2] /\ a[2] = q[1] /\ b[1] = r[2] /\ b[2] = r[1]
      OBVIOUS
    <3> HIDE DEF a, b
    <3>2. Twins(x, OnBoth("Sdg", a), OnBoth("Sdg", b))
      BY <1>1, <2>1, <3>1, BothTwins
    <3> QED
      BY <3>2 DEF a, b
  <2> HIDE DEF there, back, h1, h2
  <2>4. Twins(x, <<h2(q), back(q), there(q), h1(q)>>, <<h2(r), back(r), there(r), h1(r)>>)
    BY <1>2, <1>3, <2>1, FourTwins
  <2> QED
    BY <2>2, <2>3, <2>4, JoinTwins
<1>11. CASE g = "ECR"
  <2>1. "CX" \in x.gates /\ "H" \in x.gates /\ "X" \in x.gates /\ "Rz" \in x.gates
    BY <1>11 DEF GatesWritten
  <2> DEFINE A(s) == <<h2(s)>>
             B(s) == RZX(s, PI_4)
             C(s) == <<On("X", <<s[1]>>)>>
             D(s) == RZX(s, NegParam(PI_4))
  <2>2. \A s, v : PairRule(g, s, v) = Conjugated(A(s), B(s) \o C(s) \o D(s))
    BY <1>11 DEF PairRule
  <2>3. Twins(x, A(q), A(r))
    <3> HIDE DEF h2
    <3> QED
      BY <1>3, <2>1, OneTwins
  <2>4. Twins(x, B(q), B(r)) /\ Twins(x, D(q), D(r))
    <3> HIDE DEF RZX
    <3> QED
      BY <1>5, <2>1
  <2>5. Twins(x, C(q), C(r))
    BY <1>1, <2>1, OnOne, OneTwins
  <2> HIDE DEF A, B, C, D
  <2>6. Twins(x, B(q) \o C(q) \o D(q), B(r) \o C(r) \o D(r))
    BY <2>4, <2>5, JoinTwins
  <2> QED
    BY <2>2, <2>3, <2>6, ConjugatedTwins
<1>12. CASE g = "RZZ"
  <2>1. "CX" \in x.gates /\ "Rz" \in x.gates
    BY <1>12 DEF GatesWritten
  <2>2. \A s, v : PairRule(g, s, v) = RZX(s, v[1])
    BY <1>12 DEF PairRule
  <2> HIDE DEF RZX
  <2> QED
    BY <1>5, <1>7, <1>12, <2>1, <2>2
<1>13. CASE g = "RXX"
  <2>1. "H" \in x.gates /\ "RZZ" \in x.gates
    BY <1>13 DEF GatesWritten
  <2>2. \A s, v : PairRule(g, s, v) = Conjugated(OnBoth("H", s), RZZ(s, v[1]))
    BY <1>13 DEF PairRule
  <2>3. Twins(x, OnBoth("H", q), OnBoth("H", r))
    BY <1>1, <2>1, BothTwins
  <2> HIDE DEF RZZ
  <2> QED
    BY <1>6, <1>7, <1>13, <2>1, <2>2, <2>3, ConjugatedTwins
<1>14. CASE g = "RYY"
  <2>1. "Rx" \in x.gates /\ "RZZ" \in x.gates
    BY <1>14 DEF GatesWritten
  <2>2. \A s, v : PairRule(g, s, v) = RotateX(s, PI_2) \o RZZ(s, v[1]) \o RotateX(s, NegParam(PI_2))
    BY <1>14 DEF PairRule
  <2> HIDE DEF RZZ, RotateX
  <2>3. /\ Twins(x, RotateX(q, PI_2), RotateX(r, PI_2))
        /\ Twins(x, RotateX(q, NegParam(PI_2)), RotateX(r, NegParam(PI_2)))
    BY <1>4, <2>1
  <2>4. Twins(x, RZZ(q, p[1]), RZZ(r, o[1]))
    BY <1>6, <1>7, <1>14, <2>1
  <2> QED
    BY <2>2, <2>3, <2>4, JoinTwins
<1> QED
  BY <1>8, <1>9, <1>10, <1>11, <1>12, <1>13, <1>14 DEF PairRules

LEMMA RzOnlyTwins ==
  ASSUME NEW x, Renaming(x), NEW g \in {"Rx", "Ry"}, GatesWritten(g) \subseteq x.gates,
         NEW q, NEW r, Wired(x, q, r), Len(q) = 1, NEW p, NEW o, Angles(x, p, o), Len(p) = 1
  PROVE  Twins(x, RzOnlyRule(g, q, p), RzOnlyRule(g, r, o))
<1> DEFINE turned(s, v) == Conjugated(<<On("H", s)>>, <<By("Rz", s, v[1])>>)
<1>1. "H" \in x.gates /\ "Rz" \in x.gates
  BY DEF GatesWritten
<1>2. Turned(x, p[1], o[1])
  BY FirstAngle
<1>3. Twins(x, turned(q, p), turned(r, o))
  <2>1. Twin(x, On("H", q), On("H", r)) /\ Twin(x, By("Rz", q, p[1]), By("Rz", r, o[1]))
    BY <1>1, <1>2, OnAll, ByAll, Kinds
  <2> QED
    BY <2>1, OneTwins, ConjugatedTwins
<1>4. CASE g = "Rx"
  <2>1. \A s, v : RzOnlyRule(g, s, v) = turned(s, v)
    BY <1>4 DEF RzOnlyRule
  <2> HIDE DEF turned
  <2> QED
    BY <1>3, <2>1
<1>5. CASE g = "Ry"
  <2> DEFINE A(s) == <<On("Sdg", s)>>
             B(s) == <<On("S", s)>>
  <2>1. \A s, v : RzOnlyRule(g, s, v) = A(s) \o turned(s, v) \o B(s)
    BY <1>5 DEF RzOnlyRule
  <2>2. "Sdg" \in x.gates /\ "S" \in x.gates
    BY <1>5 DEF GatesWritten
  <2>3. Twins(x, A(q), A(r)) /\ Twins(x, B(q), B(r))
    BY <2>2, OnAll, OneTwins, Kinds
  <2> HIDE DEF turned, A, B
  <2> QED
    BY <1>3, <2>1, <2>3, JoinTwins
<1> QED
  BY <1>4, <1>5

LEMMA PhaseKeptTwins ==
  ASSUME NEW x, Renaming(x), NEW g \in PhaseKeptRules, GatesWritten(g) \subseteq x.gates,
         NEW q, NEW r, Wired(x, q, r), Len(q) = 1, NEW p, NEW o, Angles(x, p, o), Len(p) = NumParams(g)
  PROVE  Twins(x, PhaseKeptRule(g, q, p), PhaseKeptRule(g, r, o))
<1> USE Kinds, TurnedRight
<1>1. CASE g = "H"
  <2>1. "Rz" \in x.gates /\ "Ry" \in x.gates /\ "GPhase" \in x.gates
    BY <1>1 DEF GatesWritten
  <2> DEFINE A(s) == By("Rz", s, Angle(2))
             B(s) == By("Ry", s, PI_2)
             C == Phase(PI_2)
  <2>2. Twin(x, A(q), A(r)) /\ Twin(x, B(q), B(r)) /\ Twin(x, C, C)
    BY <2>1, ByAll, PhaseTwin
  <2>3. \A s, v : PhaseKeptRule(g, s, v) = <<A(s), B(s), C>>
    BY <1>1 DEF PhaseKeptRule
  <2> HIDE DEF A, B, C
  <2> QED
    BY <2>2, <2>3, ThreeTwins
<1>2. CASE g \in {"S", "T"}
  <2>1. "P" \in x.gates
    BY <1>2 DEF GatesWritten
  <2>2. Twin(x, By("P", q, PI_2), By("P", r, PI_2)) /\ Twin(x, By("P", q, PI_4), By("P", r, PI_4))
    BY <2>1, ByAll
  <2>3. CASE g = "S"
    BY <2>2, <2>3, OneTwins DEF PhaseKeptRule
  <2>4. CASE g = "T"
    BY <2>2, <2>4, OneTwins DEF PhaseKeptRule
  <2> QED
    BY <1>2, <2>3, <2>4
<1>3. CASE g = "U"
  <2>1. Len(p) = 3
    BY <1>3, Shapes
  <2>2. Turned(x, p[1], o[1]) /\ Turned(x, p[2], o[2]) /\ Turned(x, p[3], o[3])
    <3>1. \A i \in 1 .. 3 : Turned(x, p[i], o[i])
      BY <2>1, AnglesAt
    <3> QED
      BY <3>1
  <2>3. Turned(x, Half(SumParam(p[2], p[3])), Half(SumParam(o[2], o[3])))
    BY <2>2, TurnedSum, TurnedHalf
  <2>4. "GPhase" \in x.gates /\ "Rz" \in x.gates /\ "Ry" \in x.gates
    BY <1>3 DEF GatesWritten
  <2> DEFINE A(s, v) == By("Rz", s, v[3])
             B(s, v) == By("Ry", s, v[1])
             C(s, v) == By("Rz", s, v[2])
             D(v) == Phase(Half(SumParam(v[2], v[3])))
  <2>5. Twin(x, D(p), D(o))
    BY <2>3, <2>4, PhaseTwin
  <2>6. Twin(x, A(q, p), A(r, o)) /\ Twin(x, B(q, p), B(r, o)) /\ Twin(x, C(q, p), C(r, o))
    BY <2>2, <2>4, ByAll
  <2>7. \A s, v : PhaseKeptRule(g, s, v) = <<A(s, v), B(s, v), C(s, v), D(v)>>
    BY <1>3 DEF PhaseKeptRule
  <2> HIDE DEF A, B, C, D
  <2> QED
    BY <2>5, <2>6, <2>7, FourTwins
<1> QED
  BY <1>1, <1>2, <1>3 DEF PhaseKeptRules

\* A command that a pass rewrites, and the one it rewrites under the renaming.
Alike(x, c, r) ==
  /\ r.gate = c.gate /\ HasShape(c) /\ HasOperands(c)
  /\ Wired(x, c.qubits, r.qubits) /\ Angles(x, c.params, r.params) /\ Twins(x, c.factors, r.factors)

Writes(t, g) ==
  IF Registers(t, g) THEN {t.registered[g][k].gate : k \in DOMAIN t.registered[g]} ELSE GatesWritten(g)

LEMMA Arity ==
  ASSUME NEW c, HasShape(c), HasOperands(c), Len(c.qubits) \in Nat, c.qubits = <<>> <=> Len(c.qubits) = 0,
         c.gate \notin Markers \cup {"Barrier"}
  PROVE  /\ c.gate \notin {"MCZ", "Custom"} => Len(c.qubits) = NumQubits(c.gate) /\ Len(c.params) = NumParams(c.gate)
         /\ c.gate \in {"MCZ", "Custom"} => Len(c.qubits) >= 1
BY DEF HasShape, HasOperands

LEMMA AlikeArity ==
  ASSUME NEW x, NEW c, NEW r, Alike(x, c, r), c.gate \notin Markers \cup {"Barrier"}
  PROVE  /\ c.gate \notin {"MCZ", "Custom"} => Len(c.qubits) = NumQubits(c.gate) /\ Len(c.params) = NumParams(c.gate)
         /\ c.gate \in {"MCZ", "Custom"} => Len(c.qubits) >= 1
<1>1. Len(c.qubits) \in Nat /\ (c.qubits = <<>> <=> Len(c.qubits) = 0)
  BY DEF Alike, Wired
<1> QED
  BY <1>1, Arity DEF Alike

LEMMA Arities ==
  /\ \A g \in OneQubitRules \cup PhaseKeptRules \cup {"Rx", "Ry"} : g # "Custom" => NumQubits(g) = 1
  /\ \A g \in ControlledRotationRules \cup PairRules : NumQubits(g) = 2
  /\ NumParams("Rx") = 1 /\ NumParams("Ry") = 1
<1>1. \A g \in OneQubitRules \cup PhaseKeptRules \cup {"Rx", "Ry"} : g # "Custom" => NumQubits(g) = 1
  BY DEF OneQubitRules, PhaseKeptRules, NumQubits, PairGates, Markers
<1>2. \A g \in ControlledRotationRules \cup PairRules : NumQubits(g) = 2
  BY DEF ControlledRotationRules, PairRules, NumQubits, PairGates, Markers
<1>3. NumParams("Rx") = 1 /\ NumParams("Ry") = 1
  BY DEF NumParams, Additive
<1> QED
  BY <1>1, <1>2, <1>3

LEMMA BuiltinTwins ==
  ASSUME NEW x, Renaming(x), NEW c, NEW r, Alike(x, c, r), NEW rules, c.gate \in Decomposable(rules),
         rules = "multi_control" => c.gate \notin PhaseKeptRules,
         c.gate = "Custom" => Len(c.qubits) = 1, GatesWritten(c.gate) \subseteq x.gates
  PROVE  Twins(x, Builtin(c), Builtin(r))
<1> DEFINE g == c.gate
           q == c.qubits
           p == c.params
           Rules == {OneQubitRules, DroppedGates, ControlledRotationRules, ControlledRules, PairRules}
<1>1. g \notin Markers \cup {"Barrier"}
  BY DEF Decomposable, Overrides, Markers, OneQubitRules, DroppedGates,
         ControlledRotationRules, ControlledRules, PairRules, PhaseKeptRules
<1>2. r.gate = g /\ Wired(x, q, r.qubits) /\ Angles(x, p, r.params) /\ Twins(x, c.factors, r.factors)
  BY DEF Alike
<1>3. g \notin {"MCZ", "Custom"} => Len(q) = NumQubits(g) /\ Len(p) = NumParams(g)
  BY <1>1, AlikeArity
<1>4. CASE g \in DroppedGates
  <2>1. Builtin(c) = <<>> /\ Builtin(r) = <<>>
    BY <1>2, <1>4 DEF Builtin, DroppedGates, OneQubitRules, ControlledRotationRules, ControlledRules, PairRules
  <2> QED
    BY <2>1, NoTwins
<1>5. CASE g \in OneQubitRules
  <2>1. /\ Builtin(c) = OneQubitRule(g, q, p, c.factors)
        /\ Builtin(r) = OneQubitRule(g, r.qubits, r.params, r.factors)
    BY <1>2, <1>5 DEF Builtin, DroppedGates, OneQubitRules, ControlledRotationRules, ControlledRules, PairRules
  <2>2. g # "Custom" => Len(q) = 1 /\ Len(p) = NumParams(g)
    <3>1. g # "MCZ"
      BY <1>5 DEF OneQubitRules
    <3> QED
      BY <1>3, <1>5, <3>1, Arities
  <2> QED
    BY <1>2, <1>5, <2>1, <2>2, OneQubitTwins
<1>6. CASE g \in ControlledRotationRules
  <2>1. /\ Builtin(c) = ControlledRotationRule(g, q[1], q[2], p)
        /\ Builtin(r) = ControlledRotationRule(g, r.qubits[1], r.qubits[2], r.params)
    BY <1>2, <1>6 DEF Builtin, DroppedGates, OneQubitRules, ControlledRotationRules, ControlledRules, PairRules
  <2>2. Len(q) = 2 /\ Len(p) = NumParams(g)
    <3>1. g \notin {"MCZ", "Custom"}
      BY <1>6 DEF ControlledRotationRules
    <3> QED
      BY <1>3, <1>6, <3>1, Arities
  <2>3. /\ q[1] \in x.wires /\ q[2] \in x.wires
        /\ r.qubits[1] = x.wire[q[1]] /\ r.qubits[2] = x.wire[q[2]]
    BY <1>2, <2>2, WiredPair
  <2> QED
    BY <1>2, <1>6, <2>1, <2>2, <2>3, ControlledRotationTwins
<1>7. CASE g \in ControlledRules
  <2>1. Builtin(c) = ControlledRule(g, q) /\ Builtin(r) = ControlledRule(g, r.qubits)
    BY <1>2, <1>7 DEF Builtin, DroppedGates, OneQubitRules, ControlledRotationRules, ControlledRules, PairRules
  <2>2. Len(q) = NumQubits(g)
    <3>1. g \notin {"MCZ", "Custom"}
      BY <1>7 DEF ControlledRules
    <3> QED
      BY <1>3, <3>1
  <2> QED
    BY <1>2, <1>7, <2>1, <2>2, ControlledTwins
<1>8. CASE g \in PairRules
  <2>1. Builtin(c) = PairRule(g, q, p) /\ Builtin(r) = PairRule(g, r.qubits, r.params)
    BY <1>2, <1>8 DEF Builtin, DroppedGates, OneQubitRules, ControlledRotationRules, ControlledRules, PairRules
  <2>2. Len(q) = 2 /\ Len(p) = NumParams(g)
    <3>1. g \notin {"MCZ", "Custom"}
      BY <1>8 DEF PairRules
    <3> QED
      BY <1>3, <1>8, <3>1, Arities
  <2> QED
    BY <1>2, <1>8, <2>1, <2>2, PairTwins
<1>9. CASE g = "MCZ"
  <2>1. Builtin(c) = MczRule(q) /\ Builtin(r) = MczRule(r.qubits)
    BY <1>2, <1>9 DEF Builtin, DroppedGates, OneQubitRules, ControlledRotationRules, ControlledRules, PairRules
  <2>2. Len(q) >= 1 /\ MczGates \subseteq x.gates
    <3>1. GatesWritten(g) = MczGates
      BY <1>9 DEF GatesWritten
    <3> QED
      BY <1>1, <1>9, <3>1, AlikeArity
  <2> QED
    BY <1>2, <2>1, <2>2, MczTwins
<1>10. CASE g \in {"Rx", "Ry"}
  <2>1. Builtin(c) = RzOnlyRule(g, q, p) /\ Builtin(r) = RzOnlyRule(g, r.qubits, r.params)
    BY <1>2, <1>10 DEF Builtin, DroppedGates, OneQubitRules, ControlledRotationRules, ControlledRules, PairRules
  <2>2. Len(q) = 1 /\ Len(p) = 1
    BY <1>3, <1>10, Arities
  <2> QED
    BY <1>2, <1>10, <2>1, <2>2, RzOnlyTwins
<1> QED
  <2>1. g \in DroppedGates \cup OneQubitRules \cup ControlledRotationRules \cup ControlledRules
              \cup PairRules \cup {"MCZ"} \cup {"Rx", "Ry"}
    BY DEF Decomposable, Overrides
  <2> QED
    BY <1>4, <1>5, <1>6, <1>7, <1>8, <1>9, <1>10, <2>1

\* A registered rule reads the operands of its command by their places.
LEMMA RegisteredTwins ==
  ASSUME NEW x, Renaming(x), NEW t, IsTarget(t), NEW c, NEW r, Alike(x, c, r),
         Registers(t, c.gate), Writes(t, c.gate) \subseteq x.gates,
         c.gate \notin Markers \cup {"Barrier"}
  PROVE  Twins(x, Decompose(t, c), Decompose(t, r))
<1> DEFINE rule == t.registered[c.gate]
           n == Len(rule)
           least == IF c.gate = "MCZ" THEN 1 ELSE NumQubits(c.gate)
           E == {w \in [gate : STRING, on : Seq(1 .. least) \ {<<>>}] : HasShape(On(w.gate, w.on))}
           D(qs) == [k \in DOMAIN rule |-> On(rule[k].gate, [i \in DOMAIN rule[k].on |-> qs[rule[k].on[i]]])]
<1>1. rule \in Seq(E)
  BY DEF IsTarget, Registers, IsRule
<1>2. Decompose(t, c) = D(c.qubits) /\ Decompose(t, r) = D(r.qubits)
  BY DEF Decompose, Alike
<1>3. least \in Nat /\ least =< Len(c.qubits)
  <2>1. CASE c.gate = "MCZ"
    BY <2>1, AlikeArity
  <2>2. CASE c.gate = "Custom"
    <3>1. NumQubits(c.gate) = 1
      BY <2>2 DEF NumQubits, PairGates, Markers
    <3> QED
      BY <2>2, <3>1, AlikeArity
  <2>3. CASE c.gate \notin {"MCZ", "Custom"}
    <3>1. Len(c.qubits) = NumQubits(c.gate)
      BY <2>3, AlikeArity
    <3>2. Len(c.qubits) \in Nat
      BY DEF Alike, Wired
    <3> QED
      BY <2>3, <3>1, <3>2
  <2> QED
    BY <2>1, <2>2, <2>3
<1>4. n \in Nat /\ DOMAIN rule = 1 .. n /\ \A k \in 1 .. n : rule[k] \in E /\ rule[k].gate \in x.gates
  <2> HIDE DEF E
  <2>1. n \in Nat /\ DOMAIN rule = 1 .. n /\ \A k \in 1 .. n : rule[k] \in E
    BY <1>1
  <2>2. Writes(t, c.gate) = {rule[k].gate : k \in DOMAIN rule}
    BY DEF Writes
  <2> QED
    BY <2>1, <2>2
<1> HIDE DEF rule, n, least
<1>5. ASSUME NEW k \in 1 .. n PROVE Twin(x, D(c.qubits)[k], D(r.qubits)[k])
  <2> DEFINE on == rule[k].on
             g == rule[k].gate
             Q(qs) == [i \in DOMAIN on |-> qs[on[i]]]
  <2>1. on \in Seq(1 .. least) /\ on # <<>> /\ HasShape(On(g, on)) /\ g \in x.gates
    BY <1>4
  <2>2. D(c.qubits)[k] = On(g, Q(c.qubits)) /\ D(r.qubits)[k] = On(g, Q(r.qubits))
    BY <1>4
  <2> HIDE DEF on, g, D
  <2>3. Len(on) \in Nat /\ Len(on) # 0 /\ DOMAIN on = 1 .. Len(on) /\ \A i \in 1 .. Len(on) : on[i] \in 1 .. least
    <3> DEFINE L == 1 .. least
    <3>1. on \in Seq(L) /\ on # <<>>
      BY <2>1
    <3> HIDE DEF L
    <3>2. Len(on) \in Nat /\ DOMAIN on = 1 .. Len(on) /\ \A i \in 1 .. Len(on) : on[i] \in L
      BY <3>1
    <3>3. Len(on) # 0
      BY <3>1
    <3> QED
      BY <3>2, <3>3 DEF L
  <2>4. \A i \in 1 .. Len(on) : /\ c.qubits[on[i]] \in x.wires /\ r.qubits[on[i]] = x.wire[c.qubits[on[i]]]
                                /\ r.qubits[on[i]] \in x.ends
    <3> SUFFICES ASSUME NEW i \in 1 .. Len(on)
                 PROVE  /\ c.qubits[on[i]] \in x.wires /\ r.qubits[on[i]] = x.wire[c.qubits[on[i]]]
                        /\ r.qubits[on[i]] \in x.ends
      OBVIOUS
    <3>1. on[i] \in 1 .. Len(c.qubits)
      <4>1. Len(c.qubits) \in Nat
        BY DEF Alike, Wired
      <4> QED
        BY <1>3, <2>3, <4>1
    <3> QED
      BY <3>1, WiredAt DEF Alike
  <2>5. Wired(x, Q(c.qubits), Q(r.qubits)) /\ Len(Q(c.qubits)) = Len(on)
    <3> DEFINE u == Q(c.qubits)
               v == Q(r.qubits)
               W == x.wires
               F == x.ends
    <3>1. u \in [1 .. Len(on) -> W] /\ v \in [1 .. Len(on) -> F]
      BY <2>3, <2>4
    <3>2. \A i \in 1 .. Len(on) : v[i] = x.wire[u[i]]
      BY <2>3, <2>4
    <3> HIDE DEF u, v, W, F
    <3>3. u \in Seq(W) /\ v \in Seq(F) /\ Len(u) = Len(on) /\ Len(v) = Len(on)
      BY <2>3, <3>1
    <3> QED
      BY <3>2, <3>3 DEF Wired, u, v, W, F
  <2> DEFINE a == Q(c.qubits)
             b == Q(r.qubits)
  <2> HIDE DEF Q
  <2>6. HasShape(Make(g, a, <<>>, <<>>, <<>>))
    <3>1. /\ On(g, on).gate = g /\ On(g, on).qubits = on /\ On(g, on).params = <<>>
          /\ Make(g, a, <<>>, <<>>, <<>>).gate = g /\ Make(g, a, <<>>, <<>>, <<>>).qubits = a
          /\ Make(g, a, <<>>, <<>>, <<>>).params = <<>>
      BY MadeFields DEF On
    <3> QED
      BY <2>1, <2>5, <3>1 DEF HasShape
  <2>7. a # <<>>
    BY <2>3, <2>5
  <2>8. Twin(x, Make(g, a, <<>>, <<>>, <<>>), Make(g, b, <<>>, <<>>, <<>>))
    BY <2>1, <2>5, <2>6, <2>7, AnglesNone, MakeTwin
  <2> QED
    BY <2>2, <2>8 DEF On
<1>6. /\ D(c.qubits) = [k \in 1 .. n |-> D(c.qubits)[k]]
      /\ D(r.qubits) = [k \in 1 .. n |-> D(r.qubits)[k]]
  BY <1>4
<1> DEFINE s == D(c.qubits)
           u == D(r.qubits)
<1> HIDE DEF D
<1>7. Twins(x, s, u)
  BY <1>4, <1>5, <1>6, ListTwins
<1> QED
  BY <1>2, <1>7

LEMMA DecomposeTwins ==
  ASSUME NEW x, Renaming(x), NEW t, IsTarget(t), NEW c, NEW r, Alike(x, c, r),
         ~ StaysAsIs(t, c), ~ Refused(t, c), Writes(t, c.gate) \subseteq x.gates
  PROVE  Twins(x, Decompose(t, c), Decompose(t, r))
<1>1. c.gate \notin Markers \cup {"Barrier"}
  BY DEF StaysAsIs, Opaque, Markers
<1>2. CASE Registers(t, c.gate)
  BY <1>1, <1>2, RegisteredTwins
<1>3. CASE ~ Registers(t, c.gate)
  <2>1. c.gate \in Decomposable(t.rules) /\ (c.gate = "Custom" => Len(c.qubits) = 1)
    BY <1>3 DEF Refused
  <2>2. GatesWritten(c.gate) \subseteq x.gates /\ r.gate = c.gate
    BY <1>3 DEF Writes, Alike
  <2>3. CASE t.rules = "multi_control" /\ c.gate \in PhaseKeptRules
    <3>1. /\ Decompose(t, c) = PhaseKeptRule(c.gate, c.qubits, c.params)
          /\ Decompose(t, r) = PhaseKeptRule(c.gate, r.qubits, r.params)
      BY <1>3, <2>2, <2>3 DEF Decompose
    <3>2. Len(c.qubits) = 1 /\ Len(c.params) = NumParams(c.gate)
      <4>1. c.gate \notin {"MCZ", "Custom"}
        BY <2>3 DEF PhaseKeptRules
      <4> QED
        BY <1>1, <2>3, <4>1, AlikeArity, Arities
    <3> QED
      BY <2>2, <2>3, <3>1, <3>2, PhaseKeptTwins DEF Alike
  <2>4. CASE ~ (t.rules = "multi_control" /\ c.gate \in PhaseKeptRules)
    <3>1. Decompose(t, c) = Builtin(c) /\ Decompose(t, r) = Builtin(r)
      BY <1>3, <2>2, <2>4 DEF Decompose
    <3> QED
      BY <2>1, <2>2, <2>4, <3>1, BuiltinTwins
  <2> QED
    BY <2>3, <2>4
<1> QED
  BY <1>2, <1>3

-----------------------------------------------------------------------------
(* Streams abreast                                                          *)

\* What two sequences flattened side by side hold, and where it came from.
Abreast(u, v, ss, ts, n) ==
  /\ Listed(u) /\ Listed(v) /\ Len(v) = Len(u)
  /\ \A p \in 1 .. Len(u) : \E i \in 1 .. n : \E j \in 1 .. Len(ss[i]) :
       u[p] = ss[i][j] /\ v[p] = ts[i][j]
  /\ \A i \in 1 .. n : \A j \in 1 .. Len(ss[i]) : \E p \in 1 .. Len(u) : u[p] = ss[i][j]

LEMMA FlattenAbreast ==
  ASSUME NEW ss, NEW ts, Listed(ss), Listed(ts), Len(ts) = Len(ss),
         \A i \in 1 .. Len(ss) : Listed(ss[i]) /\ Listed(ts[i]) /\ Len(ts[i]) = Len(ss[i])
  PROVE  Abreast(FlattenSeq(ss), FlattenSeq(ts), ss, ts, Len(ss))
<1> DEFINE n == Len(ss)
<1>1. n \in Nat /\ DOMAIN ss = 1 .. n /\ DOMAIN ts = 1 .. n
  BY ListedLen
<1>2. CASE n = 0
  <2>1. ss = <<>> /\ ts = <<>>
    BY <1>2 DEF Listed
  <2>2. Listed(<<>>)
    BY ListedTuples
  <2>3. FlattenSeq(ss) = <<>> /\ FlattenSeq(ts) = <<>>
    BY <2>1, FlattenNone
  <2> QED
    BY <1>2, <2>2, <2>3 DEF Abreast
<1>3. CASE n # 0
  <2>1. (\A i \in DOMAIN ss : Listed(ss[i])) /\ (\A i \in DOMAIN ts : Listed(ts[i]))
    BY <1>1
  <2>2. PICK S : ss \in Seq(Seq(S))
    BY <2>1, PiecesIn
  <2>3. PICK T : ts \in Seq(Seq(T))
    BY <2>1, PiecesIn
  <2>4. ss # <<>> /\ ts # <<>>
    BY <1>3
  <2>5. PICK F \in [1 .. n -> Seq(S)] :
          /\ FlattenSeq(ss) = F[n] /\ F[1] = ss[1]
          /\ \A i \in 2 .. n : F[i] = F[i - 1] \o ss[i]
    BY <2>2, <2>4, FlattenForm
  <2>6. PICK G \in [1 .. n -> Seq(T)] :
          /\ FlattenSeq(ts) = G[n] /\ G[1] = ts[1]
          /\ \A i \in 2 .. n : G[i] = G[i - 1] \o ts[i]
    <3>1. \E G \in [1 .. Len(ts) -> Seq(T)] :
            /\ FlattenSeq(ts) = G[Len(ts)] /\ G[1] = ts[1]
            /\ \A i \in 2 .. Len(ts) : G[i] = G[i - 1] \o ts[i]
      BY <2>3, <2>4, FlattenForm
    <3>2. Len(ts) = n
      OBVIOUS
    <3> HIDE DEF n
    <3> QED
      BY <3>1, <3>2
  <2>7. Abreast(F[1], G[1], ss, ts, 1)
    <3>1. 1 \in 1 .. n
      BY <1>1, <1>3
    <3> QED
      BY <2>5, <2>6, <3>1 DEF Abreast
  <2>8. ASSUME NEW m \in 2 .. n, Abreast(F[m - 1], G[m - 1], ss, ts, m - 1)
        PROVE  Abreast(F[m], G[m], ss, ts, m)
    <3> DEFINE u == F[m - 1]
               v == G[m - 1]
               a == ss[m]
               b == ts[m]
               w == u \o a
               z == v \o b
    <3>1. F[m] = w /\ G[m] = z
      BY <2>5, <2>6
    <3>2. m \in 1 .. n /\ m - 1 \in Nat /\ m \in Nat
      BY <1>1
    <3>3. Listed(a) /\ Listed(b) /\ Len(b) = Len(a)
      BY <3>2
    <3>4. Abreast(u, v, ss, ts, m - 1) /\ Len(u) \in Nat /\ Len(a) \in Nat
      BY <2>8, <3>3, ListedLen DEF Abreast
    <3> HIDE DEF u, v
    <3>5. Listed(u) /\ Listed(v) /\ Len(v) = Len(u)
      BY <3>4 DEF Abreast
    <3>6. /\ Listed(w) /\ Len(w) = Len(u) + Len(a)
          /\ \A p \in 1 .. Len(w) : w[p] = IF p =< Len(u) THEN u[p] ELSE a[p - Len(u)]
      BY <3>3, <3>5, ListedJoin
    <3>7. /\ Listed(z) /\ Len(z) = Len(u) + Len(a)
          /\ \A p \in 1 .. Len(z) : z[p] = IF p =< Len(u) THEN v[p] ELSE b[p - Len(u)]
      <4>1. /\ Listed(z) /\ Len(z) = Len(v) + Len(b)
            /\ \A p \in 1 .. Len(z) : z[p] = IF p =< Len(v) THEN v[p] ELSE b[p - Len(v)]
        <5> HIDE DEF a, b
        <5> QED
          BY <3>3, <3>5, ListedJoin
      <4> HIDE DEF z, a, b
      <4> QED
        BY <3>3, <3>5, <4>1
    <3> HIDE DEF w, z
    <3>8. ASSUME NEW p \in 1 .. Len(w)
          PROVE  \E i \in 1 .. m : \E j \in 1 .. Len(ss[i]) : w[p] = ss[i][j] /\ z[p] = ts[i][j]
      <4>1. CASE p =< Len(u)
        <5>1. p \in 1 .. Len(u) /\ w[p] = u[p] /\ z[p] = v[p]
          BY <3>4, <3>6, <3>7, <4>1
        <5>2. PICK i \in 1 .. m - 1 : \E j \in 1 .. Len(ss[i]) : u[p] = ss[i][j] /\ v[p] = ts[i][j]
          BY <3>4, <5>1 DEF Abreast
        <5>3. i \in 1 .. m
          BY <3>2
        <5> QED
          BY <5>1, <5>2, <5>3
      <4>2. CASE ~ (p =< Len(u))
        <5> DEFINE j == p - Len(u)
        <5>1. j \in 1 .. Len(a) /\ w[p] = a[j] /\ z[p] = b[j]
          BY <3>4, <3>6, <3>7, <4>2
        <5>2. m \in 1 .. m
          BY <3>2
        <5> HIDE DEF j
        <5> QED
          BY <5>1, <5>2
      <4> QED
        BY <4>1, <4>2
    <3>9. ASSUME NEW i \in 1 .. m, NEW j \in 1 .. Len(ss[i])
          PROVE  \E p \in 1 .. Len(w) : w[p] = ss[i][j]
      <4>1. CASE i = m
        <5> DEFINE p == Len(u) + j
        <5>1. p \in 1 .. Len(w) /\ ~ (p =< Len(u)) /\ p - Len(u) = j
          BY <3>4, <3>6, <4>1
        <5> QED
          BY <3>6, <4>1, <5>1
      <4>2. CASE i # m
        <5>1. i \in 1 .. m - 1
          BY <3>2, <4>2
        <5>2. PICK p \in 1 .. Len(u) : u[p] = ss[i][j]
          BY <3>4, <5>1 DEF Abreast
        <5>3. p \in 1 .. Len(w) /\ p =< Len(u)
          BY <3>4, <3>6
        <5> QED
          BY <3>6, <5>2, <5>3
      <4> QED
        BY <4>1, <4>2
    <3>10. Abreast(w, z, ss, ts, m)
      BY <3>6, <3>7, <3>8, <3>9 DEF Abreast
    <3> QED
      BY <3>1, <3>10
  <2> DEFINE Bad == {i \in 1 .. n : ~ Abreast(F[i], G[i], ss, ts, i)}
  <2>9. Bad = {}
    <3> SUFFICES ASSUME Bad # {} PROVE FALSE
      OBVIOUS
    <3>1. PICK m \in Bad : \A j \in Bad : m =< j
      <4>1. Bad \in SUBSET Nat
        OBVIOUS
      <4> HIDE DEF Bad
      <4> QED
        BY <4>1, LeastExists
    <3>2. m \in 1 .. n /\ ~ Abreast(F[m], G[m], ss, ts, m)
      BY <3>1
    <3>3. m # 1
      BY <2>7, <3>2
    <3>4. m \in 2 .. n /\ m - 1 \in 1 .. n /\ m - 1 \notin Bad
      BY <1>1, <3>1, <3>2, <3>3
    <3>5. Abreast(F[m - 1], G[m - 1], ss, ts, m - 1)
      BY <3>4
    <3> HIDE DEF Bad
    <3> QED
      BY <2>8, <3>2, <3>4, <3>5
  <2>10. n \in 1 .. n
    BY <1>1, <1>3
  <2> QED
    BY <2>5, <2>6, <2>9, <2>10
<1> QED
  BY <1>2, <1>3

\* Every element of a piece is in the flattened sequence.
LEMMA FlattenHolds ==
  ASSUME NEW ss, Listed(ss), \A i \in 1 .. Len(ss) : Listed(ss[i]),
         NEW i \in 1 .. Len(ss), NEW j \in 1 .. Len(ss[i])
  PROVE  Listed(FlattenSeq(ss)) /\ ss[i][j] \in Range(FlattenSeq(ss))
<1>1. Abreast(FlattenSeq(ss), FlattenSeq(ss), ss, ss, Len(ss))
  BY FlattenAbreast
<1> DEFINE f == FlattenSeq(ss)
<1> HIDE DEF f
<1>2. Listed(f) /\ \E p \in 1 .. Len(f) : f[p] = ss[i][j]
  BY <1>1 DEF Abreast, f
<1>3. DOMAIN f = 1 .. Len(f)
  BY <1>2, ListedLen
<1>4. ss[i][j] \in Range(f)
  BY <1>2, <1>3 DEF Range
<1> QED
  BY <1>2, <1>4 DEF f

-----------------------------------------------------------------------------
(* The cascade: ten passes at most                                          *)

\* The runs of the cascade up to the n-th.
RunsUpTo(f, t, s, n) ==
  f = [k \in 0 .. n |->
         IF k = 0 THEN [stream |-> s, asked |-> FALSE] ELSE PassOver(t, f[k - 1])]

LEMMA RunsExist ==
  ASSUME NEW t, NEW s, NEW n \in Nat
  PROVE  \E f : RunsUpTo(f, t, s, n)
<1> DEFINE Bad == {m \in Nat : ~ \E f : RunsUpTo(f, t, s, m)}
<1> SUFFICES ASSUME Bad # {} PROVE FALSE
  OBVIOUS
<1>1. PICK m \in Bad : \A j \in Bad : m =< j
  <2>1. Bad \in SUBSET Nat
    OBVIOUS
  <2> HIDE DEF Bad
  <2> QED
    BY <2>1, LeastExists
<1>2. m \in Nat /\ ~ \E f : RunsUpTo(f, t, s, m)
  OBVIOUS
<1> DEFINE start == [stream |-> s, asked |-> FALSE]
<1>3. CASE m = 0
  <2> DEFINE f == [k \in 0 .. 0 |-> start]
  <2>1. f = [k \in 0 .. 0 |-> IF k = 0 THEN start ELSE PassOver(t, f[k - 1])]
    OBVIOUS
  <2>2. RunsUpTo(f, t, s, 0)
    BY <2>1 DEF RunsUpTo
  <2> QED
    BY <1>2, <1>3, <2>2
<1>4. CASE m # 0
  <2>1. m - 1 \in Nat /\ ~ (m =< m - 1)
    BY <1>2, <1>4
  <2>2. m - 1 \notin Bad
    <3> HIDE DEF Bad
    <3> QED
      BY <1>1, <2>1
  <2>3. PICK f : RunsUpTo(f, t, s, m - 1)
    BY <2>1, <2>2
  <2> DEFINE last == PassOver(t, f[m - 1])
             g == [k \in 0 .. m |-> IF k = m THEN last ELSE f[k]]
             J == [k \in 0 .. m - 1 |-> IF k = 0 THEN start ELSE PassOver(t, f[k - 1])]
  <2>4. f = J
    BY <2>3 DEF RunsUpTo
  <2>5. \A k \in 0 .. m - 1 : J[k] = IF k = 0 THEN start ELSE PassOver(t, f[k - 1])
    OBVIOUS
  <2> HIDE DEF J
  <2>6. \A k \in 0 .. m - 1 : f[k] = IF k = 0 THEN start ELSE PassOver(t, f[k - 1])
    BY <2>4, <2>5
  <2> HIDE DEF last
  <2>7. g[m] = last /\ \A k \in 0 .. m - 1 : g[k] = f[k]
    BY <1>2, <2>1
  <2>8. g = [k \in 0 .. m |-> g[k]]
    OBVIOUS
  <2> HIDE DEF g, start
  <2>9. ASSUME NEW k \in 0 .. m
        PROVE  g[k] = IF k = 0 THEN start ELSE PassOver(t, g[k - 1])
    <3>1. CASE k = m
      <4>1. k # 0 /\ g[k - 1] = f[m - 1]
        BY <1>4, <2>1, <2>7, <3>1
      <4> QED
        BY <2>7, <3>1, <4>1 DEF last
    <3>2. CASE k # m
      <4>1. k \in 0 .. m - 1 /\ (k # 0 => k - 1 \in 0 .. m - 1)
        BY <1>2, <3>2
      <4> QED
        BY <2>6, <2>7, <4>1
    <3> QED
      BY <3>1, <3>2
  <2>10. g = [k \in 0 .. m |-> IF k = 0 THEN start ELSE PassOver(t, g[k - 1])]
    BY <2>8, <2>9
  <2>11. RunsUpTo(g, t, s, m)
    BY <2>10 DEF RunsUpTo, start
  <2> QED
    BY <1>2, <2>11
<1> QED
  BY <1>3, <1>4

\* The cascade is its runs.
IsCascade(f, t, s) ==
  /\ Cascade(t, s) = f[10] /\ f[0] = [stream |-> s, asked |-> FALSE]
  /\ \A k \in 0 .. 9 : f[k + 1] = PassOver(t, f[k])

LEMMA CascadeRuns ==
  ASSUME NEW t, NEW s
  PROVE  \E f : IsCascade(f, t, s)
<1> DEFINE F == CHOOSE f : f = [k \in 0 .. 10 |->
                  IF k = 0 THEN [stream |-> s, asked |-> FALSE] ELSE PassOver(t, f[k - 1])]
           start == [stream |-> s, asked |-> FALSE]
<1>1. \A x : (CHOOSE over \in {PassOver(t, r) : r \in {x}} : TRUE) = PassOver(t, x)
  <2> TAKE x
  <2> DEFINE S == {PassOver(t, r) : r \in {x}}
  <2>1. S = {PassOver(t, x)}
    OBVIOUS
  <2> HIDE DEF S
  <2>2. (CHOOSE over \in S : TRUE) = PassOver(t, x)
    BY <2>1
  <2> QED
    BY <2>2 DEF S
<1>2. Cascade(t, s) = F[10]
  BY <1>1 DEF Cascade, MaxDecomposeDepth
<1>3. RunsUpTo(F, t, s, 10)
  <2>1. PICK f : RunsUpTo(f, t, s, 10)
    BY RunsExist
  <2> QED
    BY <2>1 DEF RunsUpTo
<1> HIDE DEF F
<1> DEFINE J == [k \in 0 .. 10 |-> IF k = 0 THEN start ELSE PassOver(t, F[k - 1])]
<1>4. F = J
  BY <1>3 DEF RunsUpTo
<1>5. J[0] = start /\ \A k \in 0 .. 9 : J[k + 1] = PassOver(t, F[k])
  OBVIOUS
<1> HIDE DEF J
<1>6. F[0] = start /\ \A k \in 0 .. 9 : F[k + 1] = PassOver(t, F[k])
  BY <1>4, <1>5
<1>7. IsCascade(F, t, s)
  BY <1>2, <1>6 DEF IsCascade
<1> QED
  BY <1>7

LEMMA TenSteps ==
  ASSUME NEW P, 0 \in P, \A k \in 0 .. 9 : k \in P => k + 1 \in P
  PROVE  10 \in P
<1>1. 1 \in P /\ 2 \in P /\ 3 \in P /\ 4 \in P /\ 5 \in P
  OBVIOUS
<1> QED
  BY <1>1

-----------------------------------------------------------------------------
(* What the rules write                                                     *)

\* A sequence with an element.
Some(q) == Listed(q) /\ q # <<>>

\* A gate without bits or condition; only a global phase has no qubits.
Plain(d) ==
  /\ d = Make(d.gate, d.qubits, d.params, <<>>, <<>>)
  /\ Listed(d.qubits) /\ (d.qubits = <<>> => d.gate = "GPhase")

\* A sequence of such gates.
Rule(s) == \E S : s \in Seq(S) /\ \A d \in S : Plain(d)

LEMMA SomeTuples ==
  /\ Listed(<<>>)
  /\ \A a : Some(<<a>>)
  /\ \A a, b : Some(<<a, b>>)
  /\ \A a, b, c : Some(<<a, b, c>>)
<1>1. <<>> \in Seq({})
  OBVIOUS
<1>2. ASSUME NEW a PROVE Some(<<a>>)
  <2>1. <<a>> \in Seq({a}) /\ <<a>> # <<>>
    OBVIOUS
  <2> QED
    BY <2>1 DEF Some, Listed
<1>3. ASSUME NEW a, NEW b PROVE Some(<<a, b>>)
  <2>1. <<a, b>> \in Seq({a, b}) /\ <<a, b>> # <<>>
    OBVIOUS
  <2> QED
    BY <2>1 DEF Some, Listed
<1>4. ASSUME NEW a, NEW b, NEW c PROVE Some(<<a, b, c>>)
  <2>1. <<a, b, c>> \in Seq({a, b, c}) /\ <<a, b, c>> # <<>>
    OBVIOUS
  <2> QED
    BY <2>1 DEF Some, Listed
<1> QED
  BY <1>1, <1>2, <1>3, <1>4 DEF Listed

LEMMA MakePlain ==
  ASSUME NEW g, NEW q, NEW p, Listed(q), q = <<>> => g = "GPhase"
  PROVE  Plain(Make(g, q, p, <<>>, <<>>))
<1> DEFINE d == Make(g, q, p, <<>>, <<>>)
<1>1. d.gate = g /\ d.qubits = q /\ d.params = p
  BY DEF Make, CommandOf
<1> HIDE DEF d
<1>2. d = Make(d.gate, d.qubits, d.params, <<>>, <<>>)
  BY <1>1 DEF d
<1>3. Plain(d)
  BY <1>1, <1>2 DEF Plain
<1> QED
  BY <1>3 DEF d

LEMMA OnPlain ==
  ASSUME NEW g, NEW q, Some(q)
  PROVE  Plain(On(g, q))
BY MakePlain DEF On, Some

LEMMA ByPlain ==
  ASSUME NEW g, NEW q, NEW p, Some(q)
  PROVE  Plain(By(g, q, p))
BY MakePlain DEF By, Some

LEMMA PhasePlain ==
  ASSUME NEW p
  PROVE  Plain(Phase(p))
BY MakePlain, SomeTuples DEF Phase, By

LEMMA RuleOver ==
  ASSUME NEW S, NEW s \in Seq(S), \A d \in S : Plain(d)
  PROVE  Rule(s)
BY DEF Rule

LEMMA EmptyRule == Rule(<<>>)
<1> DEFINE S == {}
           s == <<>>
<1>1. s \in Seq(S) /\ \A d \in S : Plain(d)
  OBVIOUS
<1> HIDE DEF S, s
<1>2. Rule(s)
  BY <1>1, RuleOver
<1> QED
  BY <1>2 DEF s

LEMMA OneRule ==
  ASSUME NEW a, Plain(a)
  PROVE  Rule(<<a>>)
<1> DEFINE S == {a}
           s == <<a>>
<1>1. s \in Seq(S) /\ \A d \in S : Plain(d)
  OBVIOUS
<1> HIDE DEF S, s
<1>2. Rule(s)
  BY <1>1, RuleOver
<1> QED
  BY <1>2 DEF s

LEMMA TwoRule ==
  ASSUME NEW a, NEW b, Plain(a), Plain(b)
  PROVE  Rule(<<a, b>>)
<1> DEFINE S == {a, b}
           s == <<a, b>>
<1>1. s \in Seq(S) /\ \A d \in S : Plain(d)
  OBVIOUS
<1> HIDE DEF S, s
<1>2. Rule(s)
  BY <1>1, RuleOver
<1> QED
  BY <1>2 DEF s

LEMMA ThreeRule ==
  ASSUME NEW a, NEW b, NEW c, Plain(a), Plain(b), Plain(c)
  PROVE  Rule(<<a, b, c>>)
<1> DEFINE S == {a, b, c}
           s == <<a, b, c>>
<1>1. s \in Seq(S) /\ \A d \in S : Plain(d)
  OBVIOUS
<1> HIDE DEF S, s
<1>2. Rule(s)
  BY <1>1, RuleOver
<1> QED
  BY <1>2 DEF s

LEMMA FourRule ==
  ASSUME NEW a, NEW b, NEW c, NEW d, Plain(a), Plain(b), Plain(c), Plain(d)
  PROVE  Rule(<<a, b, c, d>>)
<1> DEFINE S == {a, b, c, d}
           s == <<a, b, c, d>>
<1>1. s \in Seq(S) /\ \A x \in S : Plain(x)
  OBVIOUS
<1> HIDE DEF S, s
<1>2. Rule(s)
  BY <1>1, RuleOver
<1> QED
  BY <1>2 DEF s

LEMMA ListRule ==
  ASSUME NEW n \in Nat, NEW s, s = [k \in 1 .. n |-> s[k]], \A k \in 1 .. n : Plain(s[k])
  PROVE  Rule(s)
<1> DEFINE S == {s[k] : k \in 1 .. n}
<1>1. s \in Seq(S)
  <2>1. s \in [1 .. n -> S]
    OBVIOUS
  <2> HIDE DEF S
  <2> QED
    BY <2>1
<1>2. \A d \in S : Plain(d)
  OBVIOUS
<1> HIDE DEF S
<1> QED
  BY <1>1, <1>2 DEF Rule

LEMMA JoinRule ==
  ASSUME NEW a, NEW b, Rule(a), Rule(b)
  PROVE  Rule(a \o b)
<1>1. PICK S : a \in Seq(S) /\ \A d \in S : Plain(d)
  BY DEF Rule
<1>2. PICK T : b \in Seq(T) /\ \A d \in T : Plain(d)
  BY DEF Rule
<1>3. a \in Seq(S \cup T) /\ b \in Seq(S \cup T)
  BY <1>1, <1>2
<1>4. a \o b \in Seq(S \cup T) /\ \A d \in S \cup T : Plain(d)
  BY <1>1, <1>2, <1>3
<1> QED
  BY <1>4 DEF Rule

LEMMA ConjugatedRule ==
  ASSUME NEW a, NEW b, Rule(a), Rule(b)
  PROVE  Rule(Conjugated(a, b))
BY JoinRule DEF Conjugated

LEMMA ReverseRule ==
  ASSUME NEW s, Rule(s)
  PROVE  Rule(Reverse(s))
<1>1. PICK S : s \in Seq(S) /\ \A d \in S : Plain(d)
  BY DEF Rule
<1>2. Reverse(s) \in [1 .. Len(s) -> S]
  BY <1>1 DEF Reverse
<1>3. Reverse(s) \in Seq(S)
  BY <1>1, <1>2
<1> QED
  BY <1>1, <1>3 DEF Rule

LEMMA FlattenRule ==
  ASSUME NEW n \in Nat, NEW ss, ss = [k \in 1 .. n |-> ss[k]], \A k \in 1 .. n : Rule(ss[k])
  PROVE  Rule(FlattenSeq(ss))
<1>1. DOMAIN ss = 1 .. n
  OBVIOUS
<1>2. Listed(ss)
  <2> DEFINE T == {ss[k] : k \in 1 .. n}
  <2>1. ss \in [1 .. n -> T]
    OBVIOUS
  <2> HIDE DEF T
  <2>2. ss \in Seq(T)
    BY <2>1
  <2> QED
    BY <2>2 DEF Listed
<1>3. \A k \in 1 .. n : Listed(ss[k])
  BY DEF Listed, Rule
<1>4. \A k \in 1 .. n : \A j \in DOMAIN ss[k] : Plain(ss[k][j])
  BY DEF Rule
<1>5. PICK S : /\ FlattenSeq(ss) \in Seq(S)
               /\ \A x \in S : \E i \in DOMAIN ss : \E j \in DOMAIN ss[i] : x = ss[i][j]
  BY <1>1, <1>2, <1>3, FlattenPieces
<1>6. \A x \in S : Plain(x)
  BY <1>1, <1>4, <1>5
<1> QED
  BY <1>5, <1>6 DEF Rule

LEMMA OneOn ==
  ASSUME NEW g, NEW q, Some(q)
  PROVE  Rule(<<On(g, q)>>)
BY OnPlain, OneRule

LEMMA OneBy ==
  ASSUME NEW g, NEW q, NEW p, Some(q)
  PROVE  Rule(<<By(g, q, p)>>)
BY ByPlain, OneRule

LEMMA ChainRule ==
  ASSUME NEW c, NEW t, NEW anc, Len(c) \in Nat, Len(c) > 2
  PROVE  Rule(McxChain(c, t, anc))
<1> DEFINE m == Len(c)
           down == [k \in 1 .. m - 3 |-> On("CCX", <<c[m - k], anc[m - 2 - k], anc[m - 1 - k]>>)]
           first == <<On("CCX", <<c[m], anc[m - 2], t>>)>>
           last == <<On("CCX", <<c[1], c[2], anc[1]>>)>>
<1>1. Rule(down)
  <2>1. m - 3 \in Nat
    OBVIOUS
  <2>2. down = [k \in 1 .. m - 3 |-> down[k]]
    OBVIOUS
  <2>3. \A k \in 1 .. m - 3 : Plain(down[k])
    BY SomeTuples, OnPlain
  <2> HIDE DEF down
  <2> QED
    BY <2>1, <2>2, <2>3, ListRule
<1>2. Rule(first) /\ Rule(last)
  BY SomeTuples, OneOn
<1> DEFINE back == Reverse(down)
<1>3. Rule(back)
  <2> HIDE DEF down
  <2> QED
    BY <1>1, ReverseRule
<1>4. McxChain(c, t, anc) = Twice(first \o down \o last \o back)
  BY DEF McxChain
<1> HIDE DEF first, last, down, back
<1>5. Rule(first \o down \o last \o back)
  BY <1>1, <1>2, <1>3, JoinRule
<1> QED
  BY <1>4, <1>5, JoinRule DEF Twice

LEMMA LadderRule ==
  ASSUME NEW c, NEW t, NEW free, Len(c) \in Nat
  PROVE  Rule(Ladder(c, t, free))
<1>1. CASE Len(c) = 0
  BY <1>1, SomeTuples, OneOn DEF Ladder
<1>2. CASE Len(c) = 1
  BY <1>2, SomeTuples, OneOn DEF Ladder
<1>3. CASE Len(c) = 2
  BY <1>3, SomeTuples, OneOn DEF Ladder
<1>4. CASE Len(c) > 2
  BY <1>4, ChainRule DEF Ladder
<1> QED
  BY <1>1, <1>2, <1>3, <1>4

LEMMA McxRule ==
  ASSUME NEW c, NEW t, NEW free, Listed(c)
  PROVE  Rule(Mcx(c, t, free))
<1> DEFINE m == Len(c)
           k == (m + 1) \div 2
           lo == SubSeq(c, 1, k)
           hi == SubSeq(c, k + 1, m)
           A == Ladder(lo, free[1], Tail(free) \o hi \o <<t>>)
           B == Ladder(Append(hi, free[1]), t, Tail(free) \o lo)
<1>1. PICK T : c \in Seq(T)
  BY DEF Listed
<1>2. m \in Nat
  BY <1>1
<1>3. CASE m =< 2 \/ Len(free) >= m - 2
  <2>1. Mcx(c, t, free) = Ladder(c, t, free)
    BY <1>3 DEF Mcx
  <2> QED
    BY <1>2, <2>1, LadderRule
<1>4. CASE ~ (m =< 2 \/ Len(free) >= m - 2)
  <2>1. Mcx(c, t, free) = Twice(A \o B)
    BY <1>4 DEF Mcx
  <2>2. k \in Nat /\ k =< m
    BY <1>2, <1>4
  <2> HIDE DEF k
  <2>3. Len(lo) \in Nat /\ hi \in Seq(T)
    BY <1>1, <1>2, <2>2
  <2>4. Len(Append(hi, free[1])) \in Nat
    <3>1. Append(hi, free[1]) \in Seq(T \cup {free[1]})
      BY <2>3
    <3> QED
      BY <3>1
  <2>5. Rule(A) /\ Rule(B)
    BY <2>3, <2>4, LadderRule
  <2> HIDE DEF A, B
  <2> QED
    BY <2>1, <2>5, JoinRule DEF Twice
<1> QED
  BY <1>3, <1>4

LEMMA PeeledRule ==
  ASSUME NEW c, NEW t, NEW v, NEW j \in 1 .. Len(c), Listed(c)
  PROVE  Rule(Peeled(c, t, v, j))
<1> DEFINE half == Half(Eighths(v \div 2 ^ (Len(c) - j)))
           rest == SubSeq(c, 1, j - 1)
           ladder == Mcx(rest, c[j], Append(Reverse(SubSeq(c, j + 1, Len(c))), t))
           there == <<By("CP", <<c[j], t>>, half)>>
           back == <<By("CP", <<c[j], t>>, NegParam(half))>>
<1>1. Peeled(c, t, v, j) = there \o ladder \o back \o ladder
  BY DEF Peeled, Kicked
<1>2. Listed(rest)
  <2>1. PICK T : c \in Seq(T)
    BY DEF Listed
  <2>2. rest \in Seq(T)
    BY <2>1
  <2> HIDE DEF rest
  <2> QED
    BY <2>2 DEF Listed
<1>3. Rule(ladder)
  BY <1>2, McxRule
<1>4. Rule(there) /\ Rule(back)
  BY SomeTuples, OneBy
<1> HIDE DEF there, back, ladder
<1> QED
  BY <1>1, <1>3, <1>4, JoinRule

LEMMA McPhaseRule ==
  ASSUME NEW c, NEW t, NEW v, Listed(c), c # <<>>
  PROVE  Rule(McPhase(c, t, v))
<1> DEFINE n == Len(c) - 1
           ss == [i \in 1 .. n |-> Peeled(c, t, v, Len(c) + 1 - i)]
           last == <<By("CP", <<c[1], t>>, Eighths(v \div 2 ^ (Len(c) - 1)))>>
<1>1. PICK T : c \in Seq(T)
  BY DEF Listed
<1>2. n \in Nat /\ \A i \in 1 .. n : Len(c) + 1 - i \in 1 .. Len(c)
  BY <1>1
<1>3. ss = [i \in 1 .. n |-> ss[i]] /\ \A i \in 1 .. n : Rule(ss[i])
  BY <1>2, PeeledRule
<1>4. Rule(last)
  BY SomeTuples, OneBy
<1>5. McPhase(c, t, v) = FlattenSeq(ss) \o last
  BY DEF McPhase
<1> HIDE DEF n, ss, last
<1>6. Rule(FlattenSeq(ss))
  BY <1>2, <1>3, FlattenRule
<1> QED
  BY <1>4, <1>5, <1>6, JoinRule

LEMMA MczPlain ==
  ASSUME NEW q, Some(q)
  PROVE  Rule(MczRule(q))
<1> DEFINE c == Front(q)
           t == Last(q)
<1>1. PICK T : q \in Seq(T) /\ q # <<>>
  BY DEF Some, Listed
<1>2. Len(q) \in Nat /\ Len(q) # 0
  BY <1>1
<1>3. CASE Len(q) = 1 \/ Len(q) = 2
  <2>1. CASE Len(q) = 1
    BY <2>1, OneOn DEF MczRule
  <2>2. CASE Len(q) = 2
    BY <2>2, OneOn DEF MczRule
  <2> QED
    BY <1>3, <2>1, <2>2
<1>4. CASE Len(q) = 3
  <2>1. Rule(<<On("H", <<t>>)>>) /\ Rule(<<On("CCX", q)>>)
    BY SomeTuples, OneOn
  <2> QED
    BY <1>4, <2>1, ConjugatedRule DEF MczRule
<1>5. CASE Len(q) > 3
  <2>1. MczRule(q) = McPhase(c, t, 16)
    BY <1>2, <1>5 DEF MczRule
  <2>2. c \in Seq(T) /\ c # <<>>
    <3>1. c \in Seq(T) /\ Len(c) = Len(q) - 1
      BY <1>1, <1>5 DEF Front
    <3> HIDE DEF c
    <3> QED
      BY <1>5, <3>1
  <2>3. Listed(c)
    BY <2>2 DEF Listed
  <2> HIDE DEF c
  <2> QED
    BY <2>1, <2>2, <2>3, McPhaseRule
<1>6. Len(q) = 1 \/ Len(q) = 2 \/ Len(q) = 3 \/ Len(q) > 3
  <2> DEFINE n == Len(q)
  <2>1. n \in Nat /\ n # 0
    BY <1>2
  <2> HIDE DEF n
  <2>2. n = 1 \/ n = 2 \/ n = 3 \/ n > 3
    BY <2>1
  <2> QED
    BY <2>2 DEF n
<1> QED
  BY <1>3, <1>4, <1>5, <1>6

LEMMA OneQubitPlain ==
  ASSUME NEW g \in OneQubitRules, NEW q, NEW p, NEW factors, Some(q), Rule(factors)
  PROVE  Rule(OneQubitRule(g, q, p, factors))
<1> USE ByPlain, PhasePlain
<1>1. CASE g = "U"
  BY <1>1, FourRule DEF OneQubitRule
<1>2. CASE g = "P"
  BY <1>2, TwoRule DEF OneQubitRule
<1>3. CASE g = "Sdg"
  BY <1>3, OneRule DEF OneQubitRule
<1>4. CASE g = "Tdg"
  BY <1>4, OneRule DEF OneQubitRule
<1>5. CASE g = "SX"
  BY <1>5, TwoRule DEF OneQubitRule
<1>6. CASE g = "SXdg"
  BY <1>6, TwoRule DEF OneQubitRule
<1>7. CASE g = "Custom"
  BY <1>7 DEF OneQubitRule
<1> QED
  BY <1>1, <1>2, <1>3, <1>4, <1>5, <1>6, <1>7 DEF OneQubitRules

LEMMA SandwichRule ==
  ASSUME NEW g, NEW c, NEW t, NEW p
  PROVE  Rule(Sandwich(g, c, t, p))
BY ByPlain, OnPlain, SomeTuples, FourRule DEF Sandwich

LEMMA CUPlain ==
  ASSUME NEW c, NEW t, NEW p
  PROVE  Rule(CURule(c, t, p))
<1> DEFINE half == Half(SumParam(p[2], p[3]))
           zero == Eighths(0)
           U(v) == Make("U", <<t>>, v, <<>>, <<>>)
           a == By("P", <<c>>, p[4])
           b == By("P", <<c>>, half)
           d == By("P", <<t>>, Half(SumParam(p[3], NegParam(p[2]))))
           e == On("CX", <<c, t>>)
           f == U(<<NegParam(Half(p[1])), zero, NegParam(half)>>)
           h == U(<<Half(p[1]), p[2], zero>>)
<1>1. CURule(c, t, p) = <<a, b, d, e, f, e, h>>
  BY DEF CURule
<1>2. Plain(a) /\ Plain(b) /\ Plain(d) /\ Plain(e)
  BY SomeTuples, ByPlain, OnPlain
<1>3. Plain(f) /\ Plain(h)
  BY SomeTuples, MakePlain DEF Some
<1> HIDE DEF a, b, d, e, f, h
<1> DEFINE S == {a, b, d, e, f, h}
           s == <<a, b, d, e, f, e, h>>
<1>4. s \in Seq(S) /\ \A x \in S : Plain(x)
  BY <1>2, <1>3
<1> HIDE DEF S
<1>5. Rule(s)
  BY <1>4, RuleOver
<1> QED
  BY <1>1, <1>5

LEMMA ControlledRotationPlain ==
  ASSUME NEW g \in ControlledRotationRules, NEW c, NEW t, NEW p
  PROVE  Rule(ControlledRotationRule(g, c, t, p))
<1>1. /\ Rule(<<On("H", <<t>>)>>)
      /\ \A v : Rule(<<Phase(v)>>) /\ Rule(<<By("Rz", <<c>>, v)>>) /\ Rule(<<By("CP", <<c, t>>, v)>>)
                /\ Plain(By("P", <<c>>, v)) /\ Plain(By("CRx", <<c, t>>, v))
  BY SomeTuples, OneOn, OneBy, PhasePlain, OneRule, ByPlain
<1>2. \A h, v : Rule(Sandwich(h, c, t, v))
  BY SandwichRule
<1>3. CASE g = "CRx"
  BY <1>1, <1>2, <1>3, ConjugatedRule DEF ControlledRotationRule
<1>4. CASE g = "CRy"
  BY <1>2, <1>4 DEF ControlledRotationRule
<1>5. CASE g = "CRz"
  BY <1>2, <1>5 DEF ControlledRotationRule
<1>6. CASE g = "CP"
  <2> DEFINE x == <<Phase(Quarter(p[1]))>>
             y == Sandwich("Rz", c, t, p[1])
             z == <<By("Rz", <<c>>, Half(p[1]))>>
  <2>1. ControlledRotationRule(g, c, t, p) = x \o y \o z
    BY <1>6 DEF ControlledRotationRule
  <2>2. Rule(x) /\ Rule(y) /\ Rule(z)
    BY <1>1, <1>2
  <2> HIDE DEF x, y, z
  <2> QED
    BY <2>1, <2>2, JoinRule
<1>7. CASE g = "CS"
  BY <1>1, <1>7 DEF ControlledRotationRule
<1>8. CASE g = "CSdg"
  BY <1>1, <1>8 DEF ControlledRotationRule
<1>9. CASE g = "CSX"
  BY <1>1, <1>9, TwoRule DEF ControlledRotationRule
<1>10. CASE g = "CSXdg"
  BY <1>1, <1>10, TwoRule DEF ControlledRotationRule
<1>11. CASE g = "CU"
  BY <1>11, CUPlain DEF ControlledRotationRule
<1> QED
  BY <1>3, <1>4, <1>5, <1>6, <1>7, <1>8, <1>9, <1>10, <1>11 DEF ControlledRotationRules

LEMMA ToffoliPlain ==
  ASSUME NEW q
  PROVE  Rule(ControlledRule("CCX", q))
<1> DEFINE c == q[1]
           b == q[2]
           t == q[Len(q)]
           h == On("H", <<t>>)
           bt == On("CX", <<b, t>>)
           ct == On("CX", <<c, t>>)
           cb == On("CX", <<c, b>>)
           Tt == On("T", <<t>>)
           Tb == On("T", <<b>>)
           Tc == On("T", <<c>>)
           tdg == On("Tdg", <<t>>)
           bdg == On("Tdg", <<b>>)
           s == <<h, bt, tdg, ct, Tt, bt, tdg, ct, Tb, Tt, h, cb, Tc, bdg, cb>>
           S == {h, bt, ct, cb, Tt, Tb, Tc, tdg, bdg}
<1>1. \A x \in S : Plain(x)
  BY SomeTuples, OnPlain
<1>2. ControlledRule("CCX", q) = s
  BY DEF ControlledRule
<1> HIDE DEF h, bt, ct, cb, Tt, Tb, Tc, tdg, bdg
<1>3. s \in Seq(S)
  <2>1. {h, bt, tdg, ct, Tt, Tb, cb, Tc, bdg} = S
    OBVIOUS
  <2>2. <<h, bt, tdg, ct, Tt, bt, tdg, ct>> \in Seq(S) /\ <<Tb, Tt, h, cb, Tc, bdg, cb>> \in Seq(S)
    OBVIOUS
  <2>3. s = <<h, bt, tdg, ct, Tt, bt, tdg, ct>> \o <<Tb, Tt, h, cb, Tc, bdg, cb>>
    OBVIOUS
  <2> HIDE DEF S
  <2> QED
    BY <2>2, <2>3
<1> HIDE DEF S
<1> QED
  BY <1>1, <1>2, <1>3, RuleOver

LEMMA ControlledPlain ==
  ASSUME NEW g \in ControlledRules, NEW q
  PROVE  Rule(ControlledRule(g, q))
<1> DEFINE c == q[1]
           b == q[2]
           t == q[Len(q)]
<1> USE SomeTuples, OnPlain, ByPlain
<1>1. CASE g = "CY"
  BY <1>1, ThreeRule DEF ControlledRule
<1>2. CASE g = "CZ"
  <2>1. Rule(<<On("H", <<t>>)>>) /\ Rule(<<On("CX", <<c, t>>)>>)
    BY OneRule
  <2> QED
    BY <1>2, <2>1, ConjugatedRule DEF ControlledRule
<1>3. CASE g = "CH"
  BY <1>3, ThreeRule DEF ControlledRule
<1>4. CASE g = "CSWAP"
  <2>1. Rule(<<On("CX", <<t, b>>)>>) /\ Rule(<<On("CCX", <<c, b, t>>)>>)
    BY OneRule
  <2> QED
    BY <1>4, <2>1, ConjugatedRule DEF ControlledRule
<1>5. CASE g = "CCX"
  BY <1>5, ToffoliPlain
<1> QED
  BY <1>1, <1>2, <1>3, <1>4, <1>5 DEF ControlledRules

LEMMA PairPlain ==
  ASSUME NEW g \in PairRules, NEW q, NEW p, Some(q)
  PROVE  Rule(PairRule(g, q, p))
<1> DEFINE there == On("CX", q)
           back == On("CX", <<q[2], q[1]>>)
           RotateX(v) == <<By("Rx", <<q[1]>>, v), By("Rx", <<q[2]>>, v)>>
           RZX(v) == Conjugated(<<there>>, <<By("Rz", <<q[2]>>, v)>>)
<1>1. Plain(there) /\ Plain(back)
  BY SomeTuples, OnPlain
<1>2. ASSUME NEW v PROVE Rule(RotateX(v))
  BY SomeTuples, ByPlain, TwoRule
<1>3. ASSUME NEW v PROVE Rule(RZX(v))
  <2>1. Rule(<<there>>) /\ Rule(<<By("Rz", <<q[2]>>, v)>>)
    BY <1>1, OneRule, OneBy, SomeTuples
  <2> HIDE DEF there
  <2> QED
    BY <2>1, ConjugatedRule
<1>4. ASSUME NEW h, NEW r PROVE Rule(OnBoth(h, r))
  BY SomeTuples, OnPlain, TwoRule DEF OnBoth
<1>5. ASSUME NEW v PROVE Rule(<<By("RZZ", q, v)>>)
  BY OneBy
<1>6. /\ Plain(On("H", <<q[1]>>)) /\ Plain(On("H", <<q[2]>>)) /\ Rule(<<On("X", <<q[1]>>)>>)
      /\ Rule(<<On("H", <<q[2]>>)>>)
  BY SomeTuples, OnPlain, OneOn
<1>7. CASE g = "SWAP"
  <2>1. PairRule(g, q, p) = <<there, back, there>>
    BY <1>7 DEF PairRule
  <2> HIDE DEF there, back
  <2> QED
    BY <1>1, <2>1, ThreeRule
<1>8. CASE g = "iSWAP"
  <2> DEFINE h1 == On("H", <<q[1]>>)
             h2 == On("H", <<q[2]>>)
  <2>1. PairRule(g, q, p) = OnBoth("S", q) \o <<h1, there, back, h2>>
    BY <1>8 DEF PairRule
  <2>2. Rule(<<h1, there, back, h2>>)
    <3>1. Plain(h1) /\ Plain(h2)
      BY <1>6
    <3> HIDE DEF there, back, h1, h2
    <3> QED
      BY <1>1, <3>1, FourRule
  <2> HIDE DEF there, back, h1, h2
  <2> QED
    BY <1>4, <2>1, <2>2, JoinRule
<1>9. CASE g = "iSWAPdg"
  <2> DEFINE h1 == On("H", <<q[1]>>)
             h2 == On("H", <<q[2]>>)
  <2>1. PairRule(g, q, p) = <<h2, back, there, h1>> \o OnBoth("Sdg", <<q[2], q[1]>>)
    BY <1>9 DEF PairRule
  <2>2. Rule(<<h2, back, there, h1>>)
    <3>1. Plain(h1) /\ Plain(h2)
      BY <1>6
    <3> HIDE DEF there, back, h1, h2
    <3> QED
      BY <1>1, <3>1, FourRule
  <2> HIDE DEF there, back, h1, h2
  <2> QED
    BY <1>4, <2>1, <2>2, JoinRule
<1>10. CASE g = "ECR"
  <2> DEFINE h == <<On("H", <<q[2]>>)>>
             x == <<On("X", <<q[1]>>)>>
             u == RZX(PI_4)
             v == RZX(NegParam(PI_4))
  <2>1. PairRule(g, q, p) = Conjugated(h, u \o x \o v)
    BY <1>10 DEF PairRule
  <2>2. Rule(h) /\ Rule(x) /\ Rule(u) /\ Rule(v)
    BY <1>3, <1>6
  <2> HIDE DEF h, x, u, v
  <2>3. Rule(u \o x \o v)
    BY <2>2, JoinRule
  <2> QED
    BY <2>1, <2>2, <2>3, ConjugatedRule
<1>11. CASE g = "RZZ"
  <2>1. PairRule(g, q, p) = RZX(p[1])
    BY <1>11 DEF PairRule
  <2> HIDE DEF RZX
  <2> QED
    BY <1>3, <2>1
<1>12. CASE g = "RXX"
  <2>1. PairRule(g, q, p) = Conjugated(OnBoth("H", q), <<By("RZZ", q, p[1])>>)
    BY <1>12 DEF PairRule
  <2> QED
    BY <1>4, <1>5, <2>1, ConjugatedRule
<1>13. CASE g = "RYY"
  <2> DEFINE u == RotateX(PI_2)
             z == <<By("RZZ", q, p[1])>>
             v == RotateX(NegParam(PI_2))
  <2>1. PairRule(g, q, p) = u \o z \o v
    BY <1>13 DEF PairRule
  <2>2. Rule(u) /\ Rule(z) /\ Rule(v)
    BY <1>2, <1>5
  <2> HIDE DEF u, z, v
  <2> QED
    BY <2>1, <2>2, JoinRule
<1> QED
  BY <1>7, <1>8, <1>9, <1>10, <1>11, <1>12, <1>13 DEF PairRules

LEMMA RzOnlyPlain ==
  ASSUME NEW g, NEW q, NEW p, Some(q)
  PROVE  Rule(RzOnlyRule(g, q, p))
<1> DEFINE turned == Conjugated(<<On("H", q)>>, <<By("Rz", q, p[1])>>)
<1>1. Rule(turned) /\ Rule(<<On("Sdg", q)>>) /\ Rule(<<On("S", q)>>)
  BY OneOn, OneBy, ConjugatedRule
<1>2. RzOnlyRule(g, q, p) = turned \/ RzOnlyRule(g, q, p) = <<On("Sdg", q)>> \o turned \o <<On("S", q)>>
  BY DEF RzOnlyRule
<1> HIDE DEF turned
<1> QED
  BY <1>1, <1>2, JoinRule

LEMMA PhaseKeptPlain ==
  ASSUME NEW g \in PhaseKeptRules, NEW q, NEW p, Some(q)
  PROVE  Rule(PhaseKeptRule(g, q, p))
<1> USE ByPlain, PhasePlain
<1>1. CASE g = "H"
  BY <1>1, ThreeRule DEF PhaseKeptRule
<1>2. CASE g = "S"
  BY <1>2, OneRule DEF PhaseKeptRule
<1>3. CASE g = "T"
  BY <1>3, OneRule DEF PhaseKeptRule
<1>4. CASE g = "U"
  BY <1>4, FourRule DEF PhaseKeptRule
<1> QED
  BY <1>1, <1>2, <1>3, <1>4 DEF PhaseKeptRules

-----------------------------------------------------------------------------
(* The shape of commands                                                    *)

\* A command as the factories and the rules make it.
Shaped(c) ==
  /\ c = CommandOf(c.gate, c.qubits, c.params, c.cbits, c.cond, c.factors, c.origin)
  /\ Listed(c.qubits) /\ Listed(c.cbits) /\ Listed(c.cond)
  /\ HasOperands(c) /\ Rule(c.factors)

ShapedStream(s) == Listed(s) /\ \A i \in DOMAIN s : Shaped(s[i])

\* The fields of a command that is put together.
LEMMA Fields ==
  ASSUME NEW g, NEW q, NEW p, NEW b, NEW k, NEW f, NEW o
  PROVE  /\ CommandOf(g, q, p, b, k, f, o).gate = g
         /\ CommandOf(g, q, p, b, k, f, o).qubits = q
         /\ CommandOf(g, q, p, b, k, f, o).params = p
         /\ CommandOf(g, q, p, b, k, f, o).cbits = b
         /\ CommandOf(g, q, p, b, k, f, o).cond = k
         /\ CommandOf(g, q, p, b, k, f, o).factors = f
         /\ CommandOf(g, q, p, b, k, f, o).origin = o
         /\ CommandOf(g, q, p, b, k, f, o).bits = Range(b) \cup {k[i][1] : i \in DOMAIN k}
BY DEF CommandOf

\* The bits of a command are those it writes and those of its condition.
LEMMA ShapedBits ==
  ASSUME NEW c, Shaped(c)
  PROVE  c.bits = Range(c.cbits) \cup {c.cond[i][1] : i \in DOMAIN c.cond}
BY Fields DEF Shaped

LEMMA PlainOf ==
  ASSUME NEW f, IsPlain(f)
  PROVE  Plain(f)
BY DEF IsPlain, Plain, Listed

LEMMA CommandShaped ==
  ASSUME NEW c, IsCommand(c)
  PROVE  Shaped(c)
<1>1. Listed(c.qubits) /\ Listed(c.cbits) /\ Listed(c.cond)
  BY DEF IsCommand, Listed
<1>2. Rule(c.factors)
  BY PlainOf, RuleOver DEF IsCommand
<1> QED
  BY <1>1, <1>2 DEF IsCommand, Shaped

LEMMA OfShaped ==
  ASSUME NEW g, NEW q, NEW p, NEW b, NEW k, NEW f, NEW o, Listed(q), Listed(b), Listed(k), Rule(f),
         q = <<>> => g \in Markers \cup {"GPhase", "Barrier"}
  PROVE  Shaped(CommandOf(g, q, p, b, k, f, o))
<1> DEFINE c == CommandOf(g, q, p, b, k, f, o)
<1>1. /\ c.gate = g /\ c.qubits = q /\ c.params = p /\ c.cbits = b /\ c.cond = k
      /\ c.factors = f /\ c.origin = o
  BY Fields
<1>2. c = CommandOf(c.gate, c.qubits, c.params, c.cbits, c.cond, c.factors, c.origin)
  <2> HIDE DEF c
  <2>1. CommandOf(c.gate, c.qubits, c.params, c.cbits, c.cond, c.factors, c.origin)
          = CommandOf(g, q, p, b, k, f, o)
    BY <1>1
  <2> QED
    BY <2>1 DEF c
<1> HIDE DEF c
<1>3. Shaped(c)
  BY <1>1, <1>2 DEF Shaped, HasOperands
<1> QED
  BY <1>3 DEF c

\* Replacing the origin, the operands, or the angles and the origin.
LEMMA ExceptForms ==
  ASSUME NEW c, Shaped(c), NEW o, NEW q
  PROVE  /\ [c EXCEPT !.origin = o]
              = CommandOf(c.gate, c.qubits, c.params, c.cbits, c.cond, c.factors, o)
         /\ [c EXCEPT !.qubits = q]
              = CommandOf(c.gate, q, c.params, c.cbits, c.cond, c.factors, c.origin)
<1> DEFINE g == c.gate
           k == c.qubits
           r == c.params
           b == c.cbits
           n == c.cond
           f == c.factors
           x == c.origin
<1>1. c = CommandOf(g, k, r, b, n, f, x)
  BY DEF Shaped
<1> HIDE DEF g, k, r, b, n, f, x
<1> DEFINE B == Range(b) \cup {n[i][1] : i \in DOMAIN n}
           R(v, w, z) == [gate |-> g, qubits |-> v, params |-> w, cbits |-> b, cond |-> n,
                          bits |-> B, factors |-> f, origin |-> z]
<1>2. /\ CommandOf(g, k, r, b, n, f, x) = R(k, r, x) /\ CommandOf(g, k, r, b, n, f, o) = R(k, r, o)
      /\ CommandOf(g, q, r, b, n, f, x) = R(q, r, x)
  BY DEF CommandOf
<1> HIDE DEF B
<1>3. [R(k, r, x) EXCEPT !.origin = o] = R(k, r, o)
  OBVIOUS
<1>4. [R(k, r, x) EXCEPT !.qubits = q] = R(q, r, x)
  OBVIOUS
<1> HIDE DEF R
<1> QED
  BY <1>1, <1>2, <1>3, <1>4 DEF g, k, r, b, n, f, x

LEMMA MergeForm ==
  ASSUME NEW c, Shaped(c), NEW o, NEW p
  PROVE  [c EXCEPT !.params = p, !.origin = o]
           = CommandOf(c.gate, c.qubits, p, c.cbits, c.cond, c.factors, o)
<1> DEFINE g == c.gate
           k == c.qubits
           r == c.params
           b == c.cbits
           n == c.cond
           f == c.factors
           x == c.origin
<1>1. c = CommandOf(g, k, r, b, n, f, x)
  BY DEF Shaped
<1> HIDE DEF g, k, r, b, n, f, x
<1> DEFINE B == Range(b) \cup {n[i][1] : i \in DOMAIN n}
           R(v, w, z) == [gate |-> g, qubits |-> v, params |-> w, cbits |-> b, cond |-> n,
                          bits |-> B, factors |-> f, origin |-> z]
<1>2. /\ CommandOf(g, k, r, b, n, f, x) = R(k, r, x)
      /\ CommandOf(g, k, p, b, n, f, o) = R(k, p, o)
  BY DEF CommandOf
<1> HIDE DEF B
<1>3. [R(k, r, x) EXCEPT !.params = p] = R(k, p, x) /\ [R(k, p, x) EXCEPT !.origin = o] = R(k, p, o)
  OBVIOUS
<1> HIDE DEF R
<1>4. [[R(k, r, x) EXCEPT !.params = p] EXCEPT !.origin = o] = R(k, p, o)
  BY <1>3
<1>5. [R(k, r, x) EXCEPT !.params = p, !.origin = o] = R(k, p, o)
  BY <1>4, Zenon
<1> QED
  BY <1>1, <1>2, <1>5 DEF g, k, r, b, n, f, x

LEMMA ShapedOrigin ==
  ASSUME NEW c, Shaped(c), NEW o, NEW d, d = [c EXCEPT !.origin = o]
  PROVE  /\ Shaped(d) /\ d.gate = c.gate /\ d.qubits = c.qubits /\ d.params = c.params
         /\ d.cbits = c.cbits /\ d.cond = c.cond /\ d.factors = c.factors /\ d.origin = o
<1>1. d = CommandOf(c.gate, c.qubits, c.params, c.cbits, c.cond, c.factors, o)
  BY ExceptForms
<1> QED
  BY <1>1, OfShaped, Fields DEF Shaped, HasOperands

LEMMA ShapedQubits ==
  ASSUME NEW c, Shaped(c), NEW q, Listed(q), q = <<>> => c.gate \in Markers \cup {"GPhase", "Barrier"},
         NEW d, d = [c EXCEPT !.qubits = q]
  PROVE  Shaped(d) /\ d.gate = c.gate /\ d.qubits = q
<1>1. d = CommandOf(c.gate, q, c.params, c.cbits, c.cond, c.factors, c.origin)
  BY ExceptForms
<1> QED
  BY <1>1, OfShaped, Fields DEF Shaped

LEMMA UnderFields ==
  ASSUME NEW c, NEW d
  PROVE  /\ UnderConditionOf(c, d).gate = d.gate
         /\ UnderConditionOf(c, d).qubits = d.qubits
BY Fields DEF UnderConditionOf

LEMMA UnderShaped ==
  ASSUME NEW c, Shaped(c), NEW d, Plain(d)
  PROVE  Shaped(UnderConditionOf(c, d))
<1>1. d.cbits = <<>> /\ d.factors = <<>> /\ Listed(d.qubits)
  BY Fields DEF Plain, Make
<1>2. Listed(c.cond) /\ Listed(<<>>) /\ Rule(<<>>)
  BY EmptyRule, SomeTuples DEF Shaped
<1> QED
  BY <1>1, <1>2, OfShaped DEF UnderConditionOf, Plain

-----------------------------------------------------------------------------
\* What a rule writes: plain gates, whatever the command and the target.
LEMMA BuiltinRule ==
  ASSUME NEW c, Shaped(c), NEW rules, c.gate \in Decomposable(rules),
         rules = "multi_control" => c.gate \notin PhaseKeptRules
  PROVE  Rule(Builtin(c))
<1> DEFINE g == c.gate
           q == c.qubits
<1>1. g # "GPhase" => Some(q)
  <2>1. g \notin Markers \cup {"Barrier"}
    BY DEF Decomposable, Overrides, Markers, OneQubitRules, DroppedGates,
           ControlledRotationRules, ControlledRules, PairRules, PhaseKeptRules
  <2> QED
    BY <2>1 DEF Shaped, HasOperands, Some
<1>2. CASE g \in DroppedGates
  <2>1. Builtin(c) = <<>>
    BY <1>2 DEF Builtin, DroppedGates, OneQubitRules, ControlledRotationRules, ControlledRules, PairRules
  <2> QED
    BY <2>1, EmptyRule
<1>3. CASE g \in OneQubitRules
  <2>1. Builtin(c) = OneQubitRule(g, q, c.params, c.factors) /\ g # "GPhase"
    BY <1>3 DEF Builtin, DroppedGates, OneQubitRules, ControlledRotationRules, ControlledRules, PairRules
  <2> QED
    BY <1>1, <1>3, <2>1, OneQubitPlain DEF Shaped
<1>4. CASE g \in ControlledRotationRules
  <2>1. Builtin(c) = ControlledRotationRule(g, q[1], q[2], c.params)
    BY <1>4 DEF Builtin, DroppedGates, OneQubitRules, ControlledRotationRules, ControlledRules, PairRules
  <2> QED
    BY <1>4, <2>1, ControlledRotationPlain
<1>5. CASE g \in ControlledRules
  <2>1. Builtin(c) = ControlledRule(g, q)
    BY <1>5 DEF Builtin, DroppedGates, OneQubitRules, ControlledRotationRules, ControlledRules, PairRules
  <2> QED
    BY <1>5, <2>1, ControlledPlain
<1>6. CASE g \in PairRules
  <2>1. Builtin(c) = PairRule(g, q, c.params) /\ g # "GPhase"
    BY <1>6 DEF Builtin, DroppedGates, OneQubitRules, ControlledRotationRules, ControlledRules, PairRules
  <2> QED
    BY <1>1, <1>6, <2>1, PairPlain
<1>7. CASE g = "MCZ"
  <2>1. Builtin(c) = MczRule(q) /\ g # "GPhase"
    BY <1>7 DEF Builtin, DroppedGates, OneQubitRules, ControlledRotationRules, ControlledRules, PairRules
  <2> QED
    BY <1>1, <2>1, MczPlain
<1>8. CASE g \in {"Rx", "Ry"}
  <2>1. Builtin(c) = RzOnlyRule(g, q, c.params) /\ g # "GPhase"
    BY <1>8 DEF Builtin, DroppedGates, OneQubitRules, ControlledRotationRules, ControlledRules, PairRules
  <2> QED
    BY <1>1, <2>1, RzOnlyPlain
<1> QED
  <2>1. g \in DroppedGates \cup OneQubitRules \cup ControlledRotationRules \cup ControlledRules
              \cup PairRules \cup {"MCZ"} \cup {"Rx", "Ry"}
    BY DEF Decomposable, Overrides
  <2> QED
    BY <1>2, <1>3, <1>4, <1>5, <1>6, <1>7, <1>8, <2>1

\* What a registered rule writes acts on some of its command's operands.
LEMMA RuleOperands ==
  ASSUME NEW g, NEW rule, IsRule(g, rule)
  PROVE  /\ rule \in Seq([gate : STRING, on : Seq(Nat \ {0})])
         /\ \A k \in DOMAIN rule : rule[k].on # <<>>
<1> DEFINE least == IF g = "MCZ" THEN 1 ELSE NumQubits(g)
           R == {r \in [gate : STRING, on : Seq(1 .. least) \ {<<>>}] : HasShape(On(r.gate, r.on))}
           S == [gate : STRING, on : Seq(Nat \ {0})]
<1>1. rule \in Seq(R)
  BY DEF IsRule
<1>2. least \in Nat
  BY DEF NumQubits
<1>3. ASSUME NEW r \in R PROVE r \in S /\ r.on # <<>>
  <2> DEFINE T == 1 .. least
             N == Nat \ {0}
  <2>1. r.on \in Seq(T) /\ T \subseteq N
    BY <1>2
  <2> HIDE DEF T, N
  <2>3. r.on \in Seq(N)
    BY <2>1
  <2>2. r.on \in Seq(Nat \ {0})
    BY <2>3 DEF N
  <2> QED
    BY <2>2
<1> HIDE DEF R, S
<1>4. rule \in Seq(S)
  BY <1>1, <1>3
<1>5. \A k \in DOMAIN rule : rule[k] \in R
  BY <1>1
<1> QED
  BY <1>3, <1>4, <1>5 DEF S

LEMMA DecomposeRule ==
  ASSUME NEW t, IsTarget(t), NEW c, Shaped(c), ~ StaysAsIs(t, c), ~ Refused(t, c)
  PROVE  Rule(Decompose(t, c))
<1>1. CASE Registers(t, c.gate)
  <2> DEFINE rule == t.registered[c.gate]
             n == Len(rule)
             s == [k \in DOMAIN rule |->
                     On(rule[k].gate, [i \in DOMAIN rule[k].on |-> c.qubits[rule[k].on[i]]])]
  <2>1. /\ rule \in Seq([gate : STRING, on : Seq(Nat \ {0})])
        /\ \A k \in DOMAIN rule : rule[k].on # <<>>
    BY <1>1, RuleOperands DEF IsTarget, Registers
  <2>2. Decompose(t, c) = s
    BY <1>1 DEF Decompose
  <2> HIDE DEF rule
  <2>3. n \in Nat /\ DOMAIN rule = 1 .. n
    BY <2>1
  <2>4. ASSUME NEW k \in 1 .. n PROVE Plain(s[k])
    <3> DEFINE on == rule[k].on
               qs == [i \in DOMAIN on |-> c.qubits[on[i]]]
    <3>1. rule[k] \in [gate : STRING, on : Seq(Nat \ {0})]
      <4> DEFINE S == [gate : STRING, on : Seq(Nat \ {0})]
      <4>1. rule \in Seq(S) /\ k \in DOMAIN rule
        BY <2>1, <2>3
      <4> HIDE DEF S
      <4>2. rule[k] \in S
        BY <4>1
      <4> QED
        BY <4>2 DEF S
    <3>2. on \in Seq(Nat \ {0})
      BY <3>1
    <3>3. Listed(qs)
      <4> DEFINE T == {c.qubits[on[i]] : i \in DOMAIN on}
      <4>1. qs \in [1 .. Len(on) -> T] /\ Len(on) \in Nat
        BY <3>2
      <4> HIDE DEF T, qs
      <4>2. qs \in Seq(T)
        BY <4>1
      <4> QED
        BY <4>2 DEF Listed
    <3>4. qs = <<>> => on = <<>>
      BY <3>2
    <3>5. on = <<>> => rule[k].gate = "GPhase"
      BY <2>1, <2>3
    <3>6. s[k] = Make(rule[k].gate, qs, <<>>, <<>>, <<>>)
      BY <2>3 DEF On
    <3> HIDE DEF qs, on
    <3> QED
      BY <3>3, <3>4, <3>5, <3>6, MakePlain
  <2>5. s = [k \in 1 .. n |-> s[k]]
    BY <2>3
  <2> HIDE DEF s, n
  <2> QED
    BY <2>2, <2>3, <2>4, <2>5, ListRule
<1>2. CASE ~ Registers(t, c.gate)
  <2>1. c.gate \in Decomposable(t.rules)
    BY <1>2 DEF Refused
  <2>2. CASE t.rules = "multi_control" /\ c.gate \in PhaseKeptRules
    <3>1. Decompose(t, c) = PhaseKeptRule(c.gate, c.qubits, c.params)
      BY <1>2, <2>2 DEF Decompose
    <3>2. Some(c.qubits)
      <4>1. c.gate \notin Markers \cup {"GPhase", "Barrier"}
        BY <2>2 DEF PhaseKeptRules, Markers
      <4> QED
        BY <4>1 DEF Shaped, HasOperands, Some
    <3> QED
      BY <2>2, <3>1, <3>2, PhaseKeptPlain
  <2>3. CASE ~ (t.rules = "multi_control" /\ c.gate \in PhaseKeptRules)
    <3>1. Decompose(t, c) = Builtin(c)
      BY <1>2, <2>3 DEF Decompose
    <3> QED
      BY <2>1, <2>3, <3>1, BuiltinRule
  <2> QED
    BY <2>2, <2>3
<1> QED
  BY <1>1, <1>2

LEMMA FlattenElements ==
  ASSUME NEW ss, Listed(ss), \A i \in DOMAIN ss : Listed(ss[i])
  PROVE  /\ Listed(FlattenSeq(ss))
         /\ \A m \in DOMAIN FlattenSeq(ss) :
              \E i \in DOMAIN ss : \E j \in DOMAIN ss[i] : FlattenSeq(ss)[m] = ss[i][j]
<1> DEFINE f == FlattenSeq(ss)
<1>1. PICK S : /\ f \in Seq(S)
               /\ \A x \in S : \E i \in DOMAIN ss : \E j \in DOMAIN ss[i] : x = ss[i][j]
  BY FlattenPieces
<1> HIDE DEF f
<1>2. \A m \in DOMAIN f : f[m] \in S
  BY <1>1
<1>3. \A m \in DOMAIN f : \E i \in DOMAIN ss : \E j \in DOMAIN ss[i] : f[m] = ss[i][j]
  BY <1>1, <1>2
<1>4. Listed(f)
  BY <1>1 DEF Listed
<1> QED
  BY <1>3, <1>4 DEF f

\* A function over the indices of a sequence is one.
LEMMA MappedListed ==
  ASSUME NEW s, Listed(s), NEW f, f = [i \in DOMAIN s |-> f[i]]
  PROVE  Listed(f) /\ DOMAIN f = DOMAIN s /\ Len(f) = Len(s)
<1> DEFINE T == {f[i] : i \in DOMAIN s}
<1>1. DOMAIN s = 1 .. Len(s) /\ Len(s) \in Nat
  BY DEF Listed
<1>2. f \in [DOMAIN s -> T]
  OBVIOUS
<1> HIDE DEF T
<1>3. f \in [1 .. Len(s) -> T]
  BY <1>1, <1>2
<1>4. f \in Seq(T) /\ Len(f) = Len(s)
  BY <1>1, <1>3
<1> QED
  BY <1>1, <1>2, <1>4 DEF Listed

LEMMA OneListed ==
  ASSUME NEW a
  PROVE  Listed(<<a>>) /\ DOMAIN <<a>> = {1} /\ <<a>>[1] = a
<1>1. Listed(<<a>>)
  BY SomeTuples DEF Some
<1> QED
  BY <1>1

\* What a command is lowered to, under its condition.
LEMMA LoweredForm ==
  ASSUME NEW t, NEW c
  PROVE  /\ StaysAsIs(t, c) => Lowered(t, c) = <<c>>
         /\ ~ StaysAsIs(t, c) /\ Listed(Decompose(t, c)) =>
              /\ Listed(Lowered(t, c)) /\ DOMAIN Lowered(t, c) = DOMAIN Decompose(t, c)
              /\ \A k \in DOMAIN Decompose(t, c) :
                   Lowered(t, c)[k] = UnderConditionOf(c, Decompose(t, c)[k])
<1>1. ASSUME ~ StaysAsIs(t, c), Listed(Decompose(t, c))
      PROVE  /\ Listed(Lowered(t, c)) /\ DOMAIN Lowered(t, c) = DOMAIN Decompose(t, c)
             /\ \A k \in DOMAIN Decompose(t, c) :
                  Lowered(t, c)[k] = UnderConditionOf(c, Decompose(t, c)[k])
  <2> DEFINE rule == Decompose(t, c)
             f == [k \in DOMAIN rule |-> UnderConditionOf(c, rule[k])]
  <2>1. Lowered(t, c) = f
    BY <1>1 DEF Lowered, Inheriting
  <2>2. f = [k \in DOMAIN rule |-> f[k]]
    OBVIOUS
  <2>3. \A k \in DOMAIN rule : f[k] = UnderConditionOf(c, rule[k])
    OBVIOUS
  <2>4. Listed(rule)
    BY <1>1
  <2> HIDE DEF f, rule
  <2>5. Listed(f) /\ DOMAIN f = DOMAIN rule
    BY <2>2, <2>4, MappedListed
  <2>6. /\ Listed(Lowered(t, c)) /\ DOMAIN Lowered(t, c) = DOMAIN rule
        /\ \A k \in DOMAIN rule : Lowered(t, c)[k] = UnderConditionOf(c, rule[k])
    BY <2>1, <2>3, <2>5
  <2> QED
    BY <2>6 DEF rule
<1> QED
  BY <1>1 DEF Lowered

LEMMA LoweredShaped ==
  ASSUME NEW t, IsTarget(t), NEW c, Shaped(c), ~ Refused(t, c)
  PROVE  ShapedStream(Lowered(t, c))
<1>1. CASE StaysAsIs(t, c)
  BY <1>1, OneListed, LoweredForm DEF ShapedStream
<1>2. CASE ~ StaysAsIs(t, c)
  <2> DEFINE rule == Decompose(t, c)
  <2>1. Rule(rule)
    BY <1>2, DecomposeRule
  <2> HIDE DEF rule
  <2>2. Listed(rule) /\ \A k \in DOMAIN rule : Plain(rule[k])
    BY <2>1 DEF Rule, Listed
  <2>3. /\ Listed(Lowered(t, c)) /\ DOMAIN Lowered(t, c) = DOMAIN rule
        /\ \A k \in DOMAIN rule : Lowered(t, c)[k] = UnderConditionOf(c, rule[k])
    BY <1>2, <2>2, LoweredForm DEF rule
  <2>4. \A k \in DOMAIN rule : Shaped(Lowered(t, c)[k])
    BY <2>2, <2>3, UnderShaped
  <2> QED
    BY <2>3, <2>4 DEF ShapedStream
<1> QED
  BY <1>1, <1>2

\* One pass of the cascade keeps a stream of commands one.
LEMMA PassShaped ==
  ASSUME NEW t, IsTarget(t), NEW s, ShapedStream(s), \A i \in DOMAIN s : ~ Refused(t, s[i])
  PROVE  ShapedStream(RebasePass(t, s))
<1> DEFINE ss == [i \in DOMAIN s |-> Lowered(t, s[i])]
<1>1. ss = [i \in DOMAIN s |-> ss[i]] /\ \A i \in DOMAIN s : ss[i] = Lowered(t, s[i])
  OBVIOUS
<1>2. RebasePass(t, s) = FlattenSeq(ss)
  BY DEF RebasePass
<1> HIDE DEF ss
<1>3. Listed(ss) /\ DOMAIN ss = DOMAIN s
  BY <1>1, MappedListed DEF ShapedStream
<1>4. \A i \in DOMAIN ss : ShapedStream(ss[i])
  BY <1>1, <1>3, LoweredShaped DEF ShapedStream
<1>5. \A i \in DOMAIN ss : Listed(ss[i]) /\ \A j \in DOMAIN ss[i] : Shaped(ss[i][j])
  BY <1>4 DEF ShapedStream
<1> DEFINE f == FlattenSeq(ss)
<1>6. /\ Listed(f)
      /\ \A m \in DOMAIN f : \E i \in DOMAIN ss : \E j \in DOMAIN ss[i] : f[m] = ss[i][j]
  BY <1>3, <1>5, FlattenElements
<1> HIDE DEF f
<1>7. \A m \in DOMAIN f : Shaped(f[m])
  BY <1>5, <1>6
<1> QED
  BY <1>2, <1>6, <1>7 DEF ShapedStream, f

LEMMA RebasedShaped ==
  ASSUME NEW t, IsTarget(t), NEW s, ShapedStream(s)
  PROVE  ShapedStream(Rebased(t, s))
<1>0. PICK f : IsCascade(f, t, s)
  BY CascadeRuns
<1>1. /\ Cascade(t, s) = f[10] /\ f[0] = [stream |-> s, asked |-> FALSE]
      /\ \A k \in 0 .. 9 : f[k + 1] = PassOver(t, f[k])
  BY <1>0 DEF IsCascade
<1> DEFINE P == {k \in 0 .. 10 : ShapedStream(f[k].stream)}
<1>2. 0 \in P
  BY <1>1
<1>3. ASSUME NEW k \in 0 .. 9, k \in P PROVE k + 1 \in P
  <2>1. ShapedStream(f[k].stream)
    BY <1>3
  <2>2. f[k + 1] = PassOver(t, f[k])
    BY <1>1
  <2>3. ShapedStream(f[k + 1].stream)
    BY <2>1, <2>2, PassShaped DEF PassOver
  <2> QED
    BY <2>3
<1> HIDE DEF P
<1>4. 10 \in P
  BY <1>2, <1>3, TenSteps
<1> QED
  BY <1>1, <1>4 DEF P, Rebased

LEMMA StreamShaped ==
  ASSUME NEW s, IsStream(s)
  PROVE  ShapedStream(s)
BY CommandShaped DEF IsStream, Listed, ShapedStream

-----------------------------------------------------------------------------
(* Streams of branches                                                     *)

\* What a command does to the depth.
Deepens(c) == CASE c.gate = "BranchBegin" -> 1
             [] c.gate = "BranchEnd"   -> -1
             [] OTHER                  -> 0

LEMMA SameAfter ==
  /\ \A a, b, n \in Int : a - n = b - n => a = b
  /\ \A a, b \in Int : a + 1 = b + 1 => a = b
OBVIOUS

LEMMA Associates ==
  ASSUME NEW S, NEW a \in Seq(S), NEW b \in Seq(S), NEW c \in Seq(S)
  PROVE  (a \o b) \o c = a \o (b \o c) /\ a \o b \in Seq(S)
OBVIOUS

LEMMA DepthDeepens ==
  ASSUME NEW s, Listed(s), NEW i \in 1 .. Len(s)
  PROVE  /\ Depth(s, i) = Depth(s, i - 1) + Deepens(s[i])
         /\ Depth(s, i) \in Int /\ Depth(s, i - 1) \in Int /\ Deepens(s[i]) \in {-1, 0, 1}
<1>1. Len(s) \in Nat
  BY ListedLen
<1>2. Depth(s, i) \in Int /\ Depth(s, i - 1) \in Int
  BY <1>1, DepthType
<1> QED
  BY <1>1, <1>2, DepthStep DEF Deepens

\* t is what s has after its first o commands, or the beginning of it.
IsPart(t, s, o) ==
  /\ Listed(s) /\ Listed(t) /\ o \in Nat /\ o + Len(t) =< Len(s)
  /\ \A k \in 1 .. Len(t) : t[k] = s[o + k]

\* It is as deep as in s, counted from where it starts.
LEMMA DepthShift ==
  ASSUME NEW s, NEW t, NEW o, IsPart(t, s, o)
  PROVE  \A k \in 0 .. Len(t) : Depth(t, k) = Depth(s, o + k) - Depth(s, o)
<1> DEFINE n == Len(t)
<1>0. /\ Listed(s) /\ Listed(t) /\ o \in Nat /\ n \in Nat /\ o + n =< Len(s)
      /\ \A k \in 1 .. n : t[k] = s[o + k]
  BY ListedLen DEF IsPart
<1> DEFINE Bad == {k \in 0 .. n : Depth(t, k) # Depth(s, o + k) - Depth(s, o)}
<1> SUFFICES ASSUME Bad # {} PROVE FALSE
  OBVIOUS
<1>1. PICK k \in Bad : \A j \in Bad : k =< j
  <2>1. Bad \in SUBSET Nat
    OBVIOUS
  <2> HIDE DEF Bad
  <2> QED
    BY <2>1, LeastExists
<1>2. k \in 0 .. n /\ Depth(t, k) # Depth(s, o + k) - Depth(s, o)
  BY <1>1
<1>3. Len(s) \in Nat /\ Len(t) \in Nat /\ Depth(s, o) \in Int
  BY <1>0, ListedLen, DepthType
<1>4. CASE k = 0
  <2>1. Depth(t, 0) = 0 /\ o + 0 = o
    BY <1>0, DepthZero
  <2> QED
    BY <1>2, <1>3, <1>4, <2>1
<1>5. CASE k # 0
  <2>1. k - 1 \in 0 .. n /\ k - 1 \notin Bad
    BY <1>1, <1>2, <1>5
  <2>2. Depth(t, k - 1) = Depth(s, o + (k - 1)) - Depth(s, o)
    BY <2>1
  <2>3. k \in 1 .. Len(t) /\ o + k \in 1 .. Len(s) /\ (o + k) - 1 = o + (k - 1) /\ t[k] = s[o + k]
    BY <1>0, <1>2, <1>3, <1>5
  <2>4. /\ Depth(t, k) = Depth(t, k - 1) + Deepens(t[k]) /\ Depth(t, k - 1) \in Int
        /\ Deepens(t[k]) \in {-1, 0, 1}
    BY <1>0, <2>3, DepthDeepens
  <2>5. Depth(s, o + k) = Depth(s, o + (k - 1)) + Deepens(t[k]) /\ Depth(s, o + (k - 1)) \in Int
    <3>1. Depth(s, o + k) = Depth(s, (o + k) - 1) + Deepens(s[o + k]) /\ Depth(s, (o + k) - 1) \in Int
      BY <1>0, <2>3, DepthDeepens
    <3> QED
      BY <2>3, <3>1
  <2> QED
    BY <1>2, <1>3, <2>2, <2>4, <2>5
<1> QED
  BY <1>4, <1>5

\* What stands between two markers of one depth: every branch that opens
\* closes, and no branch has a second else.
SingleElse(s) ==
  \A i, j \in DOMAIN s :
    i < j /\ s[i].gate = "BranchElse" /\ s[j].gate = "BranchElse" /\ Depth(s, i) = Depth(s, j)
      => \E k \in i .. j : Depth(s, k) < Depth(s, i)

Balanced(s) ==
  /\ Listed(s) /\ Depth(s, Len(s)) = 0
  /\ \A k \in 0 .. Len(s) : Depth(s, k) >= 0
  /\ SingleElse(s)

\* No else outside the branches.
ElseInside(s) == \A i \in DOMAIN s : s[i].gate = "BranchElse" => Depth(s, i) # 0

Nested(s) == Balanced(s) /\ ElseInside(s)

\* A part of a stream, command by command.
LEMMA PartOf ==
  ASSUME NEW s, Listed(s), NEW o \in Nat, NEW n \in Nat, o =< n, n =< Len(s),
         NEW t, t = SubSeq(s, o + 1, n)
  PROVE  IsPart(t, s, o) /\ Len(t) = n - o /\ Range(t) \subseteq Range(s)
<1>1. PICK S : s \in Seq(S)
  BY DEF Listed
<1>2. Len(s) \in Nat /\ DOMAIN s = 1 .. Len(s)
  BY <1>1
<1>3. t \in Seq(S) /\ Len(t) = n - o /\ DOMAIN t = 1 .. n - o
  <2>1. CASE o < n
    BY <1>1, <1>2, <2>1
  <2>2. CASE o = n
    BY <1>1, <1>2, <2>2
  <2> QED
    BY <2>1, <2>2
<1>4. ASSUME NEW k \in 1 .. n - o PROVE t[k] = s[o + k] /\ o + k \in DOMAIN s
  <2>1. t[k] = s[(o + 1) + k - 1] /\ (o + 1) + k - 1 = o + k
    BY <1>1, <1>2
  <2> QED
    BY <1>2, <2>1
<1>5. Listed(t)
  BY <1>3 DEF Listed
<1>6. Range(t) \subseteq Range(s)
  BY <1>3, <1>4 DEF Range
<1>7. o + Len(t) =< Len(s) /\ Len(t) = n - o
  BY <1>2, <1>3
<1> QED
  BY <1>3, <1>4, <1>5, <1>6, <1>7 DEF IsPart

LEMMA PartBalanced ==
  ASSUME NEW s, SingleElse(s), NEW t, NEW o, IsPart(t, s, o),
         Depth(s, o + Len(t)) = Depth(s, o), \A k \in o .. o + Len(t) : Depth(s, k) >= Depth(s, o)
  PROVE  Balanced(t)
<1> DEFINE n == o + Len(t)
<1>1. /\ Listed(t) /\ Listed(s) /\ o \in Nat
      /\ \A k \in 1 .. Len(t) : t[k] = s[o + k]
  BY DEF IsPart
<1>2. o + Len(t) =< Len(s) /\ Len(t) \in Nat /\ DOMAIN t = 1 .. Len(t) /\ Len(s) \in Nat /\ DOMAIN s = 1 .. Len(s)
  BY <1>1, ListedLen DEF IsPart
<1>3. o + Len(t) = n /\ n \in Nat
  BY <1>1, <1>2
<1>4. \A k \in 0 .. Len(t) : Depth(t, k) = Depth(s, o + k) - Depth(s, o)
  BY DepthShift
<1>5. \A k \in Int : Depth(s, k) \in Int /\ Depth(t, k) \in Int
  BY DepthType
<1>6. Depth(t, Len(t)) = 0
  <2>1. Depth(t, Len(t)) = Depth(s, n) - Depth(s, o)
    BY <1>2, <1>3, <1>4
  <2>2. Depth(s, n) = Depth(s, o) /\ Depth(s, o) \in Int
    BY <1>1, <1>5
  <2> HIDE DEF n
  <2> QED
    BY <2>1, <2>2
<1>7. ASSUME NEW k \in 0 .. Len(t) PROVE Depth(t, k) >= 0
  <2>1. o + k \in o .. n
    BY <1>1, <1>2, <1>3
  <2>2. Depth(s, o + k) >= Depth(s, o) /\ Depth(s, o + k) \in Int /\ Depth(s, o) \in Int
    <3>1. \A x \in o .. n : Depth(s, x) >= Depth(s, o)
      OBVIOUS
    <3>2. o + k \in Int /\ o \in Int
      BY <1>1, <2>1
    <3> HIDE DEF n
    <3> QED
      BY <1>5, <2>1, <3>1, <3>2
  <2>3. Depth(t, k) = Depth(s, o + k) - Depth(s, o)
    BY <1>4
  <2> QED
    BY <2>2, <2>3
<1>8. SingleElse(t)
  <2> SUFFICES ASSUME NEW i \in DOMAIN t, NEW j \in DOMAIN t, i < j,
                      t[i].gate = "BranchElse", t[j].gate = "BranchElse", Depth(t, i) = Depth(t, j)
               PROVE  \E k \in i .. j : Depth(t, k) < Depth(t, i)
    BY DEF SingleElse
  <2>1. i \in 1 .. Len(t) /\ j \in 1 .. Len(t) /\ i \in 0 .. Len(t) /\ j \in 0 .. Len(t)
    BY <1>2
  <2>2. t[i] = s[o + i] /\ t[j] = s[o + j] /\ o + i \in DOMAIN s /\ o + j \in DOMAIN s
    BY <1>1, <1>2, <1>3, <2>1
  <2>3. /\ Depth(t, i) = Depth(s, o + i) - Depth(s, o) /\ Depth(t, j) = Depth(s, o + j) - Depth(s, o)
        /\ Depth(s, o) \in Int /\ Depth(s, o + i) \in Int /\ Depth(s, o + j) \in Int
    <3>1. o \in Int /\ o + i \in Int /\ o + j \in Int
      BY <1>1, <2>1
    <3> QED
      BY <1>4, <1>5, <2>1, <3>1
  <2>4. Depth(s, o + i) = Depth(s, o + j) /\ o + i < o + j
    <3>2. Depth(s, o + i) = Depth(s, o + j)
      BY <2>3, SameAfter
    <3>3. o \in Int /\ i \in Int /\ j \in Int /\ i < j
      BY <1>1, <2>1
    <3> QED
      BY <3>2, <3>3
  <2>5. PICK x \in o + i .. o + j : Depth(s, x) < Depth(s, o + i)
    BY <2>2, <2>4 DEF SingleElse
  <2>6. x - o \in i .. j /\ x - o \in 0 .. Len(t) /\ o + (x - o) = x /\ x \in Int
    BY <1>1, <1>2, <2>1, <2>5
  <2>7. Depth(t, x - o) = Depth(s, x) - Depth(s, o) /\ Depth(s, x) \in Int
    BY <1>4, <1>5, <2>6
  <2>8. Depth(t, x - o) < Depth(t, i)
    BY <2>3, <2>5, <2>7
  <2> QED
    BY <2>6, <2>8
<1> QED
  BY <1>1, <1>4, <1>6, <1>7, <1>8 DEF Balanced

IsJoin(c, a, b) == c = a \o b

\* Two pieces joined, of which one has no else outside its branches.
LEMMA JoinDepth ==
  ASSUME NEW a, Listed(a), Depth(a, Len(a)) = 0, NEW b, Listed(b), NEW c, IsJoin(c, a, b)
  PROVE  /\ Listed(c) /\ Len(c) = Len(a) + Len(b)
         /\ \A k \in 1 .. Len(a) : c[k] = a[k]
         /\ \A k \in 1 .. Len(b) : c[Len(a) + k] = b[k]
         /\ \A k \in 0 .. Len(a) : Depth(c, k) = Depth(a, k)
         /\ \A k \in 0 .. Len(b) : Depth(c, Len(a) + k) = Depth(b, k)
<1>1. /\ Listed(c) /\ Len(c) = Len(a) + Len(b) /\ Len(a) \in Nat /\ Len(b) \in Nat /\ Len(c) \in Nat
      /\ \A i \in 1 .. Len(c) : c[i] = IF i =< Len(a) THEN a[i] ELSE b[i - Len(a)]
  <2>1. Listed(c) /\ Len(c) = Len(a) + Len(b)
    BY ListedJoin DEF IsJoin
  <2>2. \A i \in 1 .. Len(c) : c[i] = IF i =< Len(a) THEN a[i] ELSE b[i - Len(a)]
    BY ListedJoin DEF IsJoin
  <2> QED
    BY <2>1, <2>2, ListedLen
<1>2. \A k \in 1 .. Len(a) : c[k] = a[k] /\ a[k] = c[0 + k]
  BY <1>1
<1>3. \A k \in 1 .. Len(b) : c[Len(a) + k] = b[k]
  <2> SUFFICES ASSUME NEW k \in 1 .. Len(b) PROVE c[Len(a) + k] = b[k]
    OBVIOUS
  <2>1. Len(a) + k \in 1 .. Len(c) /\ ~ (Len(a) + k =< Len(a)) /\ (Len(a) + k) - Len(a) = k
    BY <1>1
  <2> QED
    BY <1>1, <2>1
<1>4. \A k \in Int : Depth(c, k) \in Int /\ Depth(a, k) \in Int /\ Depth(b, k) \in Int
  BY DepthType
<1>5. IsPart(a, c, 0) /\ IsPart(b, c, Len(a))
  <2>1. 0 + Len(a) =< Len(c) /\ Len(a) + Len(b) =< Len(c) /\ 0 \in Nat
    BY <1>1
  <2> QED
    BY <1>1, <1>2, <1>3, <2>1 DEF IsPart
<1>6. \A k \in 0 .. Len(a) : Depth(c, k) = Depth(a, k)
  <2> SUFFICES ASSUME NEW k \in 0 .. Len(a) PROVE Depth(c, k) = Depth(a, k)
    OBVIOUS
  <2>1. Depth(a, k) = Depth(c, 0 + k) - Depth(c, 0)
    BY <1>5, DepthShift
  <2>2. Depth(c, 0) = 0 /\ 0 + k = k /\ k \in Int
    BY <1>1, DepthZero
  <2> QED
    BY <1>4, <2>1, <2>2
<1>7. Depth(c, Len(a)) = 0
  BY <1>1, <1>6
<1>8. ASSUME NEW k \in 0 .. Len(b) PROVE Depth(c, Len(a) + k) = Depth(b, k)
  <2>1. Depth(b, k) = Depth(c, Len(a) + k) - Depth(c, Len(a))
    BY <1>5, DepthShift
  <2>2. Len(a) + k \in Int
    BY <1>1
  <2> QED
    BY <1>4, <1>7, <2>1, <2>2
<1> QED
  BY <1>1, <1>2, <1>3, <1>6, <1>8

LEMMA JoinBalanced ==
  ASSUME NEW a, Balanced(a), NEW b, Balanced(b), ElseInside(a) \/ ElseInside(b), NEW c, IsJoin(c, a, b)
  PROVE  Balanced(c) /\ (ElseInside(a) /\ ElseInside(b) => ElseInside(c))
<1>1. /\ Listed(a) /\ Listed(b) /\ Depth(a, Len(a)) = 0 /\ Depth(b, Len(b)) = 0
      /\ SingleElse(a) /\ SingleElse(b)
      /\ \A k \in 0 .. Len(a) : Depth(a, k) >= 0
      /\ \A k \in 0 .. Len(b) : Depth(b, k) >= 0
  BY DEF Balanced
<1> DEFINE o == Len(a)
<1>2. /\ Listed(c) /\ Len(c) = o + Len(b)
      /\ \A k \in 1 .. o : c[k] = a[k]
      /\ \A k \in 1 .. Len(b) : c[o + k] = b[k]
      /\ \A k \in 0 .. o : Depth(c, k) = Depth(a, k)
      /\ \A k \in 0 .. Len(b) : Depth(c, o + k) = Depth(b, k)
  BY <1>1, JoinDepth
<1>3. /\ o \in Nat /\ Len(b) \in Nat /\ DOMAIN a = 1 .. o /\ DOMAIN b = 1 .. Len(b)
      /\ DOMAIN c = 1 .. Len(c) /\ Len(c) \in Nat
  BY <1>1, <1>2, ListedLen
<1>4. Depth(a, o) = 0
  BY <1>1
<1>5. \A k \in 0 .. o : Depth(a, k) >= 0
  BY <1>1
<1> HIDE DEF o
<1>6. Depth(c, Len(c)) = 0
  BY <1>1, <1>2, <1>3
<1>7. ASSUME NEW k \in 0 .. Len(c) PROVE Depth(c, k) >= 0
  <2>1. CASE k =< o
    <3>1. k \in 0 .. o
      BY <1>3, <2>1
    <3> QED
      BY <1>2, <1>5, <3>1
  <2>2. CASE ~ (k =< o)
    <3>1. k - o \in 0 .. Len(b) /\ o + (k - o) = k
      BY <1>2, <1>3, <2>2
    <3>2. Depth(c, k) = Depth(b, k - o)
      BY <1>2, <3>1
    <3> QED
      BY <1>1, <3>1, <3>2
  <2> QED
    BY <2>1, <2>2
<1>8. SingleElse(c)
  <2> SUFFICES ASSUME NEW i \in DOMAIN c, NEW j \in DOMAIN c, i < j,
                      c[i].gate = "BranchElse", c[j].gate = "BranchElse", Depth(c, i) = Depth(c, j)
               PROVE  \E k \in i .. j : Depth(c, k) < Depth(c, i)
    BY DEF SingleElse
  <2>1. CASE j =< o
    <3>1. i \in 1 .. o /\ j \in 1 .. o /\ i \in 0 .. o /\ j \in 0 .. o
      BY <1>3, <2>1
    <3>2. a[i] = c[i] /\ a[j] = c[j] /\ Depth(a, i) = Depth(c, i) /\ Depth(a, j) = Depth(c, j)
      BY <1>2, <3>1
    <3>3. PICK k \in i .. j : Depth(a, k) < Depth(a, i)
      BY <1>1, <1>3, <3>1, <3>2 DEF SingleElse
    <3>4. k \in 0 .. o
      BY <1>3, <3>1
    <3> QED
      BY <1>2, <3>2, <3>3, <3>4
  <2>2. CASE i > o
    <3> DEFINE x == i - o
               y == j - o
    <3>1. /\ x \in 1 .. Len(b) /\ y \in 1 .. Len(b) /\ x \in 0 .. Len(b) /\ y \in 0 .. Len(b)
          /\ o + x = i /\ o + y = j /\ x < y
      <4>1. i \in 1 .. o + Len(b) /\ j \in 1 .. o + Len(b)
        BY <1>2, <1>3
      <4> QED
        BY <1>3, <2>2, <4>1
    <3> HIDE DEF x, y
    <3>2. b[x] = c[i] /\ b[y] = c[j] /\ Depth(b, x) = Depth(c, i) /\ Depth(b, y) = Depth(c, j)
      BY <1>2, <3>1
    <3>3. PICK k \in x .. y : Depth(b, k) < Depth(b, x)
      BY <1>1, <1>3, <3>1, <3>2 DEF SingleElse
    <3>4. k \in 0 .. Len(b) /\ o + k \in i .. j
      BY <1>3, <3>1
    <3>5. Depth(c, o + k) < Depth(c, i)
      BY <1>2, <3>2, <3>3, <3>4
    <3> QED
      BY <3>4, <3>5
  <2>3. CASE i =< o /\ ~ (j =< o)
    <3> DEFINE y == j - o
    <3>1. i \in 1 .. o /\ i \in 0 .. o /\ y \in 1 .. Len(b) /\ y \in 0 .. Len(b) /\ o + y = j
      <4>1. i \in 1 .. o + Len(b) /\ j \in 1 .. o + Len(b)
        BY <1>2, <1>3
      <4>2. i =< o /\ ~ (j =< o)
        BY <2>3
      <4>3. i \in 1 .. o /\ i \in 0 .. o
        BY <1>3, <4>1, <4>2
      <4>4. y \in 1 .. Len(b) /\ y \in 0 .. Len(b) /\ o + y = j
        BY <1>3, <4>1, <4>2
      <4> QED
        BY <4>3, <4>4
    <3> HIDE DEF y
    <3>2. a[i] = c[i] /\ b[y] = c[j] /\ Depth(a, i) = Depth(c, i) /\ Depth(b, y) = Depth(c, j)
      BY <1>2, <3>1
    <3>3. Depth(c, i) # 0
      BY <1>3, <3>1, <3>2 DEF ElseInside
    <3>4. Depth(c, i) >= 0 /\ Depth(c, i) \in Int
      BY <1>5, <3>1, <3>2, DepthType
    <3>5. Depth(c, o) = 0 /\ o \in i .. j
      BY <1>2, <1>3, <1>4, <2>3, <3>1
    <3>6. Depth(c, o) < Depth(c, i)
      BY <3>3, <3>4, <3>5
    <3> QED
      BY <3>5, <3>6
  <2> QED
    BY <1>3, <2>1, <2>2, <2>3
<1>9. ASSUME ElseInside(a), ElseInside(b), NEW i \in DOMAIN c, c[i].gate = "BranchElse"
      PROVE  Depth(c, i) # 0
  <2>1. CASE i =< o
    <3>1. i \in 1 .. o /\ i \in 0 .. o
      BY <1>3, <2>1
    <3> QED
      BY <1>2, <1>3, <1>9, <3>1 DEF ElseInside
  <2>2. CASE ~ (i =< o)
    <3> DEFINE x == i - o
    <3>1. x \in 1 .. Len(b) /\ x \in 0 .. Len(b) /\ o + x = i
      BY <1>2, <1>3, <2>2
    <3> HIDE DEF x
    <3>2. b[x] = c[i] /\ Depth(b, x) = Depth(c, i)
      BY <1>2, <3>1
    <3> QED
      BY <1>3, <1>9, <3>1, <3>2 DEF ElseInside
  <2> QED
    BY <2>1, <2>2
<1> QED
  BY <1>2, <1>6, <1>7, <1>8, <1>9 DEF Balanced, ElseInside

\* A single command that opens and closes nothing.
LEMMA OneNested ==
  ASSUME NEW c, c.gate \notin {"BranchBegin", "BranchEnd"}
  PROVE  Balanced(<<c>>) /\ (c.gate # "BranchElse" => Nested(<<c>>))
<1> DEFINE s == <<c>>
<1>1. Listed(s) /\ DOMAIN s = {1} /\ s[1] = c /\ Len(s) = 1
  BY OneListed
<1> HIDE DEF s
<1>2. Depth(s, 0) = 0 /\ Depth(s, 1) = 0
  <2>1. 1 \in 1 .. Len(s) /\ 1 - 1 = 0
    BY <1>1
  <2>2. Depth(s, 1) = Depth(s, 0) + Deepens(s[1])
    BY <1>1, <2>1, DepthDeepens
  <2>3. Deepens(s[1]) = 0
    BY <1>1 DEF Deepens
  <2> QED
    BY <2>2, <2>3, DepthZero
<1>3. \A k \in 0 .. Len(s) : Depth(s, k) >= 0
  <2>1. \A k \in 0 .. 1 : k = 0 \/ k = 1
    OBVIOUS
  <2> QED
    BY <1>1, <1>2, <2>1
<1>4. SingleElse(s)
  BY <1>1 DEF SingleElse
<1>5. Balanced(s)
  BY <1>1, <1>2, <1>3, <1>4 DEF Balanced
<1>6. c.gate # "BranchElse" => ElseInside(s)
  BY <1>1 DEF ElseInside
<1> QED
  BY <1>5, <1>6 DEF Nested, s

LEMMA NothingNested == Nested(<<>>)
<1> DEFINE s == <<>>
<1>1. Listed(s) /\ DOMAIN s = {} /\ Len(s) = 0
  <2>1. s \in Seq({})
    OBVIOUS
  <2> QED
    BY <2>1 DEF Listed
<1> HIDE DEF s
<1>2. Depth(s, 0) = 0
  BY DepthZero
<1>3. \A k \in 0 .. Len(s) : Depth(s, k) >= 0
  <2>1. \A k \in 0 .. 0 : k = 0
    OBVIOUS
  <2> QED
    BY <1>1, <1>2, <2>1
<1> QED
  BY <1>1, <1>2, <1>3 DEF Nested, Balanced, SingleElse, ElseInside, s

\* A branch region from its begin to its end.
Region(t) ==
  /\ Balanced(t) /\ t # <<>> /\ t[1].gate = "BranchBegin"
  /\ \A k \in 1 .. Len(t) - 1 : Depth(t, k) > 0

LEMMA RegionForm ==
  ASSUME NEW t, Region(t)
  PROVE  /\ Nested(t) /\ Len(t) \in Nat /\ Len(t) >= 2 /\ DOMAIN t = 1 .. Len(t)
         /\ t[Len(t)].gate = "BranchEnd"
         /\ Depth(t, 1) = 1 /\ Depth(t, Len(t) - 1) = 1
<1>1. /\ Listed(t) /\ Len(t) \in Nat /\ DOMAIN t = 1 .. Len(t) /\ Depth(t, Len(t)) = 0
      /\ t[1].gate = "BranchBegin" /\ \A k \in 1 .. Len(t) - 1 : Depth(t, k) > 0
  BY ListedLen DEF Region, Balanced
<1>2. Len(t) # 0
  BY DEF Region, Balanced, Listed
<1>3. Depth(t, 1) = 1
  <2>1. 1 \in 1 .. Len(t) /\ 1 - 1 = 0
    BY <1>1, <1>2
  <2>2. Depth(t, 1) = Depth(t, 0) + Deepens(t[1])
    BY <1>1, <2>1, DepthDeepens
  <2>3. Deepens(t[1]) = 1
    BY <1>1 DEF Deepens
  <2> QED
    BY <2>2, <2>3, DepthZero
<1>4. Len(t) # 1
  BY <1>1, <1>3
<1>5. /\ Depth(t, Len(t)) = Depth(t, Len(t) - 1) + Deepens(t[Len(t)]) /\ Depth(t, Len(t) - 1) \in Int
      /\ Deepens(t[Len(t)]) \in {-1, 0, 1}
  <2>1. Len(t) \in 1 .. Len(t)
    BY <1>1, <1>2
  <2> QED
    BY <1>1, <2>1, DepthDeepens
<1>6. Depth(t, Len(t) - 1) > 0
  BY <1>1, <1>2, <1>4
<1>7. Deepens(t[Len(t)]) = -1 /\ Depth(t, Len(t) - 1) = 1
  BY <1>1, <1>5, <1>6
<1>8. t[Len(t)].gate = "BranchEnd"
  BY <1>7 DEF Deepens
<1>9. ElseInside(t)
  <2> SUFFICES ASSUME NEW i \in DOMAIN t, t[i].gate = "BranchElse" PROVE Depth(t, i) # 0
    BY DEF ElseInside
  <2>1. i # Len(t)
    BY <1>8
  <2>2. i \in 1 .. Len(t) - 1
    BY <1>1, <2>1
  <2> QED
    BY <1>1, <2>2
<1> QED
  BY <1>1, <1>2, <1>3, <1>4, <1>7, <1>8, <1>9 DEF Region, Nested

LEMMA RegionWraps ==
  ASSUME NEW c, Balanced(c), NEW x, x.gate = "BranchBegin", NEW y, y.gate = "BranchEnd",
         NEW a, IsJoin(a, <<x>>, c), NEW t, IsJoin(t, a, <<y>>)
  PROVE  Region(t)
<1> DEFINE u == <<x>>
           v == <<y>>
           n == Len(c)
<1>1. Listed(u) /\ Len(u) = 1 /\ u[1] = x /\ Listed(v) /\ Len(v) = 1 /\ v[1] = y
  BY OneListed
<1>2. a = u \o c /\ t = a \o v
  BY DEF IsJoin
<1> HIDE DEF u, v
<1>3. /\ Listed(c) /\ n \in Nat /\ Depth(c, n) = 0 /\ SingleElse(c) /\ DOMAIN c = 1 .. n
      /\ \A k \in 0 .. n : Depth(c, k) >= 0
  BY ListedLen DEF Balanced
<1> HIDE DEF n
<1>4. /\ Listed(a) /\ Len(a) = 1 + n
      /\ \A k \in 1 .. Len(a) : a[k] = IF k =< 1 THEN x ELSE c[k - 1]
  <2>1. /\ Listed(u \o c) /\ Len(u \o c) = Len(u) + Len(c)
        /\ \A i \in 1 .. Len(u \o c) : (u \o c)[i] = IF i =< Len(u) THEN u[i] ELSE c[i - Len(u)]
    BY <1>1, <1>3, ListedJoin
  <2>2. \A i \in 1 .. Len(a) : i =< 1 => i = 1
    BY <1>1, <1>2, <1>3, <2>1
  <2> QED
    BY <1>1, <1>2, <2>1, <2>2 DEF n
<1>5. /\ Listed(t) /\ Len(t) = n + 2
      /\ \A k \in 1 .. Len(t) : t[k] = IF k =< 1 + n THEN a[k] ELSE v[k - (1 + n)]
  <2>1. /\ Listed(a \o v) /\ Len(a \o v) = Len(a) + Len(v)
        /\ \A i \in 1 .. Len(a \o v) : (a \o v)[i] = IF i =< Len(a) THEN a[i] ELSE v[i - Len(a)]
    BY <1>1, <1>4, ListedJoin
  <2>2. Len(a) + Len(v) = n + 2
    BY <1>1, <1>3, <1>4
  <2> QED
    BY <1>2, <1>4, <2>1, <2>2
<1>6. t[1] = x /\ t[n + 2] = y /\ \A k \in 1 .. n : t[1 + k] = c[k]
  <2>1. 1 \in 1 .. Len(t) /\ 1 \in 1 .. Len(a) /\ 1 =< 1 + n
    BY <1>3, <1>4, <1>5
  <2>2. n + 2 \in 1 .. Len(t) /\ ~ (n + 2 =< 1 + n) /\ (n + 2) - (1 + n) = 1
    BY <1>3, <1>5
  <2>3. ASSUME NEW k \in 1 .. n PROVE t[1 + k] = c[k]
    <3>1. 1 + k \in 1 .. Len(t) /\ 1 + k =< 1 + n /\ 1 + k \in 1 .. Len(a) /\ ~ (1 + k =< 1) /\ (1 + k) - 1 = k
      BY <1>3, <1>4, <1>5
    <3> QED
      BY <1>4, <1>5, <3>1
  <2>4. t[1] = x
    BY <1>4, <1>5, <2>1
  <2>5. t[n + 2] = y
    BY <1>1, <1>5, <2>2
  <2> QED
    BY <2>3, <2>4, <2>5
<1>7. \A k \in Int : Depth(t, k) \in Int /\ Depth(c, k) \in Int
  BY DepthType
<1>8. Depth(t, 1) = 1
  <2>1. 1 \in 1 .. Len(t) /\ 1 - 1 = 0
    BY <1>3, <1>5
  <2>2. Depth(t, 1) = Depth(t, 0) + Deepens(t[1])
    BY <1>5, <2>1, DepthDeepens
  <2>3. Deepens(t[1]) = 1
    BY <1>6 DEF Deepens
  <2> QED
    BY <2>2, <2>3, DepthZero
<1>9. ASSUME NEW k \in 0 .. n PROVE Depth(t, 1 + k) = Depth(c, k) + 1
  <2>1. IsPart(c, t, 1)
    <3>1. 1 + n =< Len(t)
      BY <1>3, <1>5
    <3> QED
      BY <1>3, <1>5, <1>6, <3>1 DEF IsPart, n
  <2>2. Depth(c, k) = Depth(t, 1 + k) - Depth(t, 1)
    BY <2>1, DepthShift DEF n
  <2>3. 1 + k \in Int
    BY <1>3
  <2> QED
    BY <1>7, <1>8, <2>2, <2>3
<1>10. Depth(t, n + 2) = 0
  <2>1. n + 2 \in 1 .. Len(t) /\ (n + 2) - 1 = 1 + n /\ n \in 0 .. n
    BY <1>3, <1>5
  <2>2. Depth(t, n + 2) = Depth(t, 1 + n) + Deepens(t[n + 2])
    BY <1>5, <2>1, DepthDeepens
  <2>3. Deepens(t[n + 2]) = -1
    BY <1>6 DEF Deepens
  <2>4. Depth(t, 1 + n) = 1
    BY <1>3, <1>9, <2>1
  <2> QED
    BY <2>2, <2>3, <2>4
<1>11. ASSUME NEW k \in 1 .. Len(t) - 1 PROVE Depth(t, k) > 0
  <2>1. k - 1 \in 0 .. n /\ 1 + (k - 1) = k
    BY <1>3, <1>5
  <2>2. PICK j \in 0 .. n : 1 + j = k
    BY <2>1
  <2>3. Depth(t, k) = Depth(c, j) + 1
    BY <1>9, <2>2
  <2>4. Depth(c, j) >= 0 /\ Depth(c, j) \in Int
    <3>1. j \in Int
      BY <1>3
    <3>2. Depth(c, j) >= 0
      BY <1>3
    <3> QED
      BY <1>7, <3>1, <3>2
  <2> QED
    BY <2>3, <2>4
<1>12. ASSUME NEW k \in 0 .. Len(t) PROVE Depth(t, k) >= 0
  <2>1. k = 0 \/ k = n + 2 \/ k \in 1 .. Len(t) - 1
    BY <1>3, <1>5
  <2>2. CASE k = 0
    BY <2>2, DepthZero
  <2>3. CASE k = n + 2
    BY <1>10, <2>3
  <2>4. CASE k \in 1 .. Len(t) - 1
    <3>1. Depth(t, k) > 0
      BY <1>11, <2>4
    <3>2. k \in Int
      BY <1>3, <1>5
    <3>3. Depth(t, k) \in Int
      BY <1>7, <3>2
    <3> QED
      BY <3>1, <3>3
  <2> QED
    BY <2>1, <2>2, <2>3, <2>4
<1>13. SingleElse(t)
  <2> SUFFICES ASSUME NEW i \in DOMAIN t, NEW j \in DOMAIN t, i < j,
                      t[i].gate = "BranchElse", t[j].gate = "BranchElse", Depth(t, i) = Depth(t, j)
               PROVE  \E k \in i .. j : Depth(t, k) < Depth(t, i)
    BY DEF SingleElse
  <2>1. i \in 1 .. n + 2 /\ j \in 1 .. n + 2
    BY <1>3, <1>5, ListedLen
  <2>2. i # 1 /\ i # n + 2 /\ j # 1 /\ j # n + 2
    BY <1>6
  <2> DEFINE p == i - 1
             q == j - 1
  <2>3. p \in 1 .. n /\ q \in 1 .. n /\ p \in 0 .. n /\ q \in 0 .. n /\ 1 + p = i /\ 1 + q = j /\ p < q
    BY <1>3, <2>1, <2>2
  <2> HIDE DEF p, q
  <2>4. /\ c[p] = t[i] /\ c[q] = t[j] /\ Depth(t, i) = Depth(c, p) + 1 /\ Depth(t, j) = Depth(c, q) + 1
        /\ Depth(c, p) \in Int /\ Depth(c, q) \in Int
    BY <1>6, <1>7, <1>9, <2>3
  <2>5. PICK k \in p .. q : Depth(c, k) < Depth(c, p)
    <3>1. p \in DOMAIN c /\ q \in DOMAIN c /\ p < q
      BY <1>3, <2>3
    <3>2. Depth(c, p) = Depth(c, q)
      BY <2>4, SameAfter
    <3>3. c[p].gate = "BranchElse" /\ c[q].gate = "BranchElse"
      BY <2>4
    <3> QED
      BY <1>3, <3>1, <3>2, <3>3 DEF SingleElse
  <2>6. k \in 0 .. n /\ 1 + k \in i .. j /\ k \in Int
    BY <1>3, <2>3
  <2>7. Depth(t, 1 + k) < Depth(t, i)
    BY <1>7, <1>9, <2>4, <2>5, <2>6
  <2> QED
    BY <2>6, <2>7
<1>14. t # <<>> /\ Depth(t, Len(t)) = 0
  <2>1. Len(t) # 0
    BY <1>3, <1>5
  <2> QED
    BY <1>5, <1>10, <2>1
<1> QED
  BY <1>5, <1>6, <1>11, <1>12, <1>13, <1>14 DEF Region, Balanced

\* What stands between two markers of one depth, none of them an else of it.
LEMMA InnerNested ==
  ASSUME NEW s, Listed(s), SingleElse(s), NEW o \in Nat, NEW n \in Nat, o =< n, n =< Len(s),
         Depth(s, n) = Depth(s, o), \A k \in o .. n : Depth(s, k) >= Depth(s, o),
         \A k \in o + 1 .. n : s[k].gate = "BranchElse" => Depth(s, k) # Depth(s, o),
         NEW t, IsPart(t, s, o), Len(t) = n - o
  PROVE  Nested(t)
<1>1. IsPart(t, s, o) /\ Len(t) = n - o
  OBVIOUS
<1>2. o + Len(t) = n /\ Len(t) \in Nat
  BY <1>1
<1>3. Balanced(t)
  BY <1>1, <1>2, PartBalanced
<1>4. ElseInside(t)
  <2> SUFFICES ASSUME NEW i \in DOMAIN t, t[i].gate = "BranchElse" PROVE Depth(t, i) # 0
    BY DEF ElseInside
  <2>1. i \in 1 .. Len(t) /\ i \in 0 .. Len(t)
    BY <1>1, <1>2, ListedLen DEF IsPart
  <2>2. t[i] = s[o + i] /\ o + i \in o + 1 .. n
    BY <1>1, <1>2, <2>1 DEF IsPart
  <2>3. Depth(s, o + i) # Depth(s, o)
    BY <2>2
  <2>4. Depth(t, i) = Depth(s, o + i) - Depth(s, o)
    <3>1. IsPart(t, s, o)
      BY <1>1
    <3>2. \A k \in 0 .. Len(t) : Depth(t, k) = Depth(s, o + k) - Depth(s, o)
      BY <3>1, DepthShift
    <3> QED
      BY <2>1, <3>2
  <2>5. Depth(s, o + i) \in Int /\ Depth(s, o) \in Int
    <3>1. o \in Int /\ o + i \in Int
      BY <2>1
    <3> QED
      BY <3>1, DepthType
  <2> QED
    BY <2>3, <2>4, <2>5
<1> QED
  BY <1>3, <1>4 DEF Nested

LEMMA PartNested ==
  ASSUME NEW s, Listed(s), SingleElse(s), NEW o \in Nat, NEW n \in Nat, o =< n, n =< Len(s),
         Depth(s, n) = Depth(s, o), \A k \in o .. n : Depth(s, k) >= Depth(s, o),
         \A k \in o + 1 .. n : s[k].gate = "BranchElse" => Depth(s, k) # Depth(s, o),
         NEW t, t = SubSeq(s, o + 1, n)
  PROVE  Nested(t)
<1>1. IsPart(t, s, o) /\ Len(t) = n - o
  BY PartOf
<1> QED
  BY <1>1, InnerNested

-----------------------------------------------------------------------------
(* Rebasing: no cascade is too deep                                         *)

\* The gates decompose_custom writes.
ZyzGates == {"GPhase", "Rz", "Ry"}

\* A command that the rules can take, with all it holds.
Fed(c) ==
  /\ HasShape(c) /\ HasOperands(c) /\ c.qubits \in Seq(Nat)
  /\ Listed(c.params) /\ \A i \in 1 .. Len(c.params) : IsLinear(c.params[i])
  /\ Listed(c.factors)
  /\ \A i \in 1 .. Len(c.factors) :
       c.gate = "Custom" /\ IsPlain(c.factors[i]) /\ c.factors[i].gate \in ZyzGates

\* What the rule for a gate writes, the factors of a Custom among it.
GatesOut(t, g) == Writes(t, g) \cup (IF g = "Custom" THEN ZyzGates ELSE {})

\* The renaming that changes no name.
SameNames(t, c) ==
  [wires |-> Nat, ends |-> Nat, wire |-> [w \in Nat |-> w],
   symbols |-> {c.params[i].symbol : i \in 1 .. Len(c.params)} \ {None},
   name |-> [a \in {c.params[i].symbol : i \in 1 .. Len(c.params)} \ {None} |-> a],
   gates |-> GatesOut(t, c.gate)]

LEMMA NamesKept ==
  ASSUME NEW t, NEW c
  PROVE  /\ Renaming(SameNames(t, c))
         /\ SameNames(t, c).wires = Nat /\ SameNames(t, c).ends = Nat
         /\ \A w \in Nat : SameNames(t, c).wire[w] = w
         /\ SameNames(t, c).symbols = {c.params[i].symbol : i \in 1 .. Len(c.params)} \ {None}
         /\ \A a \in SameNames(t, c).symbols : SameNames(t, c).name[a] = a
         /\ SameNames(t, c).gates = GatesOut(t, c.gate)
BY DEF SameNames, Renaming

LEMMA WiredItself ==
  ASSUME NEW t, NEW c, NEW q, q \in Seq(Nat)
  PROVE  Wired(SameNames(t, c), q, q)
<1>1. Len(q) \in Nat /\ \A i \in 1 .. Len(q) : q[i] \in Nat
  OBVIOUS
<1> QED
  BY <1>1, NamesKept DEF Wired

LEMMA TurnedItself ==
  ASSUME NEW t, NEW c, NEW p, IsLinear(p), p.symbol \in SameNames(t, c).symbols \cup {None}
  PROVE  Turned(SameNames(t, c), p, p)
<1> DEFINE x == SameNames(t, c)
<1>1. p = [coeff |-> p.coeff, offset |-> p.offset, symbol |-> p.symbol]
  BY DEF IsLinear
<1>2. p.symbol = IF p.symbol = None THEN None ELSE x.name[p.symbol]
  BY NamesKept
<1> HIDE DEF x
<1>3. p = [coeff |-> p.coeff, offset |-> p.offset,
           symbol |-> IF p.symbol = None THEN None ELSE x.name[p.symbol]]
  BY <1>1, <1>2
<1> QED
  BY <1>3 DEF Turned, IsLinear, x

LEMMA FactorItself ==
  ASSUME NEW t, NEW c, NEW f, IsPlain(f), f.gate \in GatesOut(t, c.gate)
  PROVE  Twin(SameNames(t, c), f, f)
<1> DEFINE x == SameNames(t, c)
           E == {Eighths(p.offset) : p \in Range(f.params)}
<1>1. f.params \in Seq(E)
  BY DEF IsPlain
<1>2. \A p \in E : IsLinear(p) /\ p.symbol = None
  BY DEF Eighths, IsLinear
<1> HIDE DEF E
<1>3. Listed(f.params) /\ \A i \in 1 .. Len(f.params) : f.params[i] \in E
  BY <1>1 DEF Listed
<1>4. \A i \in 1 .. Len(f.params) : Turned(x, f.params[i], f.params[i])
  BY <1>2, <1>3, TurnedItself
<1>5. Angles(x, f.params, f.params)
  BY <1>3, <1>4 DEF Angles
<1>6. Wired(x, f.qubits, f.qubits)
  BY WiredItself DEF IsPlain
<1>7. f.gate \in x.gates
  BY NamesKept
<1> HIDE DEF x
<1> QED
  BY <1>5, <1>6, <1>7 DEF Twin, IsPlain, x

LEMMA AlikeItself ==
  ASSUME NEW t, NEW c, Fed(c)
  PROVE  Alike(SameNames(t, c), c, c)
<1> DEFINE x == SameNames(t, c)
<1>1. Wired(x, c.qubits, c.qubits)
  BY WiredItself DEF Fed
<1>2. \A i \in 1 .. Len(c.params) : Turned(x, c.params[i], c.params[i])
  <2> SUFFICES ASSUME NEW i \in 1 .. Len(c.params) PROVE Turned(x, c.params[i], c.params[i])
    OBVIOUS
  <2>1. c.params[i].symbol \in x.symbols \cup {None}
    BY NamesKept
  <2> QED
    BY <2>1, TurnedItself DEF Fed
<1>3. Angles(x, c.params, c.params)
  BY <1>2 DEF Angles, Fed
<1>4. \A i \in 1 .. Len(c.factors) : Twin(x, c.factors[i], c.factors[i])
  <2> SUFFICES ASSUME NEW i \in 1 .. Len(c.factors) PROVE Twin(x, c.factors[i], c.factors[i])
    OBVIOUS
  <2>1. c.gate = "Custom" /\ IsPlain(c.factors[i]) /\ c.factors[i].gate \in ZyzGates
    BY DEF Fed
  <2>2. c.factors[i].gate \in GatesOut(t, c.gate)
    BY <2>1 DEF GatesOut
  <2> QED
    BY <2>1, <2>2, FactorItself
<1>5. Twins(x, c.factors, c.factors)
  BY <1>4 DEF Twins, Fed
<1> HIDE DEF x
<1> QED
  BY <1>1, <1>3, <1>5 DEF Alike, Fed, x

\* A gate a rule writes can be taken by the rules in its turn.
LEMMA TwinFed ==
  ASSUME NEW t, NEW c, NEW d, NEW e, Twin(SameNames(t, c), d, e)
  PROVE  Fed(UnderConditionOf(c, d)) /\ d.gate \in GatesOut(t, c.gate)
<1> DEFINE x == SameNames(t, c)
           u == UnderConditionOf(c, d)
<1>1. /\ u.gate = d.gate /\ u.qubits = d.qubits /\ u.params = d.params /\ u.factors = d.factors
  BY Fields DEF UnderConditionOf
<1>2. d.factors = <<>>
  BY MadeFields DEF Twin
<1>3. d.qubits \in Seq(Nat)
  BY NamesKept DEF Twin, Wired
<1>4. Listed(d.params) /\ \A i \in 1 .. Len(d.params) : IsLinear(d.params[i])
  BY DEF Twin, Angles, Turned, IsLinear
<1>5. d.gate \in GatesOut(t, c.gate) /\ HasShape(d) /\ (d.qubits = <<>> => d.gate = "GPhase")
  BY NamesKept DEF Twin
<1>6. HasShape(u) /\ HasOperands(u)
  BY <1>1, <1>5 DEF HasShape, HasOperands
<1>7. Listed(u.factors) /\ \A i \in 1 .. Len(u.factors) : FALSE
  <2>1. Listed(<<>>) /\ Len(<<>>) = 0
    BY ListedTuples
  <2> QED
    BY <1>1, <1>2, <2>1
<1> HIDE DEF u
<1> QED
  BY <1>1, <1>3, <1>4, <1>5, <1>6, <1>7 DEF Fed, u

\* What the rule for a command writes, and that the rules can take it.
LEMMA DecomposedFed ==
  ASSUME NEW t, IsTarget(t), NEW c, Fed(c), ~ StaysAsIs(t, c), ~ Refused(t, c)
  PROVE  /\ Listed(Decompose(t, c))
         /\ \A k \in DOMAIN Decompose(t, c) :
              /\ Fed(UnderConditionOf(c, Decompose(t, c)[k]))
              /\ Decompose(t, c)[k].gate \in GatesOut(t, c.gate)
<1> DEFINE x == SameNames(t, c)
           s == Decompose(t, c)
<1>1. Renaming(x) /\ Alike(x, c, c) /\ Writes(t, c.gate) \subseteq x.gates
  BY NamesKept, AlikeItself DEF GatesOut
<1> HIDE DEF x
<1>2. Twins(x, s, s)
  BY <1>1, DecomposeTwins
<1> HIDE DEF s
<1>3. Listed(s) /\ \A k \in 1 .. Len(s) : Twin(x, s[k], s[k])
  BY <1>2 DEF Twins
<1>4. \A k \in 1 .. Len(s) : Fed(UnderConditionOf(c, s[k])) /\ s[k].gate \in GatesOut(t, c.gate)
  BY <1>3, TwinFed DEF x
<1>5. DOMAIN s = 1 .. Len(s)
  BY <1>3, ListedLen
<1> QED
  BY <1>3, <1>4, <1>5 DEF s

\* A registered rule writes the gates it names.
LEMMA RegisteredWrites ==
  ASSUME NEW t, NEW c, Registers(t, c.gate)
  PROVE  /\ DOMAIN Decompose(t, c) = DOMAIN t.registered[c.gate]
         /\ \A k \in DOMAIN Decompose(t, c) : Decompose(t, c)[k].gate = t.registered[c.gate][k].gate
<1> DEFINE rule == t.registered[c.gate]
           q(k) == [i \in DOMAIN rule[k].on |-> c.qubits[rule[k].on[i]]]
           D == [k \in DOMAIN rule |-> On(rule[k].gate, q(k))]
<1>1. Decompose(t, c) = D
  BY DEF Decompose
<1>2. DOMAIN D = DOMAIN rule /\ \A k \in DOMAIN rule : D[k] = On(rule[k].gate, q(k))
  OBVIOUS
<1> HIDE DEF q, D
<1>3. \A k \in DOMAIN rule : On(rule[k].gate, q(k)).gate = rule[k].gate
  BY MadeFields DEF On
<1> QED
  BY <1>1, <1>2, <1>3

\* How many passes of a table the gates of a rule are from the end: every rule
\* writes gates nearer to it.
TableRank(rules, g) ==
  CASE g \in {"CS", "CSdg", "CSX", "CSXdg", "CU", "MCZ"} -> 6
    [] g \in {"U", "Custom", "SX", "SXdg", "CRx", "CRy", "CRz", "CP", "CH", "CSWAP"} -> 5
    [] g \in {"CY", "CZ", "CCX", "SWAP", "iSWAP", "iSWAPdg", "ECR", "RXX", "RYY"} -> 4
    [] rules = "clifford_t_rz" /\ g = "Ry" -> 4
    [] g \in {"Sdg", "Tdg"} -> 3
    [] rules = "multi_control" /\ g \in {"S", "T"} -> 3
    [] g \in {"P", "RZZ"} -> 2
    [] rules = "clifford_t_rz" /\ g = "Rx" -> 2
    [] rules = "multi_control" /\ g = "H" -> 2
    [] OTHER -> 1

Rank(t, g) == IF Registers(t, g) THEN 1 ELSE TableRank(t.rules, g)

LEMMA TableRankRange ==
  ASSUME NEW rules, NEW g
  PROVE  TableRank(rules, g) \in 1 .. 6
BY DEF TableRank

LEMMA RankRange ==
  ASSUME NEW t, NEW g
  PROVE  Rank(t, g) \in 1 .. 6
BY TableRankRange DEF Rank

MczGatesHere == {"X", "CX", "CCX", "CP", "Z", "CZ", "H"}

\* Every rule of the three tables leads nearer to the end, and writes gates of
\* GateType other than Custom.
LEMMA RanksFall ==
  ASSUME NEW t, NEW g \in Decomposable(t.rules), ~ Registers(t, g), NEW h \in GatesOut(t, g)
  PROVE  /\ TableRank(t.rules, h) < TableRank(t.rules, g)
         /\ h \in AllGates /\ h # "Custom"
<1> DEFINE r == t.rules
<1>1. h \in GatesWritten(g) \cup (IF g = "Custom" THEN ZyzGates ELSE {})
  BY DEF GatesOut, Writes
<1>2. MczGates = MczGatesHere
  BY DEF MczGates, McxGates, MczGatesHere
<1>3. g \in Decomposable(r)
  OBVIOUS
<1> HIDE DEF r
<1>4. h \in AllGates /\ h # "Custom"
  BY <1>1, <1>2 DEF GatesWritten, ZyzGates, MczGatesHere, AllGates, OneQubitRules, DroppedGates,
                    ControlledRotationRules, ControlledRules, PairRules
<1>5. TableRank(r, h) < TableRank(r, g)
  <2>1. CASE g \in {"CS", "CSdg", "CSX", "CSXdg", "CU", "MCZ"}
    <3>1. TableRank(r, g) = 6
      BY <2>1 DEF TableRank
    <3>2. h \in {"CP", "P", "CRx", "CX", "U"} \cup MczGatesHere
      BY <1>1, <1>2, <2>1 DEF GatesWritten
    <3>3. TableRank(r, h) \in 1 .. 5
      BY <3>2 DEF TableRank, MczGatesHere
    <3> QED
      BY <3>1, <3>3
  <2>2. CASE g \in {"U", "Custom", "SX", "SXdg", "CRx", "CRy", "CRz", "CP", "CH", "CSWAP"}
    <3>1. TableRank(r, g) = 5
      BY <2>2 DEF TableRank
    <3>2. h \in {"GPhase", "Rz", "Ry", "Rx", "H", "CX", "CCX"}
      BY <1>1, <2>2 DEF GatesWritten, ZyzGates
    <3>3. TableRank(r, h) \in 1 .. 4
      BY <3>2 DEF TableRank
    <3> QED
      BY <3>1, <3>3
  <2>3. CASE g \in {"CY", "CZ", "CCX", "SWAP", "iSWAP", "iSWAPdg", "ECR", "RXX", "RYY"}
    <3>1. TableRank(r, g) = 4
      BY <2>3 DEF TableRank
    <3>2. h \in {"Sdg", "CX", "S", "H", "T", "Tdg", "Rz", "X", "RZZ", "Rx"}
      BY <1>1, <2>3 DEF GatesWritten
    <3>3. TableRank(r, h) \in 1 .. 3
      BY <3>2 DEF TableRank
    <3> QED
      BY <3>1, <3>3
  <2>4. CASE g \in {"Rx", "Ry"}
    <3>1. r = "clifford_t_rz"
      BY <1>3, <2>4 DEF Decomposable, Overrides, PhaseKeptRules, OneQubitRules, DroppedGates,
                        ControlledRotationRules, ControlledRules, PairRules
    <3>2. h \in {"H", "Rz"} \cup (IF g = "Ry" THEN {"Sdg", "S"} ELSE {})
      BY <1>1, <2>4 DEF GatesWritten
    <3> QED
      BY <2>4, <3>1, <3>2 DEF TableRank
  <2>5. CASE g \in {"H", "S", "T"}
    <3>1. r = "multi_control"
      BY <1>3, <2>5 DEF Decomposable, Overrides, PhaseKeptRules, OneQubitRules, DroppedGates,
                        ControlledRotationRules, ControlledRules, PairRules
    <3>2. h \in {"Rz", "Ry", "GPhase"} \cup (IF g = "H" THEN {} ELSE {"P"})
      BY <1>1, <2>5 DEF GatesWritten
    <3> QED
      BY <2>5, <3>1, <3>2 DEF TableRank
  <2>6. CASE g \in {"Sdg", "Tdg"}
    BY <1>1, <2>6 DEF GatesWritten, TableRank
  <2>7. CASE g = "P"
    BY <1>1, <2>7 DEF GatesWritten, TableRank
  <2>8. CASE g = "RZZ"
    BY <1>1, <2>8 DEF GatesWritten, TableRank
  <2>9. CASE g \in DroppedGates
    BY <1>1, <2>9 DEF GatesWritten, DroppedGates
  <2> QED
    BY <1>3, <2>1, <2>2, <2>3, <2>4, <2>5, <2>6, <2>7, <2>8, <2>9
    DEF Decomposable, Overrides, PhaseKeptRules, OneQubitRules, ControlledRotationRules, ControlledRules,
        PairRules
<1> QED
  BY <1>4, <1>5 DEF r

\* A command of a stream that is on its way into the target after n passes.
OnItsWay(t, c, n) ==
  \/ StaysAsIs(t, c)
  \/ /\ c.gate \in AllGates /\ Rank(t, c.gate) + n =< 6
     /\ c.gate = "Custom" => Len(c.qubits) =< 1

\* The target has no gap, and the rules registered for it stay in it.
Covered(t) ==
  /\ Unreachable(t) = {}
  /\ \A g \in DOMAIN t.registered \ t.allowed : \A k \in DOMAIN t.registered[g] :
       StaysAsIs(t, t.registered[g][k])

LEMMA JustOne ==
  ASSUME NEW m \in Nat, m # 0, m =< 1
  PROVE  m = 1
OBVIOUS

LEMMA OnItsWayTaken ==
  ASSUME NEW t, Covered(t), NEW c, Fed(c), NEW n, OnItsWay(t, c, n)
  PROVE  ~ Refused(t, c)
<1> SUFFICES ASSUME ~ StaysAsIs(t, c), ~ Registers(t, c.gate)
             PROVE  /\ c.gate \in Decomposable(t.rules)
                    /\ c.gate = "Custom" => Len(c.qubits) = 1
  BY DEF Refused
<1>1. c.gate \in AllGates /\ (c.gate = "Custom" => Len(c.qubits) =< 1)
  BY DEF OnItsWay
<1>2. c.gate \in Decomposable(t.rules)
  <2>1. CASE c.gate = "Custom"
    BY <2>1 DEF Decomposable, OneQubitRules
  <2>2. CASE c.gate # "Custom"
    BY <1>1, <2>2 DEF Covered, Unreachable, StaysAsIs, Registers
  <2> QED
    BY <2>1, <2>2
<1>3. ASSUME c.gate = "Custom" PROVE Len(c.qubits) = 1
  <2>1. c.qubits # <<>>
    BY <1>3 DEF Fed, HasOperands, Markers
  <2>2. c.qubits \in Seq(Nat)
    BY DEF Fed
  <2>3. Len(c.qubits) \in Nat /\ Len(c.qubits) # 0
    BY <2>1, <2>2
  <2>4. Len(c.qubits) =< 1
    BY <1>1, <1>3
  <2> QED
    BY <2>3, <2>4, JustOne
<1> QED
  BY <1>2, <1>3

\* One pass brings a command a step nearer to the target.
LEMMA WrittenOnItsWay ==
  ASSUME NEW t, Covered(t), NEW c, Fed(c), NEW n \in Nat, OnItsWay(t, c, n), ~ StaysAsIs(t, c),
         NEW k \in DOMAIN Decompose(t, c), Decompose(t, c)[k].gate \in GatesOut(t, c.gate),
         NEW d, d.gate = Decompose(t, c)[k].gate
  PROVE  OnItsWay(t, d, n + 1)
<1>1. CASE Registers(t, c.gate)
  <2>1. StaysAsIs(t, t.registered[c.gate][k])
    <3>1. c.gate \in DOMAIN t.registered \ t.allowed
      BY <1>1 DEF Registers, StaysAsIs
    <3> QED
      BY <1>1, <3>1, RegisteredWrites DEF Covered
  <2>2. d.gate = t.registered[c.gate][k].gate
    BY <1>1, RegisteredWrites
  <2> QED
    BY <2>1, <2>2 DEF OnItsWay, StaysAsIs
<1>2. CASE ~ Registers(t, c.gate)
  <2>1. ~ Refused(t, c)
    BY OnItsWayTaken
  <2>2. c.gate \in Decomposable(t.rules)
    BY <1>2, <2>1 DEF Refused
  <2>3. /\ TableRank(t.rules, d.gate) < TableRank(t.rules, c.gate)
        /\ d.gate \in AllGates /\ d.gate # "Custom"
    BY <1>2, <2>2, RanksFall
  <2>4. Rank(t, c.gate) + n =< 6 /\ Rank(t, c.gate) = TableRank(t.rules, c.gate)
    BY <1>2 DEF OnItsWay, Rank
  <2>5. /\ TableRank(t.rules, d.gate) \in 1 .. 6 /\ TableRank(t.rules, c.gate) \in 1 .. 6
        /\ Rank(t, d.gate) \in 1 .. 6
    BY TableRankRange, RankRange
  <2>6. Rank(t, d.gate) = 1 \/ Rank(t, d.gate) = TableRank(t.rules, d.gate)
    BY DEF Rank
  <2>7. Rank(t, d.gate) + (n + 1) =< 6
    BY <2>3, <2>4, <2>5, <2>6
  <2> QED
    BY <2>3, <2>7 DEF OnItsWay
<1> QED
  BY <1>1, <1>2

\* The stream of transpile_uncached_ after n passes: commands the rules can
\* take, and where nothing keeps them out of the target, on their way into it.
FedStream(s) == Listed(s) /\ \A i \in DOMAIN s : Fed(s[i])

OnTheWay(t, s, n) == \A i \in DOMAIN s : OnItsWay(t, s[i], n)

LEMMA PassFed ==
  ASSUME NEW t, IsTarget(t), NEW s, FedStream(s), \A i \in DOMAIN s : ~ Refused(t, s[i])
  PROVE  /\ FedStream(RebasePass(t, s))
         /\ \A m \in DOMAIN RebasePass(t, s) : \E i \in DOMAIN s :
              \/ StaysAsIs(t, s[i]) /\ RebasePass(t, s)[m] = s[i]
              \/ /\ ~ StaysAsIs(t, s[i])
                 /\ \E k \in DOMAIN Decompose(t, s[i]) :
                      /\ RebasePass(t, s)[m].gate = Decompose(t, s[i])[k].gate
                      /\ Decompose(t, s[i])[k].gate \in GatesOut(t, s[i].gate)
<1> DEFINE ss == [i \in DOMAIN s |-> Lowered(t, s[i])]
           u == RebasePass(t, s)
<1>1. ss = [i \in DOMAIN s |-> ss[i]] /\ \A i \in DOMAIN s : ss[i] = Lowered(t, s[i])
  OBVIOUS
<1>2. u = FlattenSeq(ss)
  BY DEF RebasePass
<1> HIDE DEF ss, u
<1>3. Listed(ss) /\ DOMAIN ss = DOMAIN s
  BY <1>1, MappedListed DEF FedStream
<1>4. ASSUME NEW i \in DOMAIN s
      PROVE  /\ Listed(ss[i])
             /\ \A j \in DOMAIN ss[i] :
                  \/ StaysAsIs(t, s[i]) /\ ss[i][j] = s[i]
                  \/ /\ ~ StaysAsIs(t, s[i]) /\ Fed(ss[i][j])
                     /\ \E k \in DOMAIN Decompose(t, s[i]) :
                          /\ ss[i][j].gate = Decompose(t, s[i])[k].gate
                          /\ Decompose(t, s[i])[k].gate \in GatesOut(t, s[i].gate)
  <2> DEFINE c == s[i]
             l == Lowered(t, c)
  <2>1. Fed(c) /\ ~ Refused(t, c) /\ ss[i] = l
    BY <1>1 DEF FedStream
  <2> HIDE DEF c
  <2>2. CASE StaysAsIs(t, c)
    <3> DEFINE one == <<c>>
    <3>1. l = one
      BY <2>2, LoweredForm
    <3>2. Listed(one) /\ \A j \in DOMAIN one : one[j] = c
      BY OneListed
    <3> HIDE DEF one, l
    <3> QED
      BY <2>1, <2>2, <3>1, <3>2 DEF c
  <2>3. CASE ~ StaysAsIs(t, c)
    <3>1. /\ Listed(Decompose(t, c))
          /\ \A k \in DOMAIN Decompose(t, c) :
               /\ Fed(UnderConditionOf(c, Decompose(t, c)[k]))
               /\ Decompose(t, c)[k].gate \in GatesOut(t, c.gate)
      BY <2>1, <2>3, DecomposedFed
    <3>2. /\ Listed(l) /\ DOMAIN l = DOMAIN Decompose(t, c)
          /\ \A k \in DOMAIN Decompose(t, c) : l[k] = UnderConditionOf(c, Decompose(t, c)[k])
      BY <2>3, <3>1, LoweredForm
    <3> HIDE DEF l
    <3>3. \A k \in DOMAIN l : l[k].gate = Decompose(t, c)[k].gate
      BY <3>2, UnderFields
    <3> QED
      BY <2>1, <2>3, <3>1, <3>2, <3>3 DEF c
  <2> QED
    BY <2>2, <2>3
<1>5. /\ Listed(u)
      /\ \A m \in DOMAIN u : \E i \in DOMAIN ss : \E j \in DOMAIN ss[i] : u[m] = ss[i][j]
  <2>1. \A i \in DOMAIN ss : Listed(ss[i])
    BY <1>3, <1>4
  <2> QED
    BY <1>2, <1>3, <2>1, FlattenElements
<1>6. ASSUME NEW m \in DOMAIN u
      PROVE  /\ Fed(u[m])
             /\ \E i \in DOMAIN s :
                  \/ StaysAsIs(t, s[i]) /\ u[m] = s[i]
                  \/ /\ ~ StaysAsIs(t, s[i])
                     /\ \E k \in DOMAIN Decompose(t, s[i]) :
                          /\ u[m].gate = Decompose(t, s[i])[k].gate
                          /\ Decompose(t, s[i])[k].gate \in GatesOut(t, s[i].gate)
  <2>1. PICK i \in DOMAIN ss : \E j \in DOMAIN ss[i] : u[m] = ss[i][j]
    BY <1>5
  <2>2. PICK j \in DOMAIN ss[i] : u[m] = ss[i][j]
    BY <2>1
  <2>3. i \in DOMAIN s /\ Fed(s[i])
    BY <1>3 DEF FedStream
  <2>4. \/ StaysAsIs(t, s[i]) /\ u[m] = s[i]
        \/ /\ ~ StaysAsIs(t, s[i]) /\ Fed(u[m])
           /\ \E k \in DOMAIN Decompose(t, s[i]) :
                /\ u[m].gate = Decompose(t, s[i])[k].gate
                /\ Decompose(t, s[i])[k].gate \in GatesOut(t, s[i].gate)
    BY <1>4, <2>2, <2>3
  <2> QED
    BY <2>3, <2>4
<1> QED
  BY <1>5, <1>6 DEF FedStream, u

\* A pass over a stream in the target changes nothing the target looks at.
LEMMA PassStays ==
  ASSUME NEW t, IsTarget(t), NEW s, FedStream(s), InTarget(t, s)
  PROVE  InTarget(t, RebasePass(t, s))
<1>1. \A i \in DOMAIN s : ~ Refused(t, s[i]) /\ StaysAsIs(t, s[i])
  BY DEF InTarget, Refused
<1> QED
  BY <1>1, PassFed DEF InTarget

LEMMA PassOnTheWay ==
  ASSUME NEW t, IsTarget(t), Covered(t), NEW s, FedStream(s), NEW n \in Nat, OnTheWay(t, s, n),
         \A i \in DOMAIN s : ~ Refused(t, s[i])
  PROVE  OnTheWay(t, RebasePass(t, s), n + 1)
<1> DEFINE u == RebasePass(t, s)
<1> HIDE DEF u
<1> SUFFICES ASSUME NEW m \in DOMAIN u PROVE OnItsWay(t, u[m], n + 1)
  BY DEF OnTheWay, u
<1>1. PICK i \in DOMAIN s :
        \/ StaysAsIs(t, s[i]) /\ u[m] = s[i]
        \/ /\ ~ StaysAsIs(t, s[i])
           /\ \E k \in DOMAIN Decompose(t, s[i]) :
                /\ u[m].gate = Decompose(t, s[i])[k].gate
                /\ Decompose(t, s[i])[k].gate \in GatesOut(t, s[i].gate)
  BY PassFed DEF u
<1>2. CASE StaysAsIs(t, s[i]) /\ u[m] = s[i]
  BY <1>2 DEF OnItsWay
<1>3. CASE ~ (StaysAsIs(t, s[i]) /\ u[m] = s[i])
  <2>1. ~ StaysAsIs(t, s[i])
    BY <1>1, <1>3
  <2>2. PICK k \in DOMAIN Decompose(t, s[i]) :
          /\ u[m].gate = Decompose(t, s[i])[k].gate
          /\ Decompose(t, s[i])[k].gate \in GatesOut(t, s[i].gate)
    BY <1>1, <1>3
  <2>3. Fed(s[i]) /\ OnItsWay(t, s[i], n)
    BY DEF FedStream, OnTheWay
  <2> QED
    BY <2>1, <2>2, <2>3, WrittenOnItsWay
<1> QED
  BY <1>2, <1>3

=============================================================================
