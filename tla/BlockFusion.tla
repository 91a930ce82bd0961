----------------------------- MODULE BlockFusion -----------------------------
(***************************************************************************)
(* fuse_for_simulation (simulator/fusion.cpp): one scan folds gates into   *)
(* open blocks of at most MaxFused qubits.  A gate may join any open block *)
(* that no later block has overtaken on the gate's wires; a command that   *)
(* cannot fold first sends out the open blocks that must precede it.       *)
(*                                                                         *)
(* A step handles one command or sends out one block.  A block is a        *)
(* sequence of positions of the source; done holds the blocks and the      *)
(* unfolded commands in the order they were sent out.                      *)
(***************************************************************************)
EXTENDS Gates

CONSTANT MaxFused

ASSUME MaxFusedAssumption == MaxFused \in Nat \ {0}

VARIABLES
  source,   \* the commands, concrete
  at,       \* the position of the command at hand
  open,     \* the open blocks
  front,    \* the newest block or command on each wire, 0 for none
  nextId,
  done

fuseVars == <<source, at, open, front, nextId, done>>

\* wires_of: qubits, and the bits a command reads or writes.
WiresOf(c) ==
  {<<"qubit", q>> : q \in Operands(c)} \cup {<<"cbit", b>> : b \in c.bits}

AllWires(s) == UNION {WiresOf(s[i]) : i \in DOMAIN s}

FencesAll(c) == c.gate \in Markers \/ IsFence(c)

\* is_fusible: a concrete gate on few enough qubits.
IsFusible(c) ==
  /\ c.qubits # <<>> /\ Len(c.qubits) =< MaxFused
  /\ c.gate \notin Markers \cup {"Barrier", "Measure", "Reset", "GPhase"}
  /\ \A k \in DOMAIN c.params : IsConcrete(c.params[k])

\* can_join: wider than two qubits only around a shared one.
CanJoin(qubits, c) ==
  LET fresh == Operands(c) \ qubits
      width == Cardinality(qubits \cup Operands(c))
  IN \/ fresh = {}
     \/ width =< MaxFused /\ (Operands(c) \cap qubits # {} \/ width =< 2)

\* The blocks c may fold into, and the newest of them.
Joinable(c) ==
  {b \in open :
     /\ b.cond = c.cond
     /\ CanJoin(b.qubits, c)
     /\ \A w \in WiresOf(c) : front[w] =< b.id}

IsNewest(b, blocks) == b \in blocks /\ \A o \in blocks : o.id =< b.id

\* Mutant of MustPrecede: only the blocks on the wires themselves.
OnTheWires(ws) == {b \in open : b.wires \cap ws # {}}

\* flush_wires: the open blocks that must precede a command on wires ws, the
\* least set with those on the wires and, with each block, the earlier ones
\* that share a wire with it.
ClosedFor(M, ws) ==
  /\ \A b \in open : b.wires \cap ws # {} => b \in M
  /\ \A b \in M, a \in open : a.id < b.id /\ a.wires \cap b.wires # {} => a \in M

MustPrecede(ws) == {b \in open : \A M \in SUBSET open : ClosedFor(M, ws) => b \in M}

\* What the command at hand, or the end of the source, sends out first.
ToFlush ==
  IF at > Len(source) \/ FencesAll(source[at]) THEN open
  ELSE IF source[at].gate = "GPhase" \/ IsFusible(source[at]) THEN {}
  ELSE MustPrecede(WiresOf(source[at]))

Stamp(ws, id) == [w \in DOMAIN front |-> IF w \in ws THEN id ELSE front[w]]

FuseInit ==
  /\ at = 1
  /\ open = {}
  /\ front = [w \in AllWires(source) |-> 0]
  /\ nextId = 1
  /\ done = <<>>

\* A call on s begins.
FuseStart(s) ==
  /\ source' = s
  /\ at' = 1
  /\ open' = {}
  /\ front' = [w \in AllWires(s) |-> 0]
  /\ nextId' = 1
  /\ done' = <<>>

EmitBlock ==
  /\ \E b \in ToFlush :
       /\ \A o \in ToFlush : b.id =< o.id
       /\ open' = open \ {b}
       /\ done' = Append(done, b.gates)
  /\ UNCHANGED <<source, at, front, nextId>>

\* A command that stays in place; all but the scalar and the full fences
\* stamp their wires with an id of their own.
Place ==
  /\ at =< Len(source) /\ ToFlush = {}
  /\ ~ IsFusible(source[at])
  /\ done' = Append(done, <<at>>)
  /\ at' = at + 1
  /\ IF source[at].gate = "GPhase" \/ FencesAll(source[at])
     THEN UNCHANGED <<front, nextId>>
     ELSE front' = Stamp(WiresOf(source[at]), nextId) /\ nextId' = nextId + 1
  /\ UNCHANGED <<source, open>>

OpenBlock ==
  /\ at =< Len(source)
  /\ IsFusible(source[at]) /\ Joinable(source[at]) = {}
  /\ open' = open \cup
       {[id |-> nextId, qubits |-> Operands(source[at]), wires |-> WiresOf(source[at]),
         gates |-> <<at>>, cond |-> source[at].cond]}
  /\ front' = Stamp(WiresOf(source[at]), nextId)
  /\ nextId' = nextId + 1
  /\ at' = at + 1
  /\ UNCHANGED <<source, done>>

Fold ==
  /\ at =< Len(source) /\ IsFusible(source[at])
  /\ \E b \in Joinable(source[at]) :
       /\ IsNewest(b, Joinable(source[at]))
       /\ open' = (open \ {b}) \cup
            {[b EXCEPT !.qubits = @ \cup Operands(source[at]),
                       !.wires  = @ \cup WiresOf(source[at]),
                       !.gates  = Append(@, at)]}
       /\ front' = Stamp(WiresOf(source[at]), b.id)
  /\ at' = at + 1
  /\ UNCHANGED <<source, nextId, done>>

FuseNext == EmitBlock \/ Place \/ OpenBlock \/ Fold

Fused == at > Len(source) /\ open = {}

\* What the factories of Command guarantee: only a Measure writes bits, and a
\* global phase has no qubits.
FactoryMade(s) ==
  /\ s \in Seq(Range(s))
  /\ \A i \in DOMAIN s :
       /\ Range(s[i].cbits) \subseteq s[i].bits
       /\ s[i].gate # "Measure" => s[i].cbits = <<>>
       /\ s[i].gate = "GPhase" => s[i].qubits = <<>>

\* One call.
FuseSpec == FactoryMade(source) /\ FuseInit /\ [][FuseNext]_fuseVars

------------------------------------------------------------------------------
\* Two commands whose order the program may depend on.
Conflict(c, d) ==
  \/ Operands(c) \cap Operands(d) # {}
  \/ Range(c.cbits) \cap d.bits # {} \/ Range(d.cbits) \cap c.bits # {}
  \/ FencesAll(c) \/ FencesAll(d)

\* Of two conflicting commands the later is never sent out first, nor ahead
\* of the other inside a block.
SentInOrder ==
  /\ \A m, n \in DOMAIN done : m < n =>
       \A k \in DOMAIN done[m], l \in DOMAIN done[n] :
         Conflict(source[done[m][k]], source[done[n][l]]) => done[m][k] < done[n][l]
  /\ \A m \in DOMAIN done : \A k, l \in DOMAIN done[m] :
       k < l => done[m][k] < done[m][l]

=============================================================================
