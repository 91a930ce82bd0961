----------------------------- MODULE BlockTree -----------------------------
(***************************************************************************)
(* How circuits are composed: the Python blocks (blocks/_block.py and      *)
(* _composite_block.py) over the tree of their C++ bases (src/block).      *)
(* set_symbols, replace_symbols and dagger only queue an operation on the  *)
(* block; it is applied when the block is flattened, or baked into a shell *)
(* when the block is wired into a parent.  A child's classical bits are    *)
(* shifted past those of its earlier siblings, unless target_cbits places  *)
(* them.                                                                   *)
(*                                                                         *)
(* The user works on a shelf of variables.  Next to each block stands what *)
(* it is meant to be: the stream one gets by carrying out every operation  *)
(* at once.  A block is a tree by value: the user leaves a block alone     *)
(* once it is handed to another.                                           *)
(***************************************************************************)
EXTENDS Integers, SequencesExt

CONSTANTS
  NQubits,        \* width of every block
  Symbols, Values, NoAngle,
  Programs,       \* command buffers of the simple blocks
  Conditions,     \* the bits a conditional reads
  Placements, Aliases, \* the values target_qubits and target_cbits are given
  Slots,          \* the user's variables
  MaxCommands,    \* bound on the length of a block's stream
  MaxDepth,       \* bound on the nesting of blocks
  MaxRenames,     \* bound on the queued renames of a block
  BakedAliases    \* whether a block is wired with both an alias and a queue

VARIABLES
  shelf,          \* the block in each variable, as <<block>>, or <<>>
  meant           \* what it is meant to be
vars == <<shelf, meant>>

None == <<>>
Some(x) == <<x>>
Unbound == [x \in {} |-> x]

-----------------------------------------------------------------------------
(* Streams: rotations by a symbol or a value, measurements, branch markers. *)

BitsOf(cmds) == {cmds[i].bit : i \in DOMAIN cmds} \ {-1}

\* cbit_register_width
Width(cmds) == Max({0} \cup {b + 1 : b \in BitsOf(cmds)})

\* remap_qubits
RemapQubits(cmds, map) ==
  [i \in DOMAIN cmds |->
     IF cmds[i].qubit = -1 THEN cmds[i]
     ELSE [cmds[i] EXCEPT !.qubit = map[@ + 1]]]

\* cbit_remap_in_place throws for a bit past the mapping.
RemapBits(cmds, map) ==
  [i \in DOMAIN cmds |->
     IF cmds[i].bit = -1 THEN cmds[i]
     ELSE IF cmds[i].bit >= Len(map) THEN [cmds[i] EXCEPT !.gate = "out_of_range"]
     ELSE [cmds[i] EXCEPT !.bit = map[@ + 1]]]

Throws(cmds) == \E i \in DOMAIN cmds : cmds[i].gate = "out_of_range"

\* A symbol or a value, negated or not; substitute and rename_symbols look at
\* the symbol alone.
MapAngles(cmds, f) ==
  [i \in DOMAIN cmds |->
     IF cmds[i].angle \in DOMAIN f THEN [cmds[i] EXCEPT !.angle = f[@]] ELSE cmds[i]]

Adjoint(c) == IF c.gate = "R" THEN [c EXCEPT !.negated = ~@] ELSE c

\* The end of the region opened at the head of cmds.
RegionEnd(cmds) ==
  CHOOSE e \in DOMAIN cmds :
    LET Opened(k) == Cardinality({j \in 1 .. k : cmds[j].gate = "BranchBegin"})
                       - Cardinality({j \in 1 .. k : cmds[j].gate = "BranchEnd"})
    IN Opened(e) = 0 /\ \A k \in 1 .. e - 1 : Opened(k) > 0

\* _dagger_commands: a branch region is one item.
RECURSIVE DaggerCommands(_)
DaggerCommands(cmds) ==
  IF cmds = <<>> THEN <<>>
  ELSE IF Head(cmds).gate # "BranchBegin"
  THEN Append(DaggerCommands(Tail(cmds)), Adjoint(Head(cmds)))
  ELSE LET e == RegionEnd(cmds) IN
       DaggerCommands(SubSeq(cmds, e + 1, Len(cmds)))
         \o <<Head(cmds)>> \o DaggerCommands(SubSeq(cmds, 2, e - 1)) \o <<cmds[e]>>

\* uninitialised_condition_cbits
Uninitialised(cmds) ==
  {cmds[i].bit : i \in {j \in DOMAIN cmds :
     /\ cmds[j].gate = "BranchBegin"
     /\ \A k \in 1 .. j - 1 : cmds[k].gate = "Measure" => cmds[k].bit # cmds[j].bit}}

Marker(gate, bit) ==
  [gate |-> gate, qubit |-> -1, bit |-> bit, angle |-> NoAngle, negated |-> FALSE]

InBranch(bit, cmds) == <<Marker("BranchBegin", bit)>> \o cmds \o <<Marker("BranchEnd", -1)>>

-----------------------------------------------------------------------------
(* The C++ tree.                                                           *)

\* Where a placed block's stream goes in the frame of its parent.
OnQubits(cmds, map) == IF map = None THEN cmds ELSE RemapQubits(cmds, map[1])
OnBits(cmds, map) == IF map = None THEN cmds ELSE RemapBits(cmds, map[1])
Placed(cmds, b) == OnBits(OnQubits(cmds, b.target_qubits), b.target_cbits)

\* The bits of the children before the i-th that take their own range.
Offset(widths, i) ==
  FoldLeft(LAMBDA sum, k : sum + widths[k], 0, [k \in 1 .. i - 1 |-> k])

OwnWidth(c) == IF c.target_cbits = None THEN c.n_cbits ELSE 0
OwnWidths(b) == [i \in DOMAIN b.children |-> OwnWidth(b.children[i])]

Shifted(cmds, width, offset) == RemapBits(cmds, [k \in 1 .. width |-> offset + k - 1])

RECURSIVE CppFlatten(_)

\* The stream of each child of a composite, in the composite's frame.
Parts(b) ==
  [i \in DOMAIN b.children |->
     LET c == b.children[i] IN
     IF OwnWidth(c) > 0
     THEN Shifted(CppFlatten(c), c.n_cbits, Offset(OwnWidths(b), i))
     ELSE CppFlatten(c)]

CppFlatten(b) ==
  Placed(CASE b.kind = "Simple"      -> b.commands
           [] b.kind = "Conditional" -> InBranch(b.condition, CppFlatten(b.children[1]))
           [] b.kind = "Composite"   -> FlattenSeq(Parts(b)),
         b)

\* CompositeBlock::resolve_cbits
ResolveCbits(b) ==
  IF b.n_cbits > 0 THEN b.n_cbits
  ELSE Max({Offset(OwnWidths(b), Len(b.children) + 1)} \cup
           UNION {{t + 1 : t \in ToSet(b.children[i].target_cbits[1])} :
                    i \in {j \in DOMAIN b.children : b.children[j].target_cbits # None}})

-----------------------------------------------------------------------------
(* The Python wrapper: queued operations.                                  *)

IsPending(b) == b.bound # Unbound \/ b.renames # <<>> \/ b.is_dagger

\* flatten: every rename, then every binding, then the dagger.
Daggered(cmds, is_dagger) == IF is_dagger THEN DaggerCommands(cmds) ELSE cmds
Flatten(b) ==
  Daggered(MapAngles(FoldLeft(MapAngles, CppFlatten(b), b.renames), b.bound), b.is_dagger)

SymbolsOf(cmds) == {cmds[i].angle : i \in DOMAIN cmds} \cap Symbols

\* free_symbols: a composite that is not built has none yet.
FreeSymbols(b) ==
  LET raw == IF b.built THEN SymbolsOf(CppFlatten(b)) ELSE SymbolsOf(b.commands)
      Rename(names, r) == {IF s \in DOMAIN r THEN r[s] ELSE s : s \in names}
  IN FoldLeft(Rename, raw, b.renames) \ DOMAIN b.bound

\* set_symbols: a later binding of a symbol wins.
RECURSIVE SetSymbols(_, _)
SetSymbols(b, s) ==
  [b EXCEPT !.bound = s @@ @,
            !.symbols = {names \ DOMAIN s : names \in @},
            !.blocks = [i \in DOMAIN @ |-> SetSymbols(@[i], s)]]

\* replace_symbols: what was bound stays bound under the new name.
RECURSIVE ReplaceSymbols(_, _)
ReplaceSymbols(b, r) ==
  LET New(s) == IF s \in DOMAIN r THEN r[s] ELSE s
      rebound == [t \in {New(s) : s \in DOMAIN b.bound} |->
                    b.bound[CHOOSE s \in DOMAIN b.bound : New(s) = t]]
  IN [b EXCEPT !.bound = rebound,
               !.renames = Append(@, r),
               !.symbols = {{New(s) : s \in names} : names \in @},
               !.blocks = [i \in DOMAIN @ |-> ReplaceSymbols(@[i], r)]]

Dagger(b) == [b EXCEPT !.is_dagger = ~@]

-----------------------------------------------------------------------------
(* Building, and wiring into a parent.                                     *)

New(kind) ==
  [kind |-> kind, commands |-> <<>>, condition |-> -1, children |-> <<>>,
   built |-> FALSE, n_cbits |-> 0, target_qubits |-> None, target_cbits |-> None,
   blocks |-> <<>>, n_wired |-> 0, symbols |-> {}, bound |-> Unbound,
   renames |-> <<>>, is_dagger |-> FALSE]

PublishRaw(b) ==
  IF b.symbols # {} THEN b ELSE [b EXCEPT !.symbols = {SymbolsOf(CppFlatten(b))}]

\* _publish_symbols
Publish(b) == IF b.symbols # {} THEN b ELSE [b EXCEPT !.symbols = {FreeSymbols(b)}]

Identity == [q \in 1 .. NQubits |-> q - 1]

\* _finalize, on a block whose C++ side is built.
Finalize(b) ==
  Publish([b EXCEPT !.target_qubits = IF @ = None THEN Some(Identity) ELSE @])

MaterialisePlaced(b) ==
  IF ~IsPending(b) THEN b
  ELSE Publish([New("Simple") EXCEPT
         !.commands = Flatten(b),
         !.built = TRUE, !.n_cbits = b.n_cbits, !.target_qubits = b.target_qubits])

\* _materialise_pending_ops: the operations are baked into a shell, in the
\* block's own frame of qubits.
Materialise(b) ==
  IF ~IsPending(b) THEN b
  ELSE Publish([New("Simple") EXCEPT
         !.commands = Flatten([b EXCEPT !.target_qubits = Some(Identity)]),
         !.built = TRUE, !.n_cbits = b.n_cbits, !.target_qubits = b.target_qubits])

Raise(b) == [block |-> b, raised |-> TRUE]
Return(b) == [block |-> b, raised |-> FALSE]

\* _post_build_check
Offenders(b) ==
  {i \in DOMAIN b.children :
     LET c == b.children[i] IN
     c.target_cbits = None /\ c.kind # "Composite" /\ Uninitialised(Flatten(c)) # {}}

RECURSIVE Build(_)

\* add_wired_child, for the i-th of the queue and what building it gave.
Wired(b, i, child) ==
  IF child.raised THEN Raise([b EXCEPT !.blocks[i] = child.block])
  ELSE Return([b EXCEPT !.blocks[i] = child.block,
                        !.children = Append(@, Materialise(child.block))])

Wire(r, i) == IF r.raised THEN r ELSE Wired(r.block, i, Build(r.block.blocks[i]))

\* CompositeBlock.build_vanilla
WireQueue(b) ==
  FoldLeft(Wire, Return(b), [k \in 1 .. Len(b.blocks) - b.n_wired |-> b.n_wired + k])

Check(cpp) ==
  IF Throws(CppFlatten(cpp)) \/ Offenders(cpp) # {} THEN Raise(cpp)
  ELSE Return(Finalize(cpp))

CheckWired(r) ==
  IF r.raised THEN r
  ELSE Check([r.block EXCEPT !.n_wired = Len(r.block.blocks),
                             !.n_cbits = ResolveCbits(r.block), !.built = TRUE])

BuildComposite(b) == CheckWired(WireQueue(b))

Build(b) ==
  IF b.built THEN Return(b)
  ELSE CASE b.kind = "Simple" ->
              Return(Finalize([b EXCEPT !.n_cbits = Max({@, Width(b.commands)}), !.built = TRUE]))
         [] b.kind = "Conditional" -> Return(Finalize([b EXCEPT !.built = TRUE]))
         [] b.kind = "Composite" -> BuildComposite(b)

\* ConditionalBlock.__init__
Conditional(bit, body) ==
  [New("Conditional") EXCEPT
     !.condition = bit, !.children = <<body>>, !.n_cbits = Max({body.n_cbits, bit + 1})]

-----------------------------------------------------------------------------
(* plan_structure (qarp/_program.py): the engine lowers a composite that is *)
(* not built from the children it will wire.                               *)

NeedsTrajectory(cmd) == cmd.gate \in {"Measure", "BranchBegin", "BranchEnd"}

ComposedDespiteQueue(b) == b.kind = "Composite" /\ ~b.built

\* _composition
Composed(b) == b.kind = "Composite" /\ ~b.built /\ ~IsPending(b)

\* _owns_cbits
OwnsCbits(b) == OwnWidth(b) > 0

Declined == [entries |-> <<>>, owners |-> {}, planned |-> FALSE]

\* More streams, each placed on the composite's qubits, and after how many
\* streams a part ends that takes bits of its own.
Entered(b, plan, inner, owns) ==
  LET before == Len(plan.entries)
      after  == before + Len(inner.entries)
  IN [planned |-> TRUE,
      entries |-> plan.entries \o [i \in DOMAIN inner.entries |->
                                     OnQubits(inner.entries[i], b.target_qubits)],
      owners  |-> plan.owners \cup {before + o : o \in inner.owners}
                    \cup (IF owns THEN {after} ELSE {})]

RECURSIVE Collect(_)

CollectComposed(b, plan, part, inner) ==
  IF inner.planned THEN Entered(b, plan, inner, OwnsCbits(part)) ELSE Declined

CollectStream(b, plan, part, stream) ==
  IF SymbolsOf(stream) # {} THEN Declined
  ELSE Entered(b, plan, [entries |-> <<stream>>, owners |-> {}], OwnsCbits(part))

CollectBuilt(b, plan, part) ==
  IF part.raised THEN Declined
  ELSE CollectStream(b, plan, part.block, Flatten(part.block))

CollectPart(b, plan, part) ==
  IF ~plan.planned THEN plan
  ELSE IF Composed(part) THEN CollectComposed(b, plan, part, Collect(part))
  ELSE CollectBuilt(b, plan, Build(part))

\* _collect_parts
Collect(b) ==
  IF b.target_cbits # None THEN Declined
  ELSE FoldLeft(LAMBDA plan, part : CollectPart(b, plan, part),
                [Declined EXCEPT !.planned = TRUE], b.blocks)

\* Only the last part may take bits, or measure.
Plans(b, plan) ==
  /\ plan.planned /\ plan.entries # <<>>
  /\ b.target_qubits \in {None, Some(Identity)}
  /\ plan.owners \subseteq {Len(plan.entries)}
  /\ \A i \in 1 .. Len(plan.entries) - 1 :
       \A k \in DOMAIN plan.entries[i] : ~NeedsTrajectory(plan.entries[i][k])

-----------------------------------------------------------------------------
(* What a block is meant to be.                                            *)

Meaning(stream, width) ==
  [stream |-> stream, width |-> width, used |-> width,
   target_qubits |-> None, target_cbits |-> None]

\* A composition, with one more part: on the bits its alias names, or else on
\* bits of its own.
WithPart(m, part) ==
  IF part.target_cbits = None
  THEN [m EXCEPT !.stream = @ \o Shifted(Placed(part.stream, part), part.width, m.used),
                 !.used = @ + part.width,
                 !.width = Max({@, m.used + part.width})]
  ELSE [m EXCEPT !.stream = @ \o Placed(part.stream, part),
                 !.width = Max({@} \cup {t + 1 : t \in ToSet(part.target_cbits[1])})]

Composition(parts) == FoldLeft(WithPart, Meaning(<<>>, 0), parts)

Meant(s) == Placed(meant[s][1].stream, meant[s][1])

-----------------------------------------------------------------------------
(* The user.                                                               *)

Init == shelf = [s \in Slots |-> None] /\ meant = shelf

Put(s, b, m) ==
  /\ shelf' = [shelf EXCEPT ![s] = Some(b)]
  /\ meant' = [meant EXCEPT ![s] = Some(m)]

block(s) == shelf[s][1]
Holds(s) == shelf[s] # None

RECURSIVE Depth(_)
Depth(b) == 1 + Max({0} \cup {Depth(b.blocks[i]) : i \in DOMAIN b.blocks}
                       \cup {Depth(b.children[i]) : i \in DOMAIN b.children})

\* Building would bake the queue of a child that has an alias.
RECURSIVE BakesAlias(_)
BakesAlias(b) ==
  \E i \in b.n_wired + 1 .. Len(b.blocks) :
    \/ IsPending(b.blocks[i]) /\ b.blocks[i].target_cbits # None
    \/ BakesAlias(b.blocks[i])

NewSimple(s) ==
  /\ ~Holds(s)
  /\ \E p \in Programs :
       Put(s, [New("Simple") EXCEPT !.commands = p], Meaning(p, Width(p)))

\* The body is baked or built at once.
NewConditional(s, bit) ==
  /\ Holds(s) /\ Depth(block(s)) < MaxDepth /\ Len(meant[s][1].stream) < MaxCommands
  /\ block(s).target_cbits = None
  /\ IsPending(block(s)) => block(s).built
  /\ BakedAliases \/ ~BakesAlias(block(s))
  /\ \E body \in {Build(block(s))}, m \in {meant[s][1]} :
       /\ ~body.raised
       /\ Put(s, Conditional(bit, Materialise(body.block)),
              Meaning(InBranch(bit, Placed(m.stream, m)), Max({m.width, bit + 1})))

NewComposite(s, rest) ==
  /\ Holds(s) /\ \A t \in ToSet(rest) : Holds(t)
  /\ \A t \in ToSet(<<s>> \o rest) : Depth(block(t)) < MaxDepth
  /\ \E slots \in {<<s>> \o rest} :
     \E m \in {Composition([i \in DOMAIN slots |-> meant[slots[i]][1]])} :
       /\ Len(m.stream) =< MaxCommands
       /\ meant' = [t \in Slots |->
            IF t = s THEN Some(m) ELSE IF t \in ToSet(rest) THEN None ELSE meant[t]]
       /\ shelf' = [t \in Slots |->
            IF t = s THEN Some([New("Composite") EXCEPT
                                  !.blocks = [i \in DOMAIN slots |-> block(slots[i])]])
            ELSE IF t \in ToSet(rest) THEN None ELSE shelf[t]]

\* Operations queued before a child is added would reach the child as well,
\* and a width resolved before would not grow.
AddChild(s, t) ==
  /\ s # t /\ Holds(s) /\ Holds(t) /\ block(s).kind = "Composite"
  /\ ~IsPending(block(s))
  /\ block(s).n_cbits > 0 => meant[t][1].width = 0
  /\ Depth(block(t)) < MaxDepth
  /\ \E m \in {WithPart(meant[s][1], meant[t][1])} :
       /\ Len(m.stream) =< MaxCommands
       /\ meant' = [meant EXCEPT ![s] = Some(m), ![t] = None]
  /\ shelf' = [shelf EXCEPT
       ![s] = Some([block(s) EXCEPT !.blocks = Append(@, block(t)),
                                    !.symbols = {}, !.built = FALSE]),
       ![t] = None]

SetTargetQubits(s, map) ==
  /\ Holds(s) /\ block(s).target_qubits = None
  /\ Put(s, [block(s) EXCEPT !.target_qubits = Some(map)],
            [meant[s][1] EXCEPT !.target_qubits = Some(map)])

SetTargetCbits(s, map) ==
  /\ Holds(s) /\ block(s).target_cbits = None
  /\ Len(map) = meant[s][1].width
  /\ Put(s, [block(s) EXCEPT !.target_cbits = Some(map)],
            [meant[s][1] EXCEPT !.target_cbits = Some(map)])

\* A block whose build raised is given up.
BuildBlock(s) ==
  /\ Holds(s) /\ ~block(s).built
  /\ BakedAliases \/ ~BakesAlias(block(s))
  /\ \E result \in {Build(block(s))} :
     IF result.raised
     THEN shelf' = [shelf EXCEPT ![s] = None] /\ meant' = [meant EXCEPT ![s] = None]
     ELSE shelf' = [shelf EXCEPT ![s] = Some(result.block)] /\ UNCHANGED meant

Mapped(m, f) == [m EXCEPT !.stream = MapAngles(@, f)]

\* A symbol bound again while the queue holds it would take the new value.
BindSymbol(s, x, v) ==
  /\ Holds(s) /\ x \notin DOMAIN block(s).bound
  /\ Put(s, SetSymbols(block(s), x :> v), Mapped(meant[s][1], x :> v))

RECURSIVE Named(_)
\* Every name the block knows.
Named(b) ==
  SymbolsOf(b.commands) \cup DOMAIN b.bound
    \cup UNION {DOMAIN b.renames[i] \cup {b.renames[i][x] : x \in DOMAIN b.renames[i]} :
                  i \in DOMAIN b.renames}
    \cup UNION {Named(b.blocks[i]) : i \in DOMAIN b.blocks}
    \cup UNION {Named(b.children[i]) : i \in DOMAIN b.children}

\* The new name is fresh, as refresh_symbols makes it.
RenameSymbol(s, x, y) ==
  /\ Holds(s) /\ Len(block(s).renames) < MaxRenames
  /\ y \notin Named(block(s)) /\ x # y
  /\ Put(s, ReplaceSymbols(block(s), x :> y), Mapped(meant[s][1], x :> y))

DaggerBlock(s) ==
  /\ Holds(s)
  /\ Put(s, Dagger(block(s)), [meant[s][1] EXCEPT !.stream = DaggerCommands(@)])

Make == \E s \in Slots : NewSimple(s) \/ BuildBlock(s)

Compose ==
  \E s, t \in Slots :
    \/ \E bit \in Conditions : NewConditional(s, bit)
    \/ \E rest \in {<<>>, <<t>>} : s \notin ToSet(rest) /\ NewComposite(s, rest)
    \/ AddChild(s, t)
    \/ \E map \in Placements : SetTargetQubits(s, map)
    \/ \E map \in Aliases : SetTargetCbits(s, map)

Queue ==
  \E s \in Slots :
    \/ \E x \in Symbols, v \in Values : BindSymbol(s, x, v)
    \/ \E x, y \in Symbols : RenameSymbol(s, x, y)
    \/ DaggerBlock(s)

Next == Make \/ Compose \/ Queue

Spec == Init /\ [][Next]_vars

-----------------------------------------------------------------------------
(* Properties.                                                             *)

Built(s) == Holds(s) /\ block(s).built

\* Queued operations are the operations: a built block flattens to the stream
\* one gets by carrying out each of them when it was asked for, with every
\* part on its own qubits and bits.
MeansWhatItSays == \A s \in Slots : Built(s) => Flatten(block(s)) = Meant(s)

\* The registry of a built block is exactly the free symbols of its stream.
SymbolsAreFree ==
  \A s \in Slots : Built(s) => block(s).symbols = {SymbolsOf(Flatten(block(s)))}

\* A composite that the engine plans instead of building it runs as it is
\* meant to.
PlannedAsMeant ==
  \A s \in Slots :
    Holds(s) /\ Composed(block(s)) /\ (BakedAliases \/ ~BakesAlias(block(s))) =>
      \A plan \in {Collect(block(s))} :
        Plans(block(s), plan) => FlattenSeq(plan.entries) = Meant(s)

\* "Without an explicit override, CompositeBlock offsets each child's cbits
\* sequentially" (block.h:72): with one, the child is on the bits it names.
AliasKept ==
  \A s \in Slots : Built(s) /\ block(s).kind = "Composite" =>
    \A i \in DOMAIN block(s).blocks :
      LET c == block(s).blocks[i] IN
      c.target_cbits # None => BitsOf(Parts(block(s))[i]) \subseteq ToSet(c.target_cbits[1])

=============================================================================
