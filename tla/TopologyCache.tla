--------------------------- MODULE TopologyCache ---------------------------
(***************************************************************************)
(* Transpiler::transpile with its topology cache (transpiler.cpp,          *)
(* core/canonical.cpp).  A query is relabelled: qubits, bits and symbols   *)
(* by the order in which it first uses them.  The relabelled stream, less  *)
(* what its hash leaves out, is the key; the entry is what transpiling the *)
(* relabelled stream gave, and a hit writes the query's own names back.    *)
(*                                                                         *)
(* The 64-bit hash is taken to be free of collisions.  A registered rule   *)
(* acts on the operands of its command, whatever they are called.          *)
(***************************************************************************)
EXTENDS Rebase

CONSTANTS
  Targets,        \* the targets a Transpiler is made for
  Registrations,  \* what register_decomposition is given, as [gate, rule]
  Streams,        \* the streams transpile is asked for
  DummySymbol     \* the names canonicalize hands out to symbols, __sym_0 first

VARIABLES
  target,   \* target_ and decompositions_
  enabled,  \* cache_enabled_
  cache     \* cache_: each entry with its key, and with the target and the
            \* relabelled stream it came from (history)

cacheVars == <<target, enabled, cache>>

\* get_qubit, get_cbit, get_symbol: each name where it is first met.
FirstUses(s) ==
  LET met[k \in 0 .. Len(s)] ==
        IF k = 0 THEN <<>>
        ELSE LET before == met[k - 1]
             IN IF s[k] \in Range(before) THEN before ELSE Append(before, s[k])
  IN met[Len(s)]

BitUses(c) == c.cbits \o [k \in DOMAIN c.cond |-> c.cond[k][1]]
SymbolUses(c) ==
  FlattenSeq([k \in DOMAIN c.params |->
                IF IsConcrete(c.params[k]) THEN <<>> ELSE <<c.params[k].symbol>>])

\* The parts of a command under other names; the matrix of a Custom names no
\* qubit, its factors do.
Relabelled(ns, new) == [k \in DOMAIN ns |-> new[ns[k]]]
CondRenamed(cond, new) == [k \in DOMAIN cond |-> <<new[cond[k][1]], cond[k][2]>>]

SymbolRenamed(p, new) == IF IsConcrete(p) THEN p ELSE [p EXCEPT !.symbol = new[@]]
ParamsRenamed(ps, new) == [k \in DOMAIN ps |-> SymbolRenamed(ps[k], new)]

QubitsRenamed(f, new) == [f EXCEPT !.qubits = Relabelled(@, new)]
FactorsRenamed(fs, new) == [k \in DOMAIN fs |-> QubitsRenamed(fs[k], new)]

Renamed(c, qubit, bit, symbol) ==
  CommandOf(c.gate, Relabelled(c.qubits, qubit), ParamsRenamed(c.params, symbol),
            Relabelled(c.cbits, bit), CondRenamed(c.cond, bit),
            FactorsRenamed(c.factors, qubit), c.origin)

\* canonicalize: the relabelled stream and the names it had.
IndexOf(names) == [x \in Range(names) |-> CHOOSE i \in DOMAIN names : names[i] = x]
DummyOf(names) == [x \in Range(names) |-> IndexOf(names)[x] - 1]

Canonicalize(s) ==
  LET qubits == FirstUses(FlattenSeq([i \in DOMAIN s |-> s[i].qubits]))
      bits == FirstUses(FlattenSeq([i \in DOMAIN s |-> BitUses(s[i])]))
      symbols == FirstUses(FlattenSeq([i \in DOMAIN s |-> SymbolUses(s[i])]))
      dummies == [x \in Range(symbols) |-> DummySymbol[IndexOf(symbols)[x]]]
  IN [commands |-> [i \in DOMAIN s |-> Renamed(s[i], DummyOf(qubits), DummyOf(bits), dummies)],
      qubits |-> qubits, bits |-> bits, symbols |-> symbols]

\* The names that dummies stand for.
NumberNames(names) == [d \in 0 .. Len(names) - 1 |-> names[d + 1]]
SymbolNames(symbols) ==
  [a \in {DummySymbol[i] : i \in DOMAIN symbols} |-> symbols[IndexOf(DummySymbol)[a]]]

ASSUME StreamAssumption ==
  \A s \in Streams : IsStream(s) /\ Len(Canonicalize(s).symbols) =< Len(DummySymbol)

ASSUME DummyAssumption ==
  /\ DummySymbol \in Seq(Range(DummySymbol)) /\ None \notin Range(DummySymbol)
  /\ \A i, j \in DOMAIN DummySymbol : DummySymbol[i] = DummySymbol[j] => i = j

ASSUME RuleAssumption ==
  /\ \A t \in Targets : IsTarget(t)
  /\ \A r \in Registrations : IsRule(r.gate, r.rule)

\* Mutant of Rebind: conditions keep the bits of the relabelled stream.
RebindOperands(s, form) ==
  [i \in DOMAIN s |->
     [Renamed(s[i], NumberNames(form.qubits), NumberNames(form.bits), SymbolNames(form.symbols))
        EXCEPT !.cond = s[i].cond]]

\* rebind: the names of a query in place of the dummies.
Rebind(s, form) ==
  [i \in DOMAIN s |->
     Renamed(s[i], NumberNames(form.qubits), NumberNames(form.bits), SymbolNames(form.symbols))]

\* topology_hash: everything of a command but the matrix of a Custom.
Key(form) == [i \in DOMAIN form.commands |-> [form.commands[i] EXCEPT !.factors = <<>>]]

\* What transpile_uncached_ does with a stream: an output, or capability_error.
Answer(t, s) ==
  LET out == Rebased(t, s)
      refused == ~ InTarget(t, out)
  IN [refused |-> refused, out |-> IF refused THEN <<>> ELSE out]

EntryFor(s) == {e \in cache : e.key = Key(Canonicalize(s))}

------------------------------------------------------------------------------
CacheInit ==
  /\ target \in Targets
  /\ enabled = FALSE
  /\ cache = {}

\* transpile: what a query is answered, and what it leaves in the cache.
Cached(s) == enabled /\ s # <<>>

Reply(s) ==
  LET form == Canonicalize(s)
      Restored(a) == [a EXCEPT !.out = Rebind(@, form)]
      Hit(e) == [refused |-> FALSE, out |-> e.out]
  IN IF ~ Cached(s) THEN Answer(target, s)
     ELSE IF EntryFor(s) = {} THEN Restored(Answer(target, form.commands))
     ELSE Restored(Hit(CHOOSE e \in EntryFor(s) : TRUE))

\* A hit, a query around the cache and one that is refused leave it alone.
Transpile(s) ==
  LET form == Canonicalize(s)
      dummy == Answer(target, form.commands)
      entry == [key |-> Key(form), out |-> dummy.out, target |-> target, source |-> form.commands]
      keeps == Cached(s) /\ EntryFor(s) = {} /\ ~ dummy.refused
  IN /\ cache' = cache \cup (IF keeps THEN {entry} ELSE {})
     /\ UNCHANGED <<target, enabled>>

\* register_decomposition: the entries computed with the old rules stay.
Register(r) ==
  /\ target' = [target EXCEPT !.registered =
                  [g \in DOMAIN @ \cup {r.gate} |-> IF g = r.gate THEN r.rule ELSE @[g]]]
  /\ UNCHANGED <<enabled, cache>>

\* install_clifford_t_rz_decompositions writes the whole built-in table with
\* the Rx and Ry rewrites, over whatever was registered for those gates.
InstallCliffordTRz ==
  /\ target' = [target EXCEPT !.rules = "clifford_t_rz",
                  !.registered = Restrict(@, DOMAIN @ \ Decomposable("clifford_t_rz"))]
  /\ UNCHANGED <<enabled, cache>>

EnableTopologyCache(on) == enabled' = on /\ UNCHANGED <<target, cache>>
ClearTopologyCache == cache' = {} /\ UNCHANGED <<target, enabled>>

------------------------------------------------------------------------------
\* What a hit would answer is what transpiling the stream itself gives.
Transparent(s, e) ==
  Answer(target, s) = [refused |-> FALSE, out |-> Rebind(e.out, Canonicalize(s))]

\* Relabelling, transpiling and writing the names back is transpiling: an entry
\* filled under the current rules, from a stream that agrees with the query in
\* its matrices too, answers what the uncached call would.
HitsExact ==
  \A s \in Streams : \A e \in EntryFor(s) :
    e.target = target /\ e.source = Canonicalize(s).commands => Transparent(s, e)

\* The contract of test_transpiler_topology_cache.cpp: with the cache, the same
\* stream as without it, for any input.
CacheTransparent == \A s \in Streams : \A e \in EntryFor(s) : Transparent(s, e)

=============================================================================
