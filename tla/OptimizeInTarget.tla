-------------------------- MODULE OptimizeInTarget --------------------------
(***************************************************************************)
(* Transpiler::optimize_in_target and the worklist passes it runs on the   *)
(* linked graph: cancel_wire_adjacent at O1, commute_and_cancel after it   *)
(* at O2, then the fusion of single-qubit gates when the target admits     *)
(* Custom (transpiler/transpiler.cpp, dag/passes.cpp).                     *)
(*                                                                         *)
(* One step takes one node off the worklist.  A branch region is optimised *)
(* body by body, each in a graph of its own: frames is the call stack of   *)
(* the recursion, the innermost call first.                                *)
(***************************************************************************)
EXTENDS WireGraph, SingleQubitFusion, Rebase

CONSTANT
  Window    \* how far commute_and_cancel looks ahead (8 in the code)

ASSUME WindowAssumption == Window \in Nat

VARIABLES
  input,       \* the in-target stream
  target,      \* target_
  passes,      \* the graph passes still to run, the current one first
  frames,      \* the running calls of that pass
  eliminated,  \* the count the passes return
  stream,      \* the result
  phase        \* "rebased", "passes", "fuse", "optimized" or "refused"

optVars == <<input, target, passes, frames, eliminated, stream, phase>>

InOrderNodes(g) == InOrder(g.live)

\* A call on graph g: region is the region node being optimised, or 0, and
\* bodies its bodies done so far.
Frame(g) == [graph |-> g, work |-> InOrderNodes(g), region |-> 0, bodies |-> <<>>]

PassesOf(level) ==
  CASE level = 0 -> <<>>
    [] level = 1 -> <<"cancel">>
    [] level = 2 -> <<"cancel", "commute">>

Tagged(s) == [i \in DOMAIN s |-> [s[i] EXCEPT !.origin = {i}]]

\* A call of the pass on stream s.  from_commands throws for a stray or an
\* unterminated marker, out of every call that runs.
Optimise(s, callers) ==
  IF WellFormed(s)
  THEN frames' = <<Frame(FromCommands(s))>> \o callers /\ phase' = "passes"
  ELSE frames' = <<>> /\ phase' = "refused"

OptStart ==
  LET s == Tagged(stream) IN
  /\ phase = "rebased"
  /\ input' = s
  /\ IF passes = <<>>
     THEN /\ frames' = <<>>
          /\ stream' = s
          /\ phase' = "optimized"
     ELSE /\ Optimise(s, <<>>)
          /\ stream' = <<>>
  /\ UNCHANGED <<target, passes, eliminated>>

top == Head(frames)

\* enqueue, for each id of a sequence.
Enqueue(g, work, ids) ==
  LET after[k \in 0 .. Len(ids)] ==
        IF k = 0 THEN work
        ELSE LET w == after[k - 1]
             IN IF ids[k] \in g.live /\ ids[k] \notin Range(w) THEN Append(w, ids[k]) ELSE w
  IN after[Len(ids)]

\* Mutant of Neighbours: only what follows the node is looked at again.
NeighboursAfter(g, id) ==
  [k \in DOMAIN WireSeq(g.cmd[id]) |-> g.next[id][WireSeq(g.cmd[id])[k]]]

\* collect_neighbours
Neighbours(g, id) ==
  FlattenSeq([k \in DOMAIN WireSeq(g.cmd[id]) |->
    LET w == WireSeq(g.cmd[id])[k] IN <<g.prev[id][w], g.next[id][w]>>])

Working(pass) ==
  phase = "passes" /\ Head(passes) = pass /\ top.region = 0 /\ top.work # <<>>

Node == Head(top.work)

Continue(g, ids) ==
  frames' = <<[top EXCEPT !.graph = g, !.work = Enqueue(g, Tail(@), ids)]>> \o Tail(frames)

Steady == UNCHANGED <<input, target, passes, stream>>
Unchanging == Steady /\ UNCHANGED phase

\* The combined command keeps the place and the operands of c.
Merged(a, b, c) ==
  [c EXCEPT !.params = <<SumParam(a.params[1], b.params[1])>>,
            !.origin = a.origin \cup b.origin]

------------------------------------------------------------------------------
\* What the two passes share.

SkipRemoved ==
  /\ phase = "passes" /\ top.region = 0 /\ top.work # <<>>
  /\ Node \notin top.graph.live
  /\ Continue(top.graph, <<>>)
  /\ Unchanging /\ UNCHANGED eliminated

\* optimize_region_span: the bodies of a region, then-body first.
ElseAt(span) ==
  {i \in 2 .. Len(span) - 1 : span[i].gate = "BranchElse" /\ Depth(span, i) = 1}

Bodies(span) ==
  IF ElseAt(span) = {} THEN <<SubSeq(span, 2, Len(span) - 1)>>
  ELSE LET e == CHOOSE i \in ElseAt(span) : \A j \in ElseAt(span) : i =< j
       IN <<SubSeq(span, 2, e - 1), SubSeq(span, e + 1, Len(span) - 1)>>

Rebuilt(span, bodies) ==
  IF Len(bodies) = 1 THEN <<span[1]>> \o bodies[1] \o <<span[Len(span)]>>
  ELSE LET e == CHOOSE i \in ElseAt(span) : \A j \in ElseAt(span) : i =< j
       IN <<span[1]>> \o bodies[1] \o <<span[e]>> \o bodies[2] \o <<span[Len(span)]>>

EnterRegion ==
  /\ phase = "passes" /\ top.region = 0 /\ top.work # <<>>
  /\ Node \in top.graph.live /\ IsRegionNode(top.graph, Node)
  /\ Optimise(Bodies(top.graph.span[Node])[1],
              <<[top EXCEPT !.work = Tail(@), !.region = Node]>> \o Tail(frames))
  /\ Steady /\ UNCHANGED eliminated

\* The call on a body returns to the call that holds the region.
LeaveBody ==
  /\ phase = "passes" /\ Len(frames) > 1
  /\ top.region = 0 /\ top.work = <<>>
  /\ LET caller == frames[2]
         span == caller.graph.span[caller.region]
         done == Append(caller.bodies, ToCommands(top.graph))
         rest == SubSeq(frames, 3, Len(frames))
     IN IF Len(done) < Len(Bodies(span))
        THEN Optimise(Bodies(span)[Len(done) + 1], <<[caller EXCEPT !.bodies = done]>> \o rest)
        ELSE /\ frames' = <<[caller EXCEPT
                               !.graph = ReplaceSpan(@, caller.region, Rebuilt(span, done)),
                               !.region = 0, !.bodies = <<>>]>> \o rest
             /\ UNCHANGED phase
  /\ Steady /\ UNCHANGED eliminated

\* The outermost call of a pass returns.  The next pass starts on the same
\* graph; after the last one the graph is written out.
FinishPass ==
  /\ phase = "passes" /\ Len(frames) = 1
  /\ top.region = 0 /\ top.work = <<>>
  /\ passes' = Tail(passes)
  /\ IF Len(passes) > 1
     THEN /\ frames' = <<Frame(top.graph)>>
          /\ UNCHANGED <<stream, phase>>
     ELSE /\ frames' = <<>>
          /\ stream' = ToCommands(top.graph)
          /\ phase' = "fuse"
  /\ UNCHANGED <<input, target, eliminated>>

------------------------------------------------------------------------------
\* cancel_wire_adjacent

\* A command the rewrites apply to; those that can combine list their wires.
Rewritable(g, id) == id \in g.live /\ ~ IsRegionNode(g, id) /\ WireSeq(g.cmd[id]) # <<>>

\* b directly follows id on every wire of both.
WireAdjacent(g, id, b) ==
  /\ b # 0 /\ ~ IsRegionNode(g, b)
  /\ \A w \in g.wires[id] : g.next[id][w] = b
  /\ Cardinality(g.wires[b]) = Cardinality(g.wires[id])

Follower(g, id) == g.next[id][WireSeq(g.cmd[id])[1]]

CombinesWithNext(g, id) ==
  /\ Rewritable(g, id)
  /\ WireAdjacent(g, id, Follower(g, id))
  /\ LET a == g.cmd[id]  b == g.cmd[Follower(g, id)]
     IN InversePair(a, b) \/ CanMerge(a, b)

DropZero ==
  /\ Working("cancel") /\ Rewritable(top.graph, Node)
  /\ DroppableZero(top.graph.cmd[Node])
  /\ Continue(RemoveNode(top.graph, Node), Neighbours(top.graph, Node))
  /\ eliminated' = eliminated + 1
  /\ Unchanging

\* Both nodes go, their neighbours are looked at again.  check_id throws for a
\* node that is not live: there is no step then.
RemoveBoth(g, id, b) ==
  /\ b \in g.live /\ id \in RemoveNode(g, b).live
  /\ Continue(RemoveNode(RemoveNode(g, b), id), Neighbours(g, id) \o Neighbours(g, b))
  /\ eliminated' = eliminated + 2

\* Two rotations become one: keep stays and carries the sum, gone goes.
MergeInto(g, keep, gone, merged, ids) ==
  /\ gone \in g.live /\ keep \in RemoveNode(g, gone).live
  /\ Continue(ReplaceCommand(RemoveNode(g, gone), keep, merged), <<keep>> \o ids)
  /\ eliminated' = eliminated + 1

CombineAdjacent ==
  /\ Working("cancel") /\ CombinesWithNext(top.graph, Node)
  /\ ~ DroppableZero(top.graph.cmd[Node])
  /\ LET g == top.graph
         id == Node
         b == Follower(g, id)
         merged == Merged(g.cmd[id], g.cmd[b], g.cmd[id])
     IN IF InversePair(g.cmd[id], g.cmd[b]) \/ IsZero(merged.params[1])
        THEN RemoveBoth(g, id, b)
        ELSE MergeInto(g, id, b, merged, Neighbours(g, id) \o Neighbours(g, b))
  /\ Unchanging

KeepAdjacent ==
  /\ Working("cancel") /\ Node \in top.graph.live /\ ~ IsRegionNode(top.graph, Node)
  /\ ~ DroppableZero(top.graph.cmd[Node])
  /\ ~ CombinesWithNext(top.graph, Node)
  /\ Continue(top.graph, <<>>)
  /\ Unchanging /\ UNCHANGED eliminated

------------------------------------------------------------------------------
\* commute_and_cancel

\* The k-th node after id on wire w, 0 past the end.
Chain(g, id, w) ==
  LET step[k \in 0 .. Window + 1] ==
        IF k = 0 THEN id
        ELSE IF step[k - 1] = 0 THEN 0 ELSE g.next[step[k - 1]][w]
  IN step

CanCombine(a, b) == InversePair(a, b) \/ CanMerge(a, b)

SlidesPast(g, id, c) == c # 0 /\ ~ IsRegionNode(g, c) /\ Commute(g.cmd[id], g.cmd[c])

IntervenersCommute(g, id, b) ==
  \A w \in g.wires[id] :
    \E n \in 1 .. Window + 1 :
      /\ Chain(g, id, w)[n] = b
      /\ \A k \in 1 .. n - 1 : SlidesPast(g, id, Chain(g, id, w)[k])

ReachablePartner(g, id, b) ==
  /\ b # 0 /\ ~ IsRegionNode(g, b)
  /\ CanCombine(g.cmd[id], g.cmd[b])
  /\ IntervenersCommute(g, id, b)

\* The partner the walk along the first wire stops at: a set of at most one.
Partners(g, id) ==
  LET chain == Chain(g, id, WireSeq(g.cmd[id])[1])
  IN {chain[n] : n \in {m \in 1 .. Window :
        /\ ReachablePartner(g, id, chain[m])
        /\ \A k \in 1 .. m - 1 :
             SlidesPast(g, id, chain[k]) /\ ~ ReachablePartner(g, id, chain[k])}}

CombineAcross ==
  /\ Working("commute") /\ Rewritable(top.graph, Node)
  /\ \E b \in Partners(top.graph, Node) :
       LET g == top.graph
           id == Node
           merged == Merged(g.cmd[id], g.cmd[b], g.cmd[b])
       IN IF InversePair(g.cmd[id], g.cmd[b]) \/ IsZero(merged.params[1])
          THEN RemoveBoth(g, id, b)
          ELSE MergeInto(g, b, id, merged, Neighbours(g, id) \o Neighbours(g, b))
  /\ Unchanging

KeepAcross ==
  /\ Working("commute") /\ Node \in top.graph.live /\ ~ IsRegionNode(top.graph, Node)
  /\ Rewritable(top.graph, Node) => Partners(top.graph, Node) = {}
  /\ Continue(top.graph, <<>>)
  /\ Unchanging /\ UNCHANGED eliminated

------------------------------------------------------------------------------
\* Mutant of FusedFor: fuses whether or not the target admits Custom.
FusedAlways(s) == FuseSingleQubitGates(s)

\* The last pass; a target without Custom skips it.
FusedFor(s) == IF "Custom" \in target.allowed THEN FuseSingleQubitGates(s) ELSE s

\* Its result is verified to be in the target.
Fuse ==
  /\ phase = "fuse"
  /\ stream' = FusedFor(stream)
  /\ phase' = IF InTarget(target, stream') THEN "optimized" ELSE "refused"
  /\ UNCHANGED <<input, target, passes, frames, eliminated>>

OptNext ==
  \/ OptStart
  \/ SkipRemoved \/ EnterRegion \/ LeaveBody \/ FinishPass
  \/ DropZero \/ CombineAdjacent \/ KeepAdjacent
  \/ CombineAcross \/ KeepAcross
  \/ Fuse

=============================================================================
