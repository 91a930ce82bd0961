-------------------------- MODULE TranspilerCalls --------------------------
(***************************************************************************)
(* Callers of one Transpiler: transpile_parallel (transpiler.cpp) over the *)
(* global pool, or over a pool its owner destroys afterwards, the topology *)
(* cache under calls of a single block, and changes of rules between calls.*)
(*                                                                         *)
(* A Python caller holds the interpreter lock from the start of a call to  *)
(* its end, since the binding of transpile_parallel does not release it    *)
(* (python/bindings.cpp), and whoever runs a rule written in Python takes  *)
(* it.                                                                     *)
(*                                                                         *)
(* Assumed of the callers, since the code has no lock on the cache or on   *)
(* the rules: they change only while nothing runs (Quiet), and the cache   *)
(* is on only for calls of one block, one at a time.  A rule written in    *)
(* Python is the only thing registered by a Python host, which has no      *)
(* binding for the cache.                                                  *)
(***************************************************************************)
EXTENDS ThreadPool, TopologyCache

CONSTANTS
  Lists,    \* what transpile_parallel is asked for: sequences of streams
  Hosts,    \* "cpp", "python"
  Owning    \* whether the pool has an owner that destroys it

ASSUME CallAssumption == Lists \subseteq Seq(Streams) /\ \A l \in Lists : Len(l) =< MaxTasks

VARIABLES
  host,     \* the language of the callers and of the registered rules
  owned,    \* the pool is its user's own
  gil,      \* the client holding the interpreter lock, as a set
  call,     \* the call of each client: it makes one
  futures   \* the shared states that are ready, each with its task

callVars == <<host, owned, gil, call, futures>>
vars == <<poolVars, cacheVars, callVars>>

\* stage is "idle", "submit", "get", "returned" or "raised"; asked is the
\* target at the start and cached whether the cache was on then (history).
NewCall(stage, blocks) ==
  [stage |-> stage, blocks |-> blocks, pushed |-> 0, results |-> <<>>,
   asked |-> target, cached |-> enabled]

InCall(c) == call[c].stage \in {"submit", "get"}
TasksIn(c) == {t \in Range(queue) \cup UNION Range(running) : t[1] = c}
Quiet == queue = <<>> /\ \A c \in Clients : ~ InCall(c) /\ TasksIn(c) = {}

CallInit ==
  /\ PoolInit /\ CacheInit
  /\ host \in Hosts /\ owned \in Owning
  /\ host = "python" => ~ owned
  /\ gil = {}
  /\ call = [c \in Clients |-> NewCall("idle", <<>>)]
  /\ futures = {}

------------------------------------------------------------------------------
Begin(c, l) ==
  /\ call[c].stage = "idle" /\ shutdown = "no"
  /\ enabled => Len(l) =< 1 /\ Quiet
  /\ host = "python" => gil = {}
  /\ gil' = IF host = "python" THEN {c} ELSE gil
  /\ call' = [call EXCEPT ![c] = NewCall("submit", l)]
  /\ UNCHANGED <<poolVars, cacheVars, host, owned, futures>>

Leave(c, stage, results) ==
  /\ call' = [call EXCEPT ![c].stage = stage, ![c].results = results]
  /\ gil' = gil \ {c}

\* No block, or one, which the caller transpiles itself.
ReturnEmpty(c) ==
  /\ call[c].stage = "submit" /\ call[c].blocks = <<>>
  /\ Leave(c, "returned", <<>>)
  /\ UNCHANGED <<poolVars, cacheVars, host, owned, futures>>

TranspileAlone(c) ==
  LET blocks == call[c].blocks
      reply == Reply(blocks[1])
  IN /\ call[c].stage = "submit" /\ Len(blocks) = 1
     /\ Transpile(blocks[1])
     /\ IF reply.refused THEN Leave(c, "raised", <<>>) ELSE Leave(c, "returned", <<reply.out>>)
     /\ UNCHANGED <<poolVars, host, owned, futures>>

\* Submit every block, in order ...
Submit(c) ==
  LET k == call[c].pushed + 1
  IN /\ call[c].stage = "submit" /\ Len(call[c].blocks) > 1
     /\ k =< Len(call[c].blocks)
     /\ Push(c, <<c, k>>)
     /\ call' = [call EXCEPT ![c].pushed = k]
     /\ UNCHANGED <<cacheVars, host, owned, gil, futures>>

Notify(c) ==
  LET all == call[c].pushed = Len(call[c].blocks)
  IN /\ NotifyOne(c)
     /\ call' = [call EXCEPT ![c].stage = IF all THEN "get" ELSE @]
     /\ UNCHANGED <<cacheVars, host, owned, gil, futures>>

\* Mutant of NextFuture: whichever result is ready first.
AnyFuture(c, f) == f.task[1] = c

\* ... then get() them in the same order.
NextFuture(c, f) == f.task = <<c, Len(call[c].results) + 1>>

\* A future that throws ends the call: the tasks behind it stay in the pool.
Get(c) ==
  /\ call[c].stage = "get"
  /\ \E f \in futures :
       /\ NextFuture(c, f)
       /\ futures' = futures \ {f}
       /\ LET results == Append(call[c].results, f.reply.out)
          IN IF f.reply.refused THEN Leave(c, "raised", call[c].results)
             ELSE IF Len(results) = Len(call[c].blocks) THEN Leave(c, "returned", results)
             ELSE call' = [call EXCEPT ![c].results = results] /\ UNCHANGED gil
  /\ UNCHANGED <<poolVars, cacheVars, host, owned>>

\* A worker transpiles a block.  In a call that has left, the block is gone
\* and nobody asks for the result.
RunTask(w) ==
  /\ \E t \in running[w] :
       LET block == call[t[1]].blocks[t[2]]
       IN /\ host = "python" /\ gil # {} => ~ Cascade(target, block).asked
          /\ futures' = futures \cup
               (IF InCall(t[1]) THEN {[task |-> t, reply |-> Answer(target, block)]} ELSE {})
  /\ Finish(w)
  /\ UNCHANGED <<cacheVars, host, owned, gil, call>>

Proceed(w) == (Take(w) \/ Exit(w)) /\ UNCHANGED <<cacheVars, callVars>>

Call ==
  \E c \in Clients :
    \/ \E l \in Lists : Begin(c, l)
    \/ ReturnEmpty(c) \/ TranspileAlone(c) \/ Submit(c) \/ Notify(c) \/ Get(c)

Work ==
  \E w \in Workers :
    \/ RunTask(w) \/ Proceed(w)
    \/ (Wait(w) \/ WakeSpuriously(w)) /\ UNCHANGED <<cacheVars, callVars>>

\* The rules and the cache, changed while nothing runs.
Configure ==
  /\ Quiet
  /\ \/ \E r \in Registrations : Register(r)
     \/ InstallCliffordTRz
     \/ host = "cpp" /\ (ClearTopologyCache \/ \E on \in BOOLEAN : EnableTopologyCache(on))
  /\ UNCHANGED <<poolVars, callVars>>

\* The owner of the pool leaves, whatever a raised call left queued.
Destroy ==
  /\ owned /\ \A c \in Clients : ~ InCall(c)
  /\ Stop \/ NotifyAll \/ Join
  /\ UNCHANGED <<cacheVars, callVars>>

Next == Call \/ Work \/ Configure \/ Destroy

\* No thread stops half way: a caller that submits, a worker with a task to take
\* or to run or a pool to leave, an owner in the destructor.
Fairness ==
  /\ \A c \in Clients :
       WF_vars(Submit(c) \/ Notify(c) \/ Get(c))
  /\ \A w \in Workers :
       WF_vars(RunTask(w) \/ Proceed(w))
  /\ WF_vars((NotifyAll \/ Join) /\ UNCHANGED <<cacheVars, callVars>>)

Spec == CallInit /\ [][Next]_vars /\ Fairness

------------------------------------------------------------------------------
\* A call that returned has an answer for every block, in the order of its
\* blocks, and has left none of its tasks in the pool; unless the cache gave
\* it, an answer is what the rules at the start of the call give, and a call
\* that raised stopped at the first block they refuse.
CallsExact ==
  \A c \in Clients :
    LET last == call[c]
        n == Len(last.results)
        Expected(k) == Answer(last.asked, last.blocks[k])
    IN /\ last.stage = "returned" => TasksIn(c) = {} /\ n = Len(last.blocks)
       /\ ~ last.cached =>
            /\ \A k \in 1 .. n : Expected(k) = [refused |-> FALSE, out |-> last.results[k]]
            /\ last.stage = "raised" => Expected(n + 1).refused

\* No caller waits for ever in transpile_parallel, no owner in the destructor.
EveryWaitEnds ==
  /\ \A c \in Clients : InCall(c) /\ Len(call[c].blocks) > 1 ~> ~ InCall(c)
  /\ shutdown = "stopped" ~> shutdown = "joined"

=============================================================================
