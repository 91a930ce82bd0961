----------------------- MODULE TranspilerCallsProofs ------------------------
(***************************************************************************)
(* The callers of a Transpiler, for any number of them, any lists and any  *)
(* rules: the pool keeps its invariant, and a call of transpile_parallel   *)
(* answers every block in order and leaves nothing behind. A task is in    *)
(* one place only: queued, run by one worker, or ready in a future.        *)
(*                                                                         *)
(* What the cache answers is what transpiling afresh would have written:   *)
(* renaming qubits, bits and symbols commutes with every pass, and         *)
(* rebinding undoes the renaming.                                          *)
(***************************************************************************)
EXTENDS TranspilerCalls, StreamProofs

-----------------------------------------------------------------------------
----------------------------------------------------------------------------
(* The pool alone: PoolInv is inductive, so no worker sleeps beside a      *)
(* queued task, and a joined pool is drained.                              *)

LEMMA WorkersFinite ==
  ASSUME NEW S, S \subseteq Workers \/ S \subseteq Clients
  PROVE  IsFiniteSet(S) /\ Cardinality(S) \in Nat
BY PoolAssumption, FS_Subset, FS_CardinalityType

LEMMA OneMore ==
  ASSUME NEW S, NEW x, IsFiniteSet(S), x \notin S
  PROVE  Cardinality(S \cup {x}) = Cardinality(S) + 1
BY FS_AddElement

LEMMA OneLess ==
  ASSUME NEW S, NEW x, IsFiniteSet(S), x \in S
  PROVE  Cardinality(S \ {x}) = Cardinality(S) - 1
BY FS_RemoveElement

LEMMA InitPoolInv == PoolInit => PoolInv
<1> SUFFICES ASSUME PoolInit PROVE PoolInv
  OBVIOUS
<1>1. PoolTypeOK
  BY DEF PoolInit, PoolTypeOK
<1>2. Asleep = {}
  BY DEF PoolInit, Asleep
<1>3. NoIdleWorker
  BY <1>2 DEF NoIdleWorker
<1>4. ExitedDrained
  BY DEF PoolInit, ExitedDrained
<1> QED
  BY <1>1, <1>3, <1>4 DEF PoolInv

\* A push brings its own notification.
LEMMA PushKeepsInv ==
  ASSUME PoolInv, NEW c \in Clients, NEW t \in Task, Push(c, t)
  PROVE  PoolInv'
<1> USE DEF PoolInv
<1>1. PoolTypeOK'
  BY DEF PoolTypeOK, Push
<1>2. NoIdleWorker'
  <2>1. Asleep' = Asleep /\ Looking' = Looking
    BY DEF Push, Asleep, Looking
  <2>2. Cardinality(notifying') = Cardinality(notifying) + 1
    <3>1. notifying' = notifying \cup {c} /\ c \notin notifying /\ notifying \subseteq Clients
      BY DEF Push, PoolTypeOK
    <3> QED
      BY <3>1, WorkersFinite, OneMore
  <2>3. Len(queue') = Len(queue) + 1
    BY DEF Push, PoolTypeOK
  <2>4. Cardinality(Looking) \in Nat /\ Cardinality(notifying) \in Nat /\ Len(queue) \in Nat
    BY WorkersFinite DEF PoolTypeOK, Looking
  <2> QED
    BY <2>1, <2>2, <2>3, <2>4 DEF NoIdleWorker
<1>3. ExitedDrained'
  BY DEF ExitedDrained, Push
<1> QED
  BY <1>1, <1>2, <1>3

\* A woken worker is one more on its way to the queue.
LEMMA Woken ==
  ASSUME PoolTypeOK, NEW w \in Asleep, awake' = awake \cup {w}, running' = running,
         exited' = exited
  PROVE  /\ Cardinality(Looking') = Cardinality(Looking) + 1
         /\ Asleep' \subseteq Asleep
<1>1. running[w] = {} /\ w \in Workers /\ w \notin awake
  BY DEF PoolTypeOK, Asleep
<1>2. Looking' = Looking \cup {w} /\ w \notin Looking
  BY <1>1 DEF Looking
<1>3. IsFiniteSet(Looking)
  BY WorkersFinite DEF PoolTypeOK, Looking
<1> QED
  BY <1>2, <1>3, OneMore DEF Asleep

LEMMA NotifyKeepsInv ==
  ASSUME PoolInv, NEW c \in Clients, NotifyOne(c)
  PROVE  PoolInv'
<1> USE DEF PoolInv
<1>1. PoolTypeOK'
  BY DEF PoolTypeOK, NotifyOne, Asleep
<1>2. NoIdleWorker'
  <2>1. CASE Asleep = {}
    <3>1. awake' = awake /\ exited' = exited
      BY <2>1 DEF NotifyOne
    <3>2. Asleep' = {}
      BY <2>1, <3>1 DEF Asleep
    <3> QED
      BY <3>2 DEF NoIdleWorker
  <2>2. CASE Asleep # {}
    <3>1. PICK w \in Asleep : awake' = awake \cup {w}
      BY <2>2 DEF NotifyOne, Notifies
    <3>2. running' = running /\ exited' = exited /\ queue' = queue
      BY DEF NotifyOne
    <3>3. Cardinality(Looking') = Cardinality(Looking) + 1
      BY <3>1, <3>2, Woken
    <3>4. Cardinality(notifying') = Cardinality(notifying) - 1
      <4>1. notifying' = notifying \ {c} /\ c \in notifying /\ notifying \subseteq Clients
        BY DEF NotifyOne, PoolTypeOK
      <4> QED
        BY <4>1, WorkersFinite, OneLess
    <3>5. Cardinality(Looking) \in Nat /\ Cardinality(notifying) \in Nat /\ Len(queue) \in Nat
      BY WorkersFinite DEF PoolTypeOK, Looking
    <3>6. Len(queue) =< Cardinality(Looking) + Cardinality(notifying)
      BY <2>2 DEF NoIdleWorker
    <3> QED
      BY <3>2, <3>3, <3>4, <3>5, <3>6 DEF NoIdleWorker
  <2> QED
    BY <2>1, <2>2
<1>3. ExitedDrained'
  BY DEF ExitedDrained, NotifyOne
<1> QED
  BY <1>1, <1>2, <1>3

LEMMA WorkerKeepsInv ==
  ASSUME PoolInv, NEW w \in Workers,
         Wait(w) \/ WakeSpuriously(w) \/ Take(w) \/ Finish(w) \/ Exit(w)
  PROVE  PoolInv'
<1> USE DEF PoolInv
<1>0. /\ Cardinality(Looking) \in Nat /\ Cardinality(notifying) \in Nat /\ Len(queue) \in Nat
      /\ IsFiniteSet(Looking)
  BY WorkersFinite DEF PoolTypeOK, Looking
<1>1. CASE Wait(w)
  <2>1. PoolTypeOK'
    BY <1>1 DEF PoolTypeOK, Wait, Looking
  <2>2. queue' = <<>> /\ Cardinality(Looking') \in Nat /\ Cardinality(notifying') \in Nat
    BY <1>1, <2>1, WorkersFinite DEF Wait, MayWait, Looking, PoolTypeOK
  <2>3. ExitedDrained'
    BY <1>1 DEF ExitedDrained, Wait
  <2> QED
    BY <2>1, <2>2, <2>3 DEF NoIdleWorker
<1>2. CASE WakeSpuriously(w)
  <2>1. PoolTypeOK'
    BY <1>2 DEF PoolTypeOK, WakeSpuriously, Asleep
  <2>2. Cardinality(Looking') = Cardinality(Looking) + 1 /\ Asleep' \subseteq Asleep
    BY <1>2, Woken DEF WakeSpuriously
  <2>3. queue' = queue /\ notifying' = notifying /\ Asleep # {}
    BY <1>2 DEF WakeSpuriously
  <2>4. NoIdleWorker'
    BY <1>0, <2>2, <2>3 DEF NoIdleWorker
  <2>5. ExitedDrained'
    BY <1>2 DEF ExitedDrained, WakeSpuriously
  <2> QED
    BY <2>1, <2>4, <2>5
<1>3. CASE Take(w)
  <2>1. PoolTypeOK'
    BY <1>3 DEF PoolTypeOK, Take, Looking
  <2>2. Looking' = Looking \ {w} /\ w \in Looking
    BY <1>3 DEF Take, Looking, PoolTypeOK
  <2>3. Cardinality(Looking') = Cardinality(Looking) - 1
    BY <1>0, <2>2, OneLess
  <2>4. Len(queue') = Len(queue) - 1 /\ notifying' = notifying /\ Asleep' = Asleep
    BY <1>3 DEF Take, PoolTypeOK, Asleep
  <2>5. NoIdleWorker'
    BY <1>0, <2>3, <2>4 DEF NoIdleWorker
  <2>6. ExitedDrained'
    BY <1>3 DEF ExitedDrained, Take
  <2> QED
    BY <2>1, <2>5, <2>6
<1>4. CASE Finish(w)
  <2>1. PoolTypeOK'
    BY <1>4 DEF PoolTypeOK, Finish
  <2>2. Looking' = Looking \cup {w} /\ w \notin Looking
    BY <1>4 DEF Finish, Looking, PoolTypeOK
  <2>3. Cardinality(Looking') = Cardinality(Looking) + 1
    BY <1>0, <2>2, OneMore
  <2>4. queue' = queue /\ notifying' = notifying /\ Asleep' = Asleep
    BY <1>4 DEF Finish, Asleep
  <2>5. NoIdleWorker'
    BY <1>0, <2>3, <2>4 DEF NoIdleWorker
  <2>6. ExitedDrained'
    BY <1>4 DEF ExitedDrained, Finish
  <2> QED
    BY <2>1, <2>5, <2>6
<1>5. CASE Exit(w)
  <2>1. PoolTypeOK'
    BY <1>5 DEF PoolTypeOK, Exit, Looking
  <2>2. queue' = <<>> /\ Cardinality(Looking') \in Nat /\ Cardinality(notifying') \in Nat
    BY <1>5, <2>1, WorkersFinite DEF Exit, MayExit, Looking, PoolTypeOK
  <2>3. ExitedDrained'
    <3>1. shutdown' # "no" /\ shutdown' = shutdown /\ exited' = exited \cup {w}
      BY <1>5 DEF Exit, MayExit
    <3>2. exited' \subseteq Workers
      BY <2>1 DEF PoolTypeOK
    <3> QED
      BY <2>2, <3>1, <3>2 DEF ExitedDrained
  <2> QED
    BY <2>1, <2>2, <2>3 DEF NoIdleWorker
<1> QED
  BY <1>1, <1>2, <1>3, <1>4, <1>5

LEMMA DestructorKeepsInv ==
  ASSUME PoolInv, Stop \/ NotifyAll \/ Join
  PROVE  PoolInv'
<1> USE DEF PoolInv
<1>1. CASE Stop
  <2>1. PoolTypeOK'
    BY <1>1 DEF PoolTypeOK, Stop
  <2>2. Looking' = Looking /\ Asleep' = Asleep
    BY <1>1 DEF Stop, Looking, Asleep
  <2>3. NoIdleWorker'
    BY <1>1, <2>2 DEF Stop, NoIdleWorker
  <2>4. ExitedDrained'
    BY <1>1 DEF ExitedDrained, Stop
  <2> QED
    BY <2>1, <2>3, <2>4
<1>2. CASE NotifyAll
  <2>1. PoolTypeOK'
    BY <1>2 DEF PoolTypeOK, NotifyAll, Asleep
  <2>2. Asleep' = {}
    BY <1>2 DEF NotifyAll, Asleep
  <2>3. ExitedDrained'
    BY <1>2 DEF ExitedDrained, NotifyAll
  <2> QED
    BY <2>1, <2>2, <2>3 DEF NoIdleWorker
<1>3. CASE Join
  <2>1. PoolTypeOK'
    BY <1>3 DEF PoolTypeOK, Join
  <2>2. Looking' = Looking /\ Asleep' = Asleep
    BY <1>3 DEF Join, Looking, Asleep
  <2>3. NoIdleWorker'
    BY <1>3, <2>2 DEF Join, NoIdleWorker
  <2>4. ExitedDrained'
    BY <1>3 DEF ExitedDrained, Join
  <2> QED
    BY <2>1, <2>3, <2>4
<1> QED
  BY <1>1, <1>2, <1>3

LEMMA StutterKeepsInv == PoolInv /\ UNCHANGED poolVars => PoolInv'
BY DEF PoolInv, PoolTypeOK, NoIdleWorker, ExitedDrained, poolVars, Asleep, Looking

\* Any step of the pool, whoever takes it.
LEMMA PoolStepKeepsInv ==
  ASSUME PoolInv, PoolNext \/ UNCHANGED poolVars
  PROVE  PoolInv'
<1>1. CASE UNCHANGED poolVars
  BY <1>1, StutterKeepsInv
<1>2. CASE \E c \in Clients : NotifyOne(c)
  BY <1>2, NotifyKeepsInv
<1>3. CASE \E c \in Clients, t \in Task : Push(c, t)
  BY <1>3, PushKeepsInv
<1>4. CASE \E w \in Workers : Wait(w) \/ WakeSpuriously(w) \/ Take(w) \/ Finish(w) \/ Exit(w)
  BY <1>4, WorkerKeepsInv
<1>5. CASE Stop \/ NotifyAll \/ Join
  BY <1>5, DestructorKeepsInv
<1> QED
  BY <1>1, <1>2, <1>3, <1>4, <1>5 DEF PoolNext

\* A joined pool has lost every worker, and the last one found nothing to do.
LEMMA PoolInvDrains == PoolInv => Drained
BY PoolAssumption DEF PoolInv, ExitedDrained, PoolTypeOK, Drained

----------------------------------------------------------------------------
(* The calls that run on it.                                               *)

IsSequence(r) == \E S : r \in Seq(S)

Pending == Range(queue) \cup UNION Range(running)

CallType ==
  /\ call = [c \in Clients |-> call[c]]
  /\ \A c \in Clients :
       /\ call[c] = [stage |-> call[c].stage, blocks |-> call[c].blocks,
                     pushed |-> call[c].pushed, results |-> call[c].results,
                     asked |-> call[c].asked, cached |-> call[c].cached]
       /\ call[c].blocks \in Seq(Streams) /\ IsSequence(call[c].results)
       /\ call[c].pushed \in Nat /\ call[c].pushed =< Len(call[c].blocks)

\* What a call has done by each stage.
Staged ==
  \A c \in Clients :
    /\ Len(call[c].blocks) =< MaxTasks
    /\ call[c].stage = "idle" \/ Len(call[c].blocks) =< 1 => call[c].pushed = 0
    /\ call[c].stage \in {"idle", "submit"} => call[c].results = <<>>
    /\ call[c].stage = "returned" => Len(call[c].results) = Len(call[c].blocks)
    /\ c \in notifying => call[c].stage = "submit" /\ Len(call[c].blocks) > 1
    /\ InCall(c) => call[c].asked = target /\ call[c].cached = enabled

\* A task is in one place.
PlacedOnce ==
  /\ \A i, j \in DOMAIN queue : queue[i] = queue[j] => i = j
  /\ \A w \in Workers : \A t \in running[w] :
       /\ running[w] = {t} /\ t \notin Range(queue)
       /\ \A v \in Workers : t \in running[v] => v = w
  /\ \A f \in futures : f.task \notin Pending

\* A pending task was pushed, and its result not yet asked for.
Numbered ==
  /\ \A t \in Pending : Len(call[t[1]].results) < t[2] /\ t[2] =< call[t[1]].pushed
  /\ \A f \in futures : f.task \in Task /\ f.task[2] =< call[f.task[1]].pushed

ExpectedOf(c, k) == Answer(call[c].asked, call[c].blocks[k])
Given(out) == [refused |-> FALSE, out |-> out]

\* What is ready, and what a call holds, is what the rules give.
Answered ==
  /\ \A f \in futures : f.reply = ExpectedOf(f.task[1], f.task[2])
  /\ \A c \in Clients : ~ call[c].cached =>
       /\ \A k \in 1 .. Len(call[c].results) : ExpectedOf(c, k) = Given(call[c].results[k])
       /\ call[c].stage = "raised" => ExpectedOf(c, Len(call[c].results) + 1).refused

CallInv == PoolInv /\ CallType /\ Staged /\ PlacedOnce /\ Numbered /\ Answered

LEMMA PendingTasks == PoolTypeOK => Pending \subseteq Task
BY DEF PoolTypeOK, Pending, Range

LEMMA InitCallInv == CallInit => CallInv
<1> SUFFICES ASSUME CallInit PROVE CallInv
  OBVIOUS
<1>1. PoolInv
  BY InitPoolInv DEF CallInit
<1>2. call = [c \in Clients |-> NewCall("idle", <<>>)] /\ futures = {}
  BY DEF CallInit
<1>3. Pending = {} /\ notifying = {} /\ queue = <<>> /\ \A w \in Workers : running[w] = {}
  BY DEF CallInit, PoolInit, Pending, Range
<1>4. \A c \in Clients : call[c] = NewCall("idle", <<>>)
  BY <1>2
<1>5. IsSequence(<<>>)
  <2>1. <<>> \in Seq({})
    OBVIOUS
  <2> QED
    BY <2>1 DEF IsSequence
<1>6. CallType
  <2>1. call = [c \in Clients |-> call[c]]
    BY <1>2
  <2>2. ASSUME NEW c \in Clients
        PROVE  /\ call[c].stage = "idle" /\ call[c].blocks = <<>> /\ call[c].pushed = 0
               /\ call[c].results = <<>> /\ call[c].asked = target /\ call[c].cached = enabled
    BY <1>4 DEF NewCall
  <2>3. ASSUME NEW c \in Clients
        PROVE  call[c] = [stage |-> call[c].stage, blocks |-> call[c].blocks,
                          pushed |-> call[c].pushed, results |-> call[c].results,
                          asked |-> call[c].asked, cached |-> call[c].cached]
    BY <1>4 DEF NewCall
  <2>4. ASSUME NEW c \in Clients
        PROVE  /\ call[c].blocks \in Seq(Streams) /\ IsSequence(call[c].results)
               /\ call[c].pushed \in Nat /\ call[c].pushed =< Len(call[c].blocks)
    <3>1. <<>> \in Seq(Streams) /\ 0 \in Nat /\ 0 =< Len(<<>>)
      OBVIOUS
    <3> QED
      BY <1>5, <2>2, <3>1
  <2> QED
    BY <2>1, <2>3, <2>4 DEF CallType
<1>7. Staged
  <2>1. Len(<<>>) =< MaxTasks
    BY PoolAssumption
  <2> QED
    BY <1>3, <1>4, <2>1 DEF Staged, NewCall, InCall
<1>8. PlacedOnce
  BY <1>2, <1>3 DEF PlacedOnce
<1>9. Numbered
  BY <1>2, <1>3 DEF Numbered
<1>10. Answered
  BY <1>2, <1>4 DEF Answered, NewCall
<1> QED
  BY <1>1, <1>6, <1>7, <1>8, <1>9, <1>10 DEF CallInv

\* The invariant gives the property.
LEMMA CallInvExact == CallInv => CallsExact
<1> SUFFICES ASSUME CallInv, NEW c \in Clients
             PROVE  /\ call[c].stage = "returned" =>
                         TasksIn(c) = {} /\ Len(call[c].results) = Len(call[c].blocks)
                    /\ ~ call[c].cached =>
                         /\ \A k \in 1 .. Len(call[c].results) :
                              Answer(call[c].asked, call[c].blocks[k])
                                = [refused |-> FALSE, out |-> call[c].results[k]]
                         /\ call[c].stage = "raised" =>
                              Answer(call[c].asked, call[c].blocks[Len(call[c].results) + 1]).refused
  BY DEF CallsExact
<1>1. ASSUME call[c].stage = "returned" PROVE TasksIn(c) = {}
  <2> SUFFICES ASSUME NEW t \in Pending, t[1] = c PROVE FALSE
    BY DEF TasksIn, Pending
  <2>1. t[2] \in Nat
    BY PendingTasks DEF CallInv, PoolInv, Task
  <2>2. Len(call[c].results) < t[2] /\ t[2] =< call[c].pushed
    BY DEF CallInv, Numbered
  <2>3. call[c].pushed =< Len(call[c].blocks) /\ call[c].pushed \in Nat /\ call[c].blocks \in Seq(Streams)
    BY DEF CallInv, CallType
  <2>4. Len(call[c].results) = Len(call[c].blocks)
    BY <1>1 DEF CallInv, Staged
  <2>5. Len(call[c].blocks) \in Nat
    BY <2>3
  <2> HIDE DEF CallInv
  <2> QED
    BY <2>1, <2>2, <2>3, <2>4, <2>5
<1>2. call[c].stage = "returned" => Len(call[c].results) = Len(call[c].blocks)
  BY DEF CallInv, Staged
<1> QED
  BY <1>1, <1>2 DEF CallInv, Answered, ExpectedOf, Given

------------------------------------------------------------------------------
\* What an update of one call leaves to show.
LEMMA CallUpdated ==
  ASSUME CallType, NEW c \in Clients, NEW r, call' = [call EXCEPT ![c] = r],
         r = [stage |-> r.stage, blocks |-> r.blocks, pushed |-> r.pushed,
              results |-> r.results, asked |-> r.asked, cached |-> r.cached],
         r.blocks \in Seq(Streams), IsSequence(r.results),
         r.pushed \in Nat, r.pushed =< Len(r.blocks)
  PROVE  /\ CallType'
         /\ call'[c] = r
         /\ \A d \in Clients : d # c => call'[d] = call[d]
<1>1. call'[c] = r /\ \A d \in Clients : d # c => call'[d] = call[d]
  BY DEF CallType
<1>2. call' = [d \in Clients |-> call'[d]]
  BY DEF CallType
<1>3. ASSUME NEW d \in Clients
      PROVE  /\ call'[d] = [stage |-> call'[d].stage, blocks |-> call'[d].blocks,
                            pushed |-> call'[d].pushed, results |-> call'[d].results,
                            asked |-> call'[d].asked, cached |-> call'[d].cached]
             /\ call'[d].blocks \in Seq(Streams) /\ IsSequence(call'[d].results)
             /\ call'[d].pushed \in Nat /\ call'[d].pushed =< Len(call'[d].blocks)
  <2>1. CASE d = c
    BY <1>1, <2>1
  <2>2. CASE d # c
    BY <1>1, <2>2 DEF CallType
  <2> QED
    BY <2>1, <2>2
<1>4. CallType'
  BY <1>2, <1>3 DEF CallType
<1> QED
  BY <1>1, <1>4

\* Steps that move no task and touch no call: workers that wait, wake up or
\* leave, the destructor, and whoever changes the rules between calls.
LEMMA QuietStep ==
  ASSUME CallInv, PoolInv', UNCHANGED <<call, futures, queue, running, notifying>>,
         (\A c \in Clients : ~ InCall(c)) \/ UNCHANGED <<target, enabled>>
  PROVE  CallInv'
<1>1. CallType'
  BY DEF CallInv, CallType
<1>2. Staged'
  BY DEF CallInv, Staged, InCall
<1>3. Pending' = Pending
  BY DEF Pending
<1>4. PlacedOnce'
  BY <1>3 DEF CallInv, PlacedOnce
<1>5. Numbered'
  BY <1>3 DEF CallInv, Numbered
<1>6. Answered'
  BY DEF CallInv, Answered, ExpectedOf
<1> QED
  BY <1>1, <1>2, <1>4, <1>5, <1>6 DEF CallInv

LEMMA TakeKeepsCallInv ==
  ASSUME CallInv, PoolInv', NEW w \in Workers, Take(w),
         UNCHANGED <<call, futures, target, enabled>>
  PROVE  CallInv'
<1>1. CallType'
  BY DEF CallInv, CallType
<1>2. Staged'
  BY DEF CallInv, Staged, InCall, Take
<1>3. Answered'
  BY DEF CallInv, Answered, ExpectedOf
<1> DEFINE h == Head(queue)
<1>4. queue \in Seq(Task) /\ queue # <<>> /\ running \in [Workers -> SUBSET Task]
  BY DEF CallInv, PoolInv, PoolTypeOK, Take
<1>5. /\ queue' = Tail(queue) /\ running' = [running EXCEPT ![w] = {h}]
      /\ running[w] = {}
  BY DEF Take, Looking
<1>6. /\ h = queue[1]
      /\ Len(queue') = Len(queue) - 1 /\ Len(queue) \in Nat \ {0}
      /\ \A i \in 1 .. Len(queue) - 1 : queue'[i] = queue[i + 1]
  BY <1>4, <1>5
<1>7. Range(queue) = Range(queue') \cup {h}
  <2>1. DOMAIN queue = 1 .. Len(queue) /\ DOMAIN queue' = 1 .. Len(queue) - 1
    BY <1>4, <1>5, <1>6
  <2>2. ASSUME NEW i \in DOMAIN queue PROVE queue[i] \in Range(queue') \cup {h}
    <3>1. CASE i = 1
      BY <1>6, <3>1
    <3>2. CASE i # 1
      <4>1. i - 1 \in DOMAIN queue' /\ queue'[i - 1] = queue[i]
        BY <1>6, <2>1, <3>2
      <4> QED
        BY <4>1 DEF Range
    <3> QED
      BY <3>1, <3>2
  <2>3. ASSUME NEW i \in DOMAIN queue' PROVE queue'[i] \in Range(queue)
    <3>1. i + 1 \in DOMAIN queue /\ queue'[i] = queue[i + 1]
      BY <1>6, <2>1
    <3> QED
      BY <3>1 DEF Range
  <2>4. h \in Range(queue)
    BY <1>6, <2>1 DEF Range
  <2> QED
    BY <2>2, <2>3, <2>4 DEF Range
<1>8. h \notin Range(queue')
  <2> SUFFICES ASSUME NEW i \in DOMAIN queue', queue'[i] = h PROVE FALSE
    BY DEF Range
  <2>1. i \in 1 .. Len(queue) - 1 /\ i + 1 \in DOMAIN queue /\ 1 \in DOMAIN queue
    BY <1>4, <1>5, <1>6
  <2>2. queue[i + 1] = queue[1]
    BY <1>6, <2>1
  <2>3. i + 1 = 1
    BY <2>1, <2>2 DEF CallInv, PlacedOnce
  <2> QED
    BY <2>1, <2>3
<1>9. UNION Range(running') = (UNION Range(running)) \cup {h}
  <2>1. \A v \in Workers : running'[v] = IF v = w THEN {h} ELSE running[v]
    BY <1>4, <1>5
  <2>2. DOMAIN running = Workers /\ DOMAIN running' = Workers
    BY <1>4, <1>5
  <2> QED
    BY <1>5, <2>1, <2>2 DEF Range
<1>10. Pending' = Pending
  BY <1>7, <1>9 DEF Pending
<1>11. Numbered'
  BY <1>10 DEF CallInv, Numbered
<1>12. PlacedOnce'
  <2>1. \A i, j \in DOMAIN queue' : queue'[i] = queue'[j] => i = j
    <3> SUFFICES ASSUME NEW i \in DOMAIN queue', NEW j \in DOMAIN queue', queue'[i] = queue'[j]
                 PROVE  i = j
      OBVIOUS
    <3>1. i \in 1 .. Len(queue) - 1 /\ j \in 1 .. Len(queue) - 1
      BY <1>4, <1>5, <1>6
    <3>2. i + 1 \in DOMAIN queue /\ j + 1 \in DOMAIN queue /\ queue[i + 1] = queue[j + 1]
      BY <1>4, <1>6, <3>1
    <3>3. i + 1 = j + 1
      BY <3>2 DEF CallInv, PlacedOnce
    <3> QED
      BY <3>1, <3>3
  <2>2. ASSUME NEW v \in Workers, NEW t \in running'[v]
        PROVE  /\ running'[v] = {t} /\ t \notin Range(queue')
               /\ \A u \in Workers : t \in running'[u] => u = v
    <3>1. \A u \in Workers : running'[u] = IF u = w THEN {h} ELSE running[u]
      BY <1>4, <1>5
    <3>2. \A u \in Workers : h \notin running[u]
      BY <1>7 DEF CallInv, PlacedOnce
    <3>3. CASE v = w
      BY <1>8, <3>1, <3>2, <3>3
    <3>4. CASE v # w
      <4>1. t \in running[v]
        BY <3>1, <3>4
      <4>2. /\ running[v] = {t} /\ t \notin Range(queue)
            /\ \A u \in Workers : t \in running[u] => u = v
        BY <4>1 DEF CallInv, PlacedOnce
      <4>3. t # h
        BY <3>2, <4>1
      <4> QED
        BY <1>7, <3>1, <3>4, <4>2, <4>3
    <3> QED
      BY <3>3, <3>4
  <2>3. \A f \in futures' : f.task \notin Pending'
    BY <1>10 DEF CallInv, PlacedOnce
  <2> QED
    BY <2>1, <2>2, <2>3 DEF PlacedOnce
<1> QED
  BY <1>1, <1>2, <1>3, <1>11, <1>12 DEF CallInv

LEMMA TaskFields ==
  ASSUME NEW t \in Task
  PROVE  t[1] \in Clients /\ t[2] \in Nat /\ t[2] >= 1 /\ t = <<t[1], t[2]>>
BY PoolAssumption DEF Task

\* A client with nothing pushed has no task anywhere.
LEMMA NothingPushed ==
  ASSUME CallInv, NEW c \in Clients, call[c].pushed = 0
  PROVE  /\ \A t \in Pending : t[1] # c
         /\ \A f \in futures : f.task[1] # c
<1>1. \A t \in Pending : t \in Task /\ t[2] =< call[t[1]].pushed
  BY PendingTasks DEF CallInv, PoolInv, Numbered
<1>2. \A f \in futures : f.task \in Task /\ f.task[2] =< call[f.task[1]].pushed
  BY DEF CallInv, Numbered
<1>3. ASSUME NEW t \in Task, t[2] =< call[t[1]].pushed PROVE t[1] # c
  <2>1. t[2] \in Nat /\ t[2] >= 1
    BY TaskFields
  <2> QED
    BY <1>3, <2>1
<1> QED
  BY <1>1, <1>2, <1>3

LEMMA BeginKeepsCallInv ==
  ASSUME CallInv, PoolInv', NEW c \in Clients, NEW l \in Lists, Begin(c, l)
  PROVE  CallInv'
<1> DEFINE r == NewCall("submit", l)
<1>1. /\ call' = [call EXCEPT ![c] = r] /\ call[c].stage = "idle"
      /\ queue' = queue /\ running' = running /\ notifying' = notifying
      /\ target' = target /\ enabled' = enabled /\ futures' = futures
  BY DEF Begin, poolVars, cacheVars
<1>2. /\ r.stage = "submit" /\ r.blocks = l /\ r.pushed = 0 /\ r.results = <<>>
      /\ r.asked = target /\ r.cached = enabled
      /\ r = [stage |-> r.stage, blocks |-> r.blocks, pushed |-> r.pushed,
              results |-> r.results, asked |-> r.asked, cached |-> r.cached]
  BY DEF NewCall
<1> HIDE DEF r
<1>3. l \in Seq(Streams) /\ Len(l) =< MaxTasks /\ 0 \in Nat /\ 0 =< Len(l) /\ IsSequence(<<>>)
  <2>1. l \in Seq(Streams) /\ Len(l) =< MaxTasks
    BY CallAssumption
  <2>2. <<>> \in Seq({}) /\ 0 \in Nat /\ 0 =< Len(l)
    BY <2>1
  <2> QED
    BY <2>1, <2>2 DEF IsSequence
<1>4. CallType' /\ call'[c] = r /\ \A d \in Clients : d # c => call'[d] = call[d]
  <2>1. CallType
    BY DEF CallInv
  <2> QED
    BY <1>1, <1>2, <1>3, <2>1, CallUpdated
<1>5. Pending' = Pending
  BY <1>1 DEF Pending
<1>6. \A t \in Pending : t[1] # c /\ t[1] \in Clients
  BY NothingPushed, PendingTasks, TaskFields DEF CallInv, Staged, PoolInv, Begin
<1>7. \A f \in futures : f.task[1] # c /\ f.task[1] \in Clients
  <2>1. \A f \in futures : f.task \in Task
    BY DEF CallInv, Numbered
  <2> QED
    BY <2>1, NothingPushed, TaskFields DEF CallInv, Staged, Begin
<1>8. Staged'
  <2>1. c \notin notifying
    BY <1>1 DEF CallInv, Staged
  <2> SUFFICES ASSUME NEW d \in Clients
               PROVE  /\ Len(call'[d].blocks) =< MaxTasks
                      /\ call'[d].stage = "idle" \/ Len(call'[d].blocks) =< 1 => call'[d].pushed = 0
                      /\ call'[d].stage \in {"idle", "submit"} => call'[d].results = <<>>
                      /\ call'[d].stage = "returned" => Len(call'[d].results) = Len(call'[d].blocks)
                      /\ d \in notifying => call'[d].stage = "submit" /\ Len(call'[d].blocks) > 1
                      /\ call'[d].stage \in {"submit", "get"} =>
                           call'[d].asked = target /\ call'[d].cached = enabled
    BY <1>1 DEF Staged, InCall
  <2>2. CASE d = c
    BY <1>2, <1>3, <1>4, <2>1, <2>2
  <2>3. CASE d # c
    BY <1>4, <2>3 DEF CallInv, Staged, InCall
  <2> QED
    BY <2>2, <2>3
<1>9. PlacedOnce'
  BY <1>1, <1>5 DEF CallInv, PlacedOnce
<1>10. Numbered'
  BY <1>1, <1>4, <1>5, <1>6, <1>7 DEF CallInv, Numbered
<1>11. Answered'
  <2>1. \A f \in futures' : f.reply = ExpectedOf(f.task[1], f.task[2])'
    BY <1>1, <1>4, <1>7 DEF CallInv, Answered, ExpectedOf
  <2>2. ASSUME NEW d \in Clients, ~ call'[d].cached
        PROVE  /\ \A k \in 1 .. Len(call'[d].results) :
                    ExpectedOf(d, k)' = Given(call'[d].results[k])
               /\ call'[d].stage = "raised" => ExpectedOf(d, Len(call[d].results) + 1)'.refused
    <3>1. CASE d = c
      BY <1>2, <1>4, <3>1
    <3>2. CASE d # c
      <4>1. call'[d] = call[d]
        BY <1>4, <3>2
      <4>2. \A k : ExpectedOf(d, k)' = ExpectedOf(d, k)
        BY <4>1 DEF ExpectedOf
      <4>3. /\ \A k \in 1 .. Len(call[d].results) : ExpectedOf(d, k) = Given(call[d].results[k])
            /\ call[d].stage = "raised" => ExpectedOf(d, Len(call[d].results) + 1).refused
        BY <2>2, <4>1 DEF CallInv, Answered
      <4> QED
        BY <4>1, <4>2, <4>3
    <3> QED
      BY <3>1, <3>2
  <2> QED
    BY <2>1, <2>2 DEF Answered, ExpectedOf
<1> QED
  BY <1>4, <1>8, <1>9, <1>10, <1>11 DEF CallInv

\* What a step of one client has to show when it leaves the pool's tasks alone.
LEMMA CallMoves ==
  ASSUME CallInv, PoolInv', NEW c \in Clients, CallType',
         queue' = queue, running' = running, target' = target, enabled' = enabled,
         futures' \subseteq futures, notifying' \subseteq notifying,
         \A d \in Clients : d # c => call'[d] = call[d],
         /\ call'[c].blocks = call[c].blocks /\ call'[c].pushed = call[c].pushed
         /\ call'[c].asked = call[c].asked /\ call'[c].cached = call[c].cached,
         InCall(c), call'[c].stage # "idle",
         call'[c].stage = "submit" => call'[c].results = <<>>,
         call'[c].stage = "returned" => Len(call'[c].results) = Len(call'[c].blocks),
         c \in notifying' => call'[c].stage = "submit",
         \A t \in Pending : t[1] = c => Len(call'[c].results) < t[2],
         ~ call[c].cached =>
           /\ \A k \in 1 .. Len(call'[c].results) : ExpectedOf(c, k) = Given(call'[c].results[k])
           /\ call'[c].stage = "raised" => ExpectedOf(c, Len(call'[c].results) + 1).refused
  PROVE  CallInv'
<1>1. Pending' = Pending /\ \A t \in Pending : t \in Task /\ t[1] \in Clients
  BY PendingTasks, TaskFields DEF Pending, CallInv, PoolInv
<1>2. Staged'
  <2> SUFFICES ASSUME NEW d \in Clients
               PROVE  /\ Len(call'[d].blocks) =< MaxTasks
                      /\ call'[d].stage = "idle" \/ Len(call'[d].blocks) =< 1 => call'[d].pushed = 0
                      /\ call'[d].stage \in {"idle", "submit"} => call'[d].results = <<>>
                      /\ call'[d].stage = "returned" => Len(call'[d].results) = Len(call'[d].blocks)
                      /\ d \in notifying' => call'[d].stage = "submit" /\ Len(call'[d].blocks) > 1
                      /\ call'[d].stage \in {"submit", "get"} =>
                           call'[d].asked = target /\ call'[d].cached = enabled
    BY DEF Staged, InCall
  <2>1. CASE d = c
    <3>1. call[c].asked = target /\ call[c].cached = enabled
      BY DEF CallInv, Staged
    <3>2. c \in notifying => Len(call[c].blocks) > 1
      BY DEF CallInv, Staged
    <3>3. Len(call[c].blocks) =< MaxTasks /\ (Len(call[c].blocks) =< 1 => call[c].pushed = 0)
      BY DEF CallInv, Staged
    <3> QED
      BY <2>1, <3>1, <3>2, <3>3
  <2>2. CASE d # c
    BY <2>2 DEF CallInv, Staged, InCall
  <2> QED
    BY <2>1, <2>2
<1>3. PlacedOnce'
  BY <1>1 DEF CallInv, PlacedOnce
<1>4. Numbered'
  <2>1. ASSUME NEW t \in Pending
        PROVE  Len(call'[t[1]].results) < t[2] /\ t[2] =< call'[t[1]].pushed
    <3>1. Len(call[t[1]].results) < t[2] /\ t[2] =< call[t[1]].pushed /\ t[1] \in Clients
      BY <1>1 DEF CallInv, Numbered
    <3>2. CASE t[1] = c
      BY <3>1, <3>2
    <3>3. CASE t[1] # c
      BY <3>1, <3>3
    <3> QED
      BY <3>2, <3>3
  <2>2. ASSUME NEW f \in futures' PROVE f.task \in Task /\ f.task[2] =< call'[f.task[1]].pushed
    <3>1. f.task \in Task /\ f.task[2] =< call[f.task[1]].pushed
      BY DEF CallInv, Numbered
    <3>2. f.task[1] \in Clients
      BY <3>1, TaskFields
    <3> QED
      BY <3>1, <3>2
  <2> QED
    BY <1>1, <2>1, <2>2 DEF Numbered
<1>5. \A d \in Clients : \A k : ExpectedOf(d, k)' = ExpectedOf(d, k)
  <2> TAKE d \in Clients
  <2> TAKE k
  <2>1. call'[d].asked = call[d].asked /\ call'[d].blocks = call[d].blocks
    OBVIOUS
  <2> QED
    BY <2>1 DEF ExpectedOf
<1>6. Answered'
  <2>1. ASSUME NEW f \in futures' PROVE f.reply = ExpectedOf(f.task[1], f.task[2])'
    <3>1. f \in futures /\ f.task[1] \in Clients
      <4>1. f \in futures /\ f.task \in Task
        BY DEF CallInv, Numbered
      <4> QED
        BY <4>1, TaskFields
    <3>2. f.reply = ExpectedOf(f.task[1], f.task[2])
      BY <3>1 DEF CallInv, Answered
    <3> QED
      BY <1>5, <3>1, <3>2
  <2>2. ASSUME NEW d \in Clients, ~ call'[d].cached
        PROVE  /\ \A k \in 1 .. Len(call'[d].results) :
                    ExpectedOf(d, k)' = Given(call'[d].results[k])
               /\ call'[d].stage = "raised" => ExpectedOf(d, Len(call[d].results) + 1)'.refused
    <3>1. CASE d = c
      <4>1. ~ call[c].cached
        BY <2>2, <3>1
      <4>2. \A k : ExpectedOf(d, k)' = ExpectedOf(c, k)
        BY <1>5, <3>1
      <4>3. ExpectedOf(d, Len(call[d].results) + 1)' = ExpectedOf(c, Len(call'[c].results) + 1)
        BY <3>1 DEF ExpectedOf
      <4> QED
        BY <3>1, <4>1, <4>2, <4>3
    <3>2. CASE d # c
      <4>1. call'[d] = call[d]
        BY <3>2
      <4>2. /\ \A k \in 1 .. Len(call[d].results) : ExpectedOf(d, k) = Given(call[d].results[k])
            /\ call[d].stage = "raised" => ExpectedOf(d, Len(call[d].results) + 1).refused
        BY <2>2, <4>1 DEF CallInv, Answered
      <4>3. ExpectedOf(d, Len(call[d].results) + 1)' = ExpectedOf(d, Len(call[d].results) + 1)
        BY <4>1 DEF ExpectedOf
      <4> QED
        BY <1>5, <4>1, <4>2, <4>3
    <3> QED
      BY <3>1, <3>2
  <2> QED
    BY <2>1, <2>2 DEF Answered
<1> QED
  BY <1>2, <1>3, <1>4, <1>6 DEF CallInv

LEMMA Left ==
  ASSUME CallType, NEW c \in Clients, NEW stage, NEW results, IsSequence(results),
         Leave(c, stage, results)
  PROVE  /\ CallType'
         /\ \A d \in Clients : d # c => call'[d] = call[d]
         /\ call'[c].stage = stage /\ call'[c].results = results
         /\ call'[c].blocks = call[c].blocks /\ call'[c].pushed = call[c].pushed
         /\ call'[c].asked = call[c].asked /\ call'[c].cached = call[c].cached
<1> DEFINE r == [stage |-> stage, blocks |-> call[c].blocks, pushed |-> call[c].pushed,
                 results |-> results, asked |-> call[c].asked, cached |-> call[c].cached]
<1>1. call[c] = [stage |-> call[c].stage, blocks |-> call[c].blocks,
                 pushed |-> call[c].pushed, results |-> call[c].results,
                 asked |-> call[c].asked, cached |-> call[c].cached]
  BY DEF CallType
<1>2. call' = [call EXCEPT ![c] = [[@ EXCEPT !.stage = stage] EXCEPT !.results = results]]
  BY DEF Leave, CallType
<1>3. [[call[c] EXCEPT !.stage = stage] EXCEPT !.results = results] = r
  <2>1. PICK q, st, b, p, rs, a, h :
          /\ q = call[c] /\ st = call[c].stage /\ b = call[c].blocks /\ p = call[c].pushed
          /\ rs = call[c].results /\ a = call[c].asked /\ h = call[c].cached
    OBVIOUS
  <2>2. q = [stage |-> st, blocks |-> b, pushed |-> p, results |-> rs, asked |-> a, cached |-> h]
    BY <1>1, <2>1
  <2>3. PICK u : u = [q EXCEPT !.stage = stage]
    OBVIOUS
  <2>4. u = [stage |-> stage, blocks |-> b, pushed |-> p, results |-> rs, asked |-> a, cached |-> h]
    BY <2>2, <2>3
  <2>5. [u EXCEPT !.results = results]
          = [stage |-> stage, blocks |-> b, pushed |-> p, results |-> results, asked |-> a, cached |-> h]
    BY <2>4
  <2> QED
    BY <2>1, <2>3, <2>5, Zenon
<1>4. call' = [call EXCEPT ![c] = r]
  BY <1>2, <1>3
<1>5. /\ r.stage = stage /\ r.blocks = call[c].blocks /\ r.pushed = call[c].pushed
      /\ r.results = results /\ r.asked = call[c].asked /\ r.cached = call[c].cached
  OBVIOUS
<1>6. r.blocks \in Seq(Streams) /\ r.pushed \in Nat /\ r.pushed =< Len(r.blocks)
  BY DEF CallType
<1>7. r = [stage |-> r.stage, blocks |-> r.blocks, pushed |-> r.pushed,
           results |-> r.results, asked |-> r.asked, cached |-> r.cached]
  OBVIOUS
<1> HIDE DEF r
<1>8. CallType' /\ call'[c] = r /\ \A d \in Clients : d # c => call'[d] = call[d]
  BY <1>4, <1>5, <1>6, <1>7, CallUpdated
<1> QED
  BY <1>5, <1>8

\* A step that moves no task and leaves the call.
LEMMA LeaveKeepsCallInv ==
  ASSUME CallInv, PoolInv', NEW c \in Clients, NEW stage, NEW results, IsSequence(results),
         Leave(c, stage, results), stage \in {"returned", "raised"},
         queue' = queue, running' = running, target' = target, enabled' = enabled,
         futures' \subseteq futures, notifying' = notifying, InCall(c), c \notin notifying,
         stage = "returned" => Len(results) = Len(call[c].blocks),
         \A t \in Pending : t[1] = c => Len(results) < t[2],
         ~ call[c].cached =>
           /\ \A k \in 1 .. Len(results) : ExpectedOf(c, k) = Given(results[k])
           /\ stage = "raised" => ExpectedOf(c, Len(results) + 1).refused
  PROVE  CallInv'
<1>1. CallType
  BY DEF CallInv
<1>2. /\ CallType'
      /\ \A d \in Clients : d # c => call'[d] = call[d]
      /\ call'[c].stage = stage /\ call'[c].results = results
      /\ call'[c].blocks = call[c].blocks /\ call'[c].pushed = call[c].pushed
      /\ call'[c].asked = call[c].asked /\ call'[c].cached = call[c].cached
  BY <1>1, Left
<1>3. /\ call'[c].stage # "idle" /\ call'[c].stage # "submit" /\ notifying' \subseteq notifying
      /\ call'[c].stage = "returned" => Len(call'[c].results) = Len(call'[c].blocks)
      /\ c \in notifying' => call'[c].stage = "submit"
      /\ \A t \in Pending : t[1] = c => Len(call'[c].results) < t[2]
  BY <1>2
<1>4. ~ call[c].cached =>
        /\ \A k \in 1 .. Len(call'[c].results) : ExpectedOf(c, k) = Given(call'[c].results[k])
        /\ call'[c].stage = "raised" => ExpectedOf(c, Len(call'[c].results) + 1).refused
  BY <1>2
<1> QED
  BY <1>2, <1>3, <1>4, CallMoves

LEMMA ReturnEmptyKeepsCallInv ==
  ASSUME CallInv, PoolInv', NEW c \in Clients, ReturnEmpty(c)
  PROVE  CallInv'
<1>1. /\ call[c].stage = "submit" /\ call[c].blocks = <<>> /\ Leave(c, "returned", <<>>)
      /\ queue' = queue /\ running' = running /\ notifying' = notifying
      /\ target' = target /\ enabled' = enabled /\ futures' = futures
  BY DEF ReturnEmpty, poolVars, cacheVars
<1>2. IsSequence(<<>>) /\ Len(<<>>) = 0
  <2>1. <<>> \in Seq({})
    OBVIOUS
  <2> QED
    BY <2>1 DEF IsSequence
<1>3. call[c].pushed = 0 /\ c \notin notifying
  <2>1. call[c].pushed \in Nat /\ call[c].pushed =< Len(call[c].blocks)
    BY DEF CallInv, CallType
  <2>2. c \in notifying => Len(call[c].blocks) > 1
    BY DEF CallInv, Staged
  <2> QED
    BY <1>1, <2>1, <2>2
<1>4. \A t \in Pending : t[1] # c
  BY <1>3, NothingPushed
<1> QED
  BY <1>1, <1>2, <1>3, <1>4, LeaveKeepsCallInv DEF InCall

\* What one stream is answered.
LEMMA AnswerForm ==
  ASSUME NEW t, NEW s, ~ Answer(t, s).refused
  PROVE  Answer(t, s) = Given(Answer(t, s).out)
BY DEF Answer, Given

LEMMA SingletonSeq ==
  ASSUME NEW x
  PROVE  /\ IsSequence(<<x>>) /\ Len(<<x>>) = 1
         /\ \A k \in 1 .. 1 : <<x>>[k] = x
<1>1. <<x>> \in Seq({x}) /\ Len(<<x>>) = 1 /\ <<x>>[1] = x
  OBVIOUS
<1>2. IsSequence(<<x>>)
  BY <1>1 DEF IsSequence
<1> QED
  BY <1>1, <1>2

LEMMA TranspileAloneKeepsCallInv ==
  ASSUME CallInv, PoolInv', NEW c \in Clients, TranspileAlone(c)
  PROVE  CallInv'
<1> DEFINE s == call[c].blocks[1]
           reply == Reply(s)
<1>1. /\ call[c].stage = "submit" /\ Len(call[c].blocks) = 1
      /\ queue' = queue /\ running' = running /\ notifying' = notifying
      /\ target' = target /\ enabled' = enabled /\ futures' = futures
      /\ IF reply.refused THEN Leave(c, "raised", <<>>) ELSE Leave(c, "returned", <<reply.out>>)
  BY DEF TranspileAlone, Transpile, poolVars
<1>2. IsSequence(<<>>) /\ Len(<<>>) = 0
  <2>1. <<>> \in Seq({})
    OBVIOUS
  <2> QED
    BY <2>1 DEF IsSequence
<1>3. call[c].pushed = 0 /\ c \notin notifying
  <2>1. /\ Len(call[c].blocks) =< 1 => call[c].pushed = 0
        /\ c \in notifying => Len(call[c].blocks) > 1
    BY DEF CallInv, Staged
  <2> HIDE DEF reply
  <2> QED
    BY <1>1, <2>1
<1>4. \A t \in Pending : t[1] # c
  BY <1>3, NothingPushed
<1>5. ~ call[c].cached => ExpectedOf(c, 1) = reply
  <2>1. call[c].asked = target /\ call[c].cached = enabled
    BY <1>1 DEF CallInv, Staged, InCall
  <2>2. ~ enabled => reply = Answer(target, s)
    BY DEF Reply, Cached
  <2> QED
    BY <2>1, <2>2 DEF ExpectedOf
<1>6. ~ call[c].cached /\ ~ reply.refused => ExpectedOf(c, 1) = Given(reply.out)
  BY <1>5, AnswerForm DEF ExpectedOf
<1> HIDE DEF reply
<1>7. CASE reply.refused
  <2>1. Leave(c, "raised", <<>>)
    BY <1>1, <1>7
  <2>2. ~ call[c].cached => ExpectedOf(c, 0 + 1).refused
    BY <1>5, <1>7
  <2> QED
    BY <1>1, <1>2, <1>3, <1>4, <2>1, <2>2, LeaveKeepsCallInv DEF InCall
<1>8. CASE ~ reply.refused
  <2>1. Leave(c, "returned", <<reply.out>>)
    BY <1>1, <1>8
  <2>2. IsSequence(<<reply.out>>) /\ Len(<<reply.out>>) = 1
    BY SingletonSeq
  <2>3. ~ call[c].cached => \A k \in 1 .. 1 : ExpectedOf(c, k) = Given(<<reply.out>>[k])
    <3> SUFFICES ASSUME ~ call[c].cached, NEW k \in 1 .. 1
                 PROVE  ExpectedOf(c, k) = Given(<<reply.out>>[k])
      OBVIOUS
    <3>1. k = 1
      OBVIOUS
    <3>2. <<reply.out>>[k] = reply.out
      BY <3>1
    <3> QED
      BY <1>6, <1>8, <3>1, <3>2
  <2> QED
    BY <1>1, <1>3, <1>4, <2>1, <2>2, <2>3, LeaveKeepsCallInv DEF InCall
<1> QED
  BY <1>7, <1>8

LEMMA SubmitKeepsCallInv ==
  ASSUME CallInv, PoolInv', NEW c \in Clients, Submit(c)
  PROVE  CallInv'
<1> DEFINE k == call[c].pushed + 1
           t0 == <<c, k>>
           r == [call[c] EXCEPT !.pushed = k]
<1>1. /\ call[c].stage = "submit" /\ Len(call[c].blocks) > 1 /\ k =< Len(call[c].blocks)
      /\ call' = [call EXCEPT ![c] = r] /\ Push(c, t0)
      /\ target' = target /\ enabled' = enabled /\ futures' = futures
  BY DEF Submit, cacheVars
<1>2. /\ queue' = Append(queue, t0) /\ running' = running
      /\ notifying' = notifying \cup {c}
  BY <1>1 DEF Push
<1>3. queue \in Seq(Task) /\ call[c].pushed \in Nat /\ CallType
  BY DEF CallInv, PoolInv, PoolTypeOK, CallType
<1>4. r = [stage |-> call[c].stage, blocks |-> call[c].blocks, pushed |-> k,
           results |-> call[c].results, asked |-> call[c].asked, cached |-> call[c].cached]
  <2>1. PICK q, st, b, p, rs, a, h :
          /\ q = call[c] /\ st = call[c].stage /\ b = call[c].blocks /\ p = call[c].pushed
          /\ rs = call[c].results /\ a = call[c].asked /\ h = call[c].cached
    OBVIOUS
  <2>2. q = [stage |-> st, blocks |-> b, pushed |-> p, results |-> rs, asked |-> a, cached |-> h]
    BY <1>3, <2>1 DEF CallType
  <2>3. [q EXCEPT !.pushed = k]
          = [stage |-> st, blocks |-> b, pushed |-> k, results |-> rs, asked |-> a, cached |-> h]
    BY <2>2
  <2> QED
    BY <2>1, <2>3, Zenon
<1> HIDE DEF r
<1>5. /\ r.stage = "submit" /\ r.blocks = call[c].blocks /\ r.pushed = k
      /\ r.results = call[c].results /\ r.asked = call[c].asked /\ r.cached = call[c].cached
      /\ r = [stage |-> r.stage, blocks |-> r.blocks, pushed |-> r.pushed,
              results |-> r.results, asked |-> r.asked, cached |-> r.cached]
  BY <1>1, <1>4
<1>6. /\ r.blocks \in Seq(Streams) /\ IsSequence(r.results)
      /\ r.pushed \in Nat /\ r.pushed =< Len(r.blocks)
  <2>1. call[c].blocks \in Seq(Streams) /\ IsSequence(call[c].results)
    BY <1>3 DEF CallType
  <2>2. k \in Nat
    BY <1>3
  <2> QED
    BY <1>1, <1>5, <2>1, <2>2
<1>7. CallType' /\ call'[c] = r /\ \A d \in Clients : d # c => call'[d] = call[d]
  BY <1>1, <1>3, <1>5, <1>6, CallUpdated
<1>8. Pending' = Pending \cup {t0} /\ Range(queue') = Range(queue) \cup {t0}
  <2>1. DOMAIN queue = 1 .. Len(queue) /\ DOMAIN queue' = 1 .. Len(queue) + 1 /\ Len(queue) \in Nat
    BY <1>2, <1>3
  <2>2. /\ \A i \in DOMAIN queue : queue'[i] = queue[i] /\ i \in DOMAIN queue'
        /\ queue'[Len(queue) + 1] = t0 /\ Len(queue) + 1 \in DOMAIN queue'
    BY <1>2, <1>3, <2>1
  <2>3. Range(queue') \subseteq Range(queue) \cup {t0}
    <3> SUFFICES ASSUME NEW i \in DOMAIN queue' PROVE queue'[i] \in Range(queue) \cup {t0}
      BY DEF Range
    <3>1. CASE i \in DOMAIN queue
      BY <2>2, <3>1 DEF Range
    <3>2. CASE i \notin DOMAIN queue
      <4>1. i = Len(queue) + 1
        BY <2>1, <3>2
      <4> QED
        BY <2>2, <4>1
    <3> QED
      BY <3>1, <3>2
  <2>4. Range(queue) \cup {t0} \subseteq Range(queue')
    BY <2>2 DEF Range
  <2> QED
    BY <1>2, <2>3, <2>4 DEF Pending
<1>9. t0[1] = c /\ t0[2] = k
  OBVIOUS
<1>10. t0 \notin Pending /\ \A f \in futures : f.task # t0
  BY <1>3, <1>9 DEF CallInv, Numbered
<1>11. call[c].results = <<>>
  BY <1>1 DEF CallInv, Staged
<1>12. Staged'
  <2> SUFFICES ASSUME NEW d \in Clients
               PROVE  /\ Len(call'[d].blocks) =< MaxTasks
                      /\ call'[d].stage = "idle" \/ Len(call'[d].blocks) =< 1 => call'[d].pushed = 0
                      /\ call'[d].stage \in {"idle", "submit"} => call'[d].results = <<>>
                      /\ call'[d].stage = "returned" => Len(call'[d].results) = Len(call'[d].blocks)
                      /\ d \in notifying' => call'[d].stage = "submit" /\ Len(call'[d].blocks) > 1
                      /\ call'[d].stage \in {"submit", "get"} =>
                           call'[d].asked = target /\ call'[d].cached = enabled
    BY <1>1 DEF Staged, InCall
  <2>1. CASE d = c
    <3>1. call[c].asked = target /\ call[c].cached = enabled /\ Len(call[c].blocks) =< MaxTasks
      BY <1>1 DEF CallInv, Staged, InCall
    <3>2. Len(call[c].blocks) \in Nat
      BY <1>3 DEF CallType
    <3>3. ~ (Len(call[c].blocks) =< 1)
      BY <1>1, <3>2
    <3> QED
      BY <1>1, <1>5, <1>7, <1>11, <2>1, <3>1, <3>3
  <2>2. CASE d # c
    <3>1. call'[d] = call[d] /\ (d \in notifying' <=> d \in notifying)
      BY <1>2, <1>7, <2>2
    <3> QED
      BY <3>1 DEF CallInv, Staged, InCall
  <2> QED
    BY <2>1, <2>2
<1>13. PlacedOnce'
  <2>1. \A i, j \in DOMAIN queue' : queue'[i] = queue'[j] => i = j
    <3> SUFFICES ASSUME NEW i \in DOMAIN queue', NEW j \in DOMAIN queue', queue'[i] = queue'[j]
                 PROVE  i = j
      OBVIOUS
    <3>1. /\ i \in 1 .. Len(queue) + 1 /\ j \in 1 .. Len(queue) + 1 /\ Len(queue) \in Nat
          /\ \A l \in 1 .. Len(queue) : queue'[l] = queue[l]
          /\ queue'[Len(queue) + 1] = t0
      BY <1>2, <1>3
    <3>2. \A l \in 1 .. Len(queue) : queue[l] # t0
      <4>1. \A l \in 1 .. Len(queue) : queue[l] \in Range(queue)
        BY <1>3 DEF Range
      <4> QED
        BY <1>10, <4>1 DEF Pending
    <3>3. CASE i \in 1 .. Len(queue) /\ j \in 1 .. Len(queue)
      <4>1. i \in DOMAIN queue /\ j \in DOMAIN queue /\ queue[i] = queue[j]
        BY <1>3, <3>1, <3>3
      <4> QED
        BY <4>1 DEF CallInv, PlacedOnce
    <3>4. CASE i = Len(queue) + 1
      BY <3>1, <3>2, <3>4
    <3>5. CASE j = Len(queue) + 1
      BY <3>1, <3>2, <3>5
    <3> QED
      BY <3>1, <3>3, <3>4, <3>5
  <2>2. ASSUME NEW w \in Workers, NEW t \in running[w]
        PROVE  /\ running[w] = {t} /\ t \notin Range(queue')
               /\ \A v \in Workers : t \in running[v] => v = w
    <3>1. /\ running[w] = {t} /\ t \notin Range(queue)
          /\ \A v \in Workers : t \in running[v] => v = w
      BY DEF CallInv, PlacedOnce
    <3>2. t \in Pending
      BY DEF Pending, Range, CallInv, PoolInv, PoolTypeOK
    <3> QED
      BY <1>8, <1>10, <3>1, <3>2
  <2>3. \A f \in futures' : f.task \notin Pending'
    BY <1>1, <1>8, <1>10 DEF CallInv, PlacedOnce
  <2> QED
    BY <1>2, <2>1, <2>2, <2>3 DEF PlacedOnce
<1>14. Numbered'
  <2>1. ASSUME NEW t \in Pending' PROVE Len(call'[t[1]].results) < t[2] /\ t[2] =< call'[t[1]].pushed
    <3>1. CASE t = t0
      BY <1>3, <1>5, <1>7, <1>9, <1>11, <3>1
    <3>2. CASE t \in Pending
      <4>1. Len(call[t[1]].results) < t[2] /\ t[2] =< call[t[1]].pushed
        BY <3>2 DEF CallInv, Numbered
      <4>2. t[1] \in Clients /\ t[2] \in Nat
        BY <3>2, PendingTasks, TaskFields DEF CallInv, PoolInv
      <4>3. CASE t[1] = c
        BY <1>3, <1>5, <1>7, <4>1, <4>2, <4>3
      <4>4. CASE t[1] # c
        BY <1>7, <4>1, <4>2, <4>4
      <4> QED
        BY <4>3, <4>4
    <3> QED
      BY <1>8, <3>1, <3>2
  <2>2. ASSUME NEW f \in futures' PROVE f.task \in Task /\ f.task[2] =< call'[f.task[1]].pushed
    <3>1. f.task \in Task /\ f.task[2] =< call[f.task[1]].pushed
      BY <1>1 DEF CallInv, Numbered
    <3>2. f.task[1] \in Clients /\ f.task[2] \in Nat
      BY <3>1, TaskFields
    <3>3. CASE f.task[1] = c
      BY <1>3, <1>5, <1>7, <3>1, <3>2, <3>3
    <3>4. CASE f.task[1] # c
      BY <1>7, <3>1, <3>2, <3>4
    <3> QED
      BY <3>1, <3>3, <3>4
  <2> QED
    BY <2>1, <2>2 DEF Numbered
<1>15. Answered'
  <2>1. \A d \in Clients : /\ call'[d].asked = call[d].asked /\ call'[d].blocks = call[d].blocks
                           /\ call'[d].results = call[d].results /\ call'[d].stage = call[d].stage
                           /\ call'[d].cached = call[d].cached
    BY <1>1, <1>5, <1>7
  <2>2. \A f \in futures : f.task[1] \in Clients
    BY TaskFields DEF CallInv, Numbered
  <2> QED
    BY <1>1, <2>1, <2>2 DEF CallInv, Answered, ExpectedOf
<1> QED
  BY <1>7, <1>12, <1>13, <1>14, <1>15 DEF CallInv

\* One field of a call, changed.
LEMMA StageChanged ==
  ASSUME CallType, NEW c \in Clients, NEW stage, call' = [call EXCEPT ![c].stage = stage]
  PROVE  /\ CallType'
         /\ \A d \in Clients : d # c => call'[d] = call[d]
         /\ call'[c].stage = stage /\ call'[c].results = call[c].results
         /\ call'[c].blocks = call[c].blocks /\ call'[c].pushed = call[c].pushed
         /\ call'[c].asked = call[c].asked /\ call'[c].cached = call[c].cached
<1> DEFINE r == [call[c] EXCEPT !.stage = stage]
<1>1. r = [stage |-> stage, blocks |-> call[c].blocks, pushed |-> call[c].pushed,
           results |-> call[c].results, asked |-> call[c].asked, cached |-> call[c].cached]
  <2>1. PICK q, st, b, p, rs, a, h :
          /\ q = call[c] /\ st = call[c].stage /\ b = call[c].blocks /\ p = call[c].pushed
          /\ rs = call[c].results /\ a = call[c].asked /\ h = call[c].cached
    OBVIOUS
  <2>2. q = [stage |-> st, blocks |-> b, pushed |-> p, results |-> rs, asked |-> a, cached |-> h]
    BY <2>1 DEF CallType
  <2>3. [q EXCEPT !.stage = stage]
          = [stage |-> stage, blocks |-> b, pushed |-> p, results |-> rs, asked |-> a, cached |-> h]
    BY <2>2
  <2> QED
    BY <2>1, <2>3, Zenon
<1>2. call' = [call EXCEPT ![c] = r]
  OBVIOUS
<1> HIDE DEF r
<1>3. /\ r.stage = stage /\ r.blocks = call[c].blocks /\ r.pushed = call[c].pushed
      /\ r.results = call[c].results /\ r.asked = call[c].asked /\ r.cached = call[c].cached
      /\ r = [stage |-> r.stage, blocks |-> r.blocks, pushed |-> r.pushed,
              results |-> r.results, asked |-> r.asked, cached |-> r.cached]
  BY <1>1
<1>4. /\ r.blocks \in Seq(Streams) /\ IsSequence(r.results)
      /\ r.pushed \in Nat /\ r.pushed =< Len(r.blocks)
  BY <1>3 DEF CallType
<1>5. CallType' /\ call'[c] = r /\ \A d \in Clients : d # c => call'[d] = call[d]
  BY <1>2, <1>3, <1>4, CallUpdated
<1> QED
  BY <1>3, <1>5

LEMMA ResultsChanged ==
  ASSUME CallType, NEW c \in Clients, NEW results, IsSequence(results),
         call' = [call EXCEPT ![c].results = results]
  PROVE  /\ CallType'
         /\ \A d \in Clients : d # c => call'[d] = call[d]
         /\ call'[c].stage = call[c].stage /\ call'[c].results = results
         /\ call'[c].blocks = call[c].blocks /\ call'[c].pushed = call[c].pushed
         /\ call'[c].asked = call[c].asked /\ call'[c].cached = call[c].cached
<1> DEFINE r == [call[c] EXCEPT !.results = results]
<1>1. r = [stage |-> call[c].stage, blocks |-> call[c].blocks, pushed |-> call[c].pushed,
           results |-> results, asked |-> call[c].asked, cached |-> call[c].cached]
  <2>1. PICK q, st, b, p, rs, a, h :
          /\ q = call[c] /\ st = call[c].stage /\ b = call[c].blocks /\ p = call[c].pushed
          /\ rs = call[c].results /\ a = call[c].asked /\ h = call[c].cached
    OBVIOUS
  <2>2. q = [stage |-> st, blocks |-> b, pushed |-> p, results |-> rs, asked |-> a, cached |-> h]
    BY <2>1 DEF CallType
  <2>3. [q EXCEPT !.results = results]
          = [stage |-> st, blocks |-> b, pushed |-> p, results |-> results, asked |-> a, cached |-> h]
    BY <2>2
  <2> QED
    BY <2>1, <2>3, Zenon
<1>2. call' = [call EXCEPT ![c] = r]
  OBVIOUS
<1> HIDE DEF r
<1>3. /\ r.stage = call[c].stage /\ r.blocks = call[c].blocks /\ r.pushed = call[c].pushed
      /\ r.results = results /\ r.asked = call[c].asked /\ r.cached = call[c].cached
      /\ r = [stage |-> r.stage, blocks |-> r.blocks, pushed |-> r.pushed,
              results |-> r.results, asked |-> r.asked, cached |-> r.cached]
  BY <1>1
<1>4. /\ r.blocks \in Seq(Streams) /\ IsSequence(r.results)
      /\ r.pushed \in Nat /\ r.pushed =< Len(r.blocks)
  BY <1>3 DEF CallType
<1>5. CallType' /\ call'[c] = r /\ \A d \in Clients : d # c => call'[d] = call[d]
  BY <1>2, <1>3, <1>4, CallUpdated
<1> QED
  BY <1>3, <1>5

LEMMA NotifyKeepsCallInv ==
  ASSUME CallInv, PoolInv', NEW c \in Clients, Notify(c)
  PROVE  CallInv'
<1> DEFINE stage == IF call[c].pushed = Len(call[c].blocks) THEN "get" ELSE call[c].stage
<1>1. /\ c \in notifying /\ notifying' = notifying \ {c} /\ queue' = queue /\ running' = running
      /\ call' = [call EXCEPT ![c].stage = stage]
      /\ target' = target /\ enabled' = enabled /\ futures' = futures
  BY DEF Notify, NotifyOne, cacheVars
<1>2. call[c].stage = "submit" /\ call[c].results = <<>> /\ CallType
  BY <1>1 DEF CallInv, Staged
<1>3. stage = "get" \/ stage = "submit"
  BY <1>2
<1> HIDE DEF stage
<1>4. /\ CallType'
      /\ \A d \in Clients : d # c => call'[d] = call[d]
      /\ call'[c].stage = stage /\ call'[c].results = call[c].results
      /\ call'[c].blocks = call[c].blocks /\ call'[c].pushed = call[c].pushed
      /\ call'[c].asked = call[c].asked /\ call'[c].cached = call[c].cached
  BY <1>1, <1>2, StageChanged
<1>5. /\ InCall(c) /\ call'[c].stage # "idle"
      /\ call'[c].stage = "submit" => call'[c].results = <<>>
      /\ call'[c].stage = "returned" => Len(call'[c].results) = Len(call'[c].blocks)
      /\ c \in notifying' => call'[c].stage = "submit"
  BY <1>1, <1>2, <1>3, <1>4 DEF InCall
<1>6. \A t \in Pending : t[1] = c => Len(call'[c].results) < t[2]
  BY <1>4 DEF CallInv, Numbered
<1>7. ~ call[c].cached =>
        /\ \A k \in 1 .. Len(call'[c].results) : ExpectedOf(c, k) = Given(call'[c].results[k])
        /\ call'[c].stage = "raised" => ExpectedOf(c, Len(call'[c].results) + 1).refused
  BY <1>3, <1>4 DEF CallInv, Answered
<1>8. futures' \subseteq futures /\ notifying' \subseteq notifying
  BY <1>1
<1> QED
  BY <1>1, <1>4, <1>5, <1>6, <1>7, <1>8, CallMoves

\* The future asked for is that of the block after the results so far.
LEMMA GetKeepsCallInv ==
  ASSUME CallInv, PoolInv', NEW c \in Clients, Get(c)
  PROVE  CallInv'
<1> DEFINE old == call[c].results
           n == Len(old)
<1>1. PICK f \in futures :
        /\ f.task = <<c, n + 1>> /\ futures' = futures \ {f}
        /\ IF f.reply.refused THEN Leave(c, "raised", old)
           ELSE IF Len(Append(old, f.reply.out)) = Len(call[c].blocks)
                THEN Leave(c, "returned", Append(old, f.reply.out))
                ELSE call' = [call EXCEPT ![c].results = Append(old, f.reply.out)]
  BY DEF Get, NextFuture
<1> DEFINE new == Append(old, f.reply.out)
<1>2. /\ call[c].stage = "get" /\ queue' = queue /\ running' = running /\ notifying' = notifying
      /\ target' = target /\ enabled' = enabled
  BY DEF Get, poolVars, cacheVars
<1>3. c \notin notifying /\ InCall(c) /\ futures' \subseteq futures /\ CallType
  BY <1>1, <1>2 DEF CallInv, Staged, InCall
<1>4. PICK S : old \in Seq(S)
  BY DEF CallInv, CallType, IsSequence
<1>5. IsSequence(old) /\ IsSequence(new)
  <2>1. old \in Seq(S \cup {f.reply.out}) /\ new \in Seq(S \cup {f.reply.out})
    BY <1>4
  <2> QED
    BY <2>1 DEF IsSequence
<1>6. /\ n \in Nat /\ Len(new) = n + 1 /\ new[n + 1] = f.reply.out
      /\ \A k \in 1 .. n : new[k] = old[k]
  BY <1>4
<1>7. f.reply = ExpectedOf(c, n + 1)
  BY <1>1 DEF CallInv, Answered
<1>8. \A t \in Pending : t[1] = c => n < t[2] /\ n + 1 < t[2]
  <2> SUFFICES ASSUME NEW t \in Pending, t[1] = c PROVE n < t[2] /\ n + 1 < t[2]
    OBVIOUS
  <2>1. n < t[2]
    BY DEF CallInv, Numbered
  <2>2. t \in Task /\ t[2] \in Nat /\ t = <<c, t[2]>>
    BY PendingTasks, TaskFields DEF CallInv, PoolInv
  <2>3. t # f.task
    BY DEF CallInv, PlacedOnce
  <2>4. t[2] # n + 1
    BY <1>1, <2>2, <2>3
  <2> QED
    BY <1>6, <2>1, <2>2, <2>4
<1>9. ~ call[c].cached => \A k \in 1 .. n : ExpectedOf(c, k) = Given(old[k])
  BY DEF CallInv, Answered
<1>10. ~ f.reply.refused /\ ~ call[c].cached =>
         \A k \in 1 .. Len(new) : ExpectedOf(c, k) = Given(new[k])
  <2> SUFFICES ASSUME ~ f.reply.refused, ~ call[c].cached, NEW k \in 1 .. Len(new)
               PROVE  ExpectedOf(c, k) = Given(new[k])
    OBVIOUS
  <2>1. CASE k = n + 1
    <3>1. ExpectedOf(c, n + 1) = Given(f.reply.out)
      BY <1>7, AnswerForm DEF ExpectedOf
    <3> QED
      BY <1>6, <2>1, <3>1
  <2>2. CASE k # n + 1
    <3>1. k \in 1 .. n
      BY <1>6, <2>2
    <3> QED
      BY <1>6, <1>9, <3>1
  <2> QED
    BY <2>1, <2>2
<1> HIDE DEF old, new
<1>11. CASE f.reply.refused
  <2>1. Leave(c, "raised", old)
    BY <1>1, <1>11
  <2>2. ExpectedOf(c, Len(old) + 1).refused
    BY <1>7, <1>11
  <2> QED
    BY <1>2, <1>3, <1>5, <1>8, <1>9, <2>1, <2>2, LeaveKeepsCallInv
<1>12. CASE ~ f.reply.refused /\ Len(new) = Len(call[c].blocks)
  <2>1. Leave(c, "returned", new)
    BY <1>1, <1>12 DEF new
  <2>2. \A t \in Pending : t[1] = c => Len(new) < t[2]
    BY <1>6, <1>8
  <2> QED
    BY <1>2, <1>3, <1>5, <1>10, <1>12, <2>1, <2>2, LeaveKeepsCallInv
<1>13. CASE ~ f.reply.refused /\ Len(new) # Len(call[c].blocks)
  <2>1. call' = [call EXCEPT ![c].results = new]
    BY <1>1, <1>13 DEF new
  <2>2. /\ CallType'
        /\ \A d \in Clients : d # c => call'[d] = call[d]
        /\ call'[c].stage = call[c].stage /\ call'[c].results = new
        /\ call'[c].blocks = call[c].blocks /\ call'[c].pushed = call[c].pushed
        /\ call'[c].asked = call[c].asked /\ call'[c].cached = call[c].cached
    BY <1>3, <1>5, <2>1, ResultsChanged
  <2>3. \A t \in Pending : t[1] = c => Len(call'[c].results) < t[2]
    BY <1>6, <1>8, <2>2
  <2>4. ~ call[c].cached =>
          /\ \A k \in 1 .. Len(call'[c].results) : ExpectedOf(c, k) = Given(call'[c].results[k])
          /\ call'[c].stage = "raised" => ExpectedOf(c, Len(call'[c].results) + 1).refused
    BY <1>2, <1>10, <1>13, <2>2
  <2>5. /\ call'[c].stage # "idle" /\ notifying' \subseteq notifying
        /\ call'[c].stage = "submit" => call'[c].results = <<>>
        /\ call'[c].stage = "returned" => Len(call'[c].results) = Len(call'[c].blocks)
        /\ c \in notifying' => call'[c].stage = "submit"
    BY <1>2, <1>3, <2>2
  <2> QED
    BY <1>2, <1>3, <2>2, <2>3, <2>4, <2>5, CallMoves
<1> QED
  BY <1>11, <1>12, <1>13

\* The task that ran is nowhere else, and its answer is ready if anyone waits.
LEMMA RunTaskKeepsCallInv ==
  ASSUME CallInv, PoolInv', NEW w \in Workers, RunTask(w)
  PROVE  CallInv'
<1>1. PICK t \in running[w] :
        futures' = futures \cup
          (IF InCall(t[1]) THEN {[task |-> t, reply |-> Answer(target, call[t[1]].blocks[t[2]])]} ELSE {})
  BY DEF RunTask
<1>2. /\ running' = [running EXCEPT ![w] = {}] /\ queue' = queue /\ notifying' = notifying
      /\ target' = target /\ enabled' = enabled /\ call' = call
  BY DEF RunTask, Finish, cacheVars
<1>3. running \in [Workers -> SUBSET Task] /\ queue \in Seq(Task)
  BY DEF CallInv, PoolInv, PoolTypeOK
<1>4. /\ running[w] = {t} /\ t \notin Range(queue)
      /\ \A v \in Workers : t \in running[v] => v = w
  BY DEF CallInv, PlacedOnce
<1>5. t \in Pending /\ t \in Task /\ t[1] \in Clients
  BY <1>3, TaskFields DEF Pending, Range
<1>6. \A v \in Workers : running'[v] = IF v = w THEN {} ELSE running[v]
  BY <1>2, <1>3
<1>7. Pending' = Pending \ {t}
  <2>1. DOMAIN running = Workers /\ DOMAIN running' = Workers
    BY <1>2, <1>3
  <2> QED
    BY <1>2, <1>4, <1>6, <2>1 DEF Pending, Range
<1> DEFINE ready == [task |-> t, reply |-> Answer(target, call[t[1]].blocks[t[2]])]
<1>8. \A f \in futures' : f \in futures \/ (InCall(t[1]) /\ f.task = t /\ f = ready)
  BY <1>1
<1>9. InCall(t[1]) => ready.reply = ExpectedOf(t[1], t[2])
  BY <1>5 DEF CallInv, Staged, ExpectedOf
<1>10. CallType'
  BY <1>2 DEF CallInv, CallType
<1>11. Staged'
  BY <1>2 DEF CallInv, Staged, InCall
<1>12. PlacedOnce'
  <2>1. \A i, j \in DOMAIN queue' : queue'[i] = queue'[j] => i = j
    BY <1>2 DEF CallInv, PlacedOnce
  <2>2. \A v \in Workers : \A u \in running'[v] :
          /\ running'[v] = {u} /\ u \notin Range(queue')
          /\ \A x \in Workers : u \in running'[x] => x = v
    BY <1>2, <1>6 DEF CallInv, PlacedOnce
  <2>3. \A f \in futures' : f.task \notin Pending'
    BY <1>7, <1>8 DEF CallInv, PlacedOnce
  <2> QED
    BY <2>1, <2>2, <2>3 DEF PlacedOnce
<1>13. Numbered'
  <2>1. t[2] =< call[t[1]].pushed
    BY <1>5 DEF CallInv, Numbered
  <2>2. \A f \in futures' : f.task \in Task /\ f.task[2] =< call[f.task[1]].pushed
    BY <1>5, <1>8, <2>1 DEF CallInv, Numbered
  <2> QED
    BY <1>2, <1>7, <2>2 DEF CallInv, Numbered
<1>14. Answered'
  <2>1. \A f \in futures' : f.reply = ExpectedOf(f.task[1], f.task[2])
    <3> SUFFICES ASSUME NEW f \in futures' PROVE f.reply = ExpectedOf(f.task[1], f.task[2])
      OBVIOUS
    <3>1. CASE f \in futures
      BY <3>1 DEF CallInv, Answered
    <3>2. CASE f \notin futures
      BY <1>8, <1>9, <3>2
    <3> QED
      BY <3>1, <3>2
  <2>2. \A d \in Clients : \A k : ExpectedOf(d, k)' = ExpectedOf(d, k)
    BY <1>2 DEF ExpectedOf
  <2>3. \A f \in futures' : ExpectedOf(f.task[1], f.task[2])' = ExpectedOf(f.task[1], f.task[2])
    BY <1>2 DEF ExpectedOf
  <2> QED
    BY <1>2, <2>1, <2>2, <2>3 DEF CallInv, Answered, ExpectedOf
<1> QED
  BY <1>10, <1>11, <1>12, <1>13, <1>14 DEF CallInv

------------------------------------------------------------------------------
\* Whoever moves, the pool takes a step of its own or none.
LEMMA NextIsPoolStep == CallInv /\ [Next]_vars => PoolNext \/ UNCHANGED poolVars
<1> SUFFICES ASSUME CallInv, [Next]_vars PROVE PoolNext \/ UNCHANGED poolVars
  OBVIOUS
<1>1. CASE UNCHANGED vars
  BY <1>1 DEF vars
<1>2. ASSUME NEW c \in Clients, NEW l \in Lists, Begin(c, l) PROVE UNCHANGED poolVars
  BY <1>2 DEF Begin
<1>3. ASSUME NEW c \in Clients, ReturnEmpty(c) \/ TranspileAlone(c) \/ Get(c)
      PROVE  UNCHANGED poolVars
  BY <1>3 DEF ReturnEmpty, TranspileAlone, Get
<1>4. ASSUME NEW c \in Clients, Submit(c) PROVE PoolNext
  <2> DEFINE k == call[c].pushed + 1
  <2>1. Push(c, <<c, k>>) /\ k =< Len(call[c].blocks)
    BY <1>4 DEF Submit
  <2>2. call[c].pushed \in Nat /\ call[c].blocks \in Seq(Streams) /\ Len(call[c].blocks) =< MaxTasks
    BY DEF CallInv, CallType, Staged
  <2>3. k \in 1 .. MaxTasks
    BY <2>1, <2>2, PoolAssumption
  <2>4. <<c, k>> \in Task
    BY <2>3 DEF Task
  <2> HIDE DEF k
  <2> QED
    BY <2>1, <2>4 DEF PoolNext
<1>5. ASSUME NEW c \in Clients, Notify(c) PROVE PoolNext
  BY <1>5 DEF Notify, PoolNext
<1>6. CASE Work
  BY <1>6 DEF Work, RunTask, Proceed, PoolNext
<1>7. CASE Configure
  BY <1>7 DEF Configure
<1>8. CASE Destroy
  BY <1>8 DEF Destroy, PoolNext
<1> QED
  BY <1>1, <1>2, <1>3, <1>4, <1>5, <1>6, <1>7, <1>8 DEF Next, Call

LEMMA NextKeepsCallInv == CallInv /\ [Next]_vars => CallInv'
<1> SUFFICES ASSUME CallInv, [Next]_vars PROVE CallInv'
  OBVIOUS
<1>0. PoolInv'
  BY NextIsPoolStep, PoolStepKeepsInv DEF CallInv
<1>1. CASE UNCHANGED vars
  BY <1>0, <1>1, QuietStep DEF vars, poolVars, cacheVars, callVars
<1>2. CASE Call
  <2>1. PICK c \in Clients :
          \/ \E l \in Lists : Begin(c, l)
          \/ ReturnEmpty(c) \/ TranspileAlone(c) \/ Submit(c) \/ Notify(c) \/ Get(c)
    BY <1>2 DEF Call
  <2> QED
    BY <1>0, <2>1, BeginKeepsCallInv, ReturnEmptyKeepsCallInv, TranspileAloneKeepsCallInv,
       SubmitKeepsCallInv, NotifyKeepsCallInv, GetKeepsCallInv
<1>3. CASE Work
  <2>1. PICK w \in Workers :
          \/ RunTask(w) \/ Proceed(w)
          \/ (Wait(w) \/ WakeSpuriously(w)) /\ UNCHANGED <<cacheVars, callVars>>
    BY <1>3 DEF Work
  <2>2. CASE RunTask(w)
    BY <1>0, <2>2, RunTaskKeepsCallInv
  <2>3. CASE Take(w) /\ UNCHANGED <<cacheVars, callVars>>
    BY <1>0, <2>3, TakeKeepsCallInv DEF cacheVars, callVars
  <2>4. CASE (Exit(w) \/ Wait(w) \/ WakeSpuriously(w)) /\ UNCHANGED <<cacheVars, callVars>>
    <3>1. UNCHANGED <<call, futures, queue, running, notifying>> /\ UNCHANGED <<target, enabled>>
      BY <2>4 DEF Exit, Wait, WakeSpuriously, cacheVars, callVars
    <3> QED
      BY <1>0, <3>1, QuietStep
  <2> QED
    BY <2>1, <2>2, <2>3, <2>4 DEF Proceed
<1>4. CASE Configure
  <2>1. \A c \in Clients : ~ InCall(c)
    BY <1>4 DEF Configure, Quiet
  <2>2. UNCHANGED <<call, futures, queue, running, notifying>>
    BY <1>4 DEF Configure, poolVars, callVars
  <2> QED
    BY <1>0, <2>1, <2>2, QuietStep
<1>5. CASE Destroy
  <2>1. UNCHANGED <<call, futures, queue, running, notifying>> /\ UNCHANGED <<target, enabled>>
    BY <1>5 DEF Destroy, Stop, NotifyAll, Join, cacheVars, callVars
  <2> QED
    BY <1>0, <2>1, QuietStep
<1> QED
  BY <1>1, <1>2, <1>3, <1>4, <1>5 DEF Next

LEMMA CallInvHolds == Spec => []CallInv
BY InitCallInv, NextKeepsCallInv, PTL DEF Spec

\* A worker sleeps beside a queued task only while a notification is on its way:
\* thread_pool.cpp:81, for any number of workers and of submitting threads.
THEOREM NobodySleepsOnWork == Spec => []NoIdleWorker
<1>1. CallInv => NoIdleWorker
  BY DEF CallInv, PoolInv
<1> QED
  BY <1>1, CallInvHolds, PTL

\* ~ThreadPool returns only when every submitted task has run.
THEOREM DestructorDrains == Spec => []Drained
<1>1. CallInv => Drained
  BY PoolInvDrains DEF CallInv
<1> QED
  BY <1>1, CallInvHolds, PTL

\* transpile_parallel: the answers of a call that returned, in order, and
\* nothing of it left in the pool; for any lists, rules and pool.
THEOREM CallsStayExact == Spec => []CallsExact
<1>1. CallInv => CallsExact
  BY CallInvExact
<1> QED
  BY <1>1, CallInvHolds, PTL

-----------------------------------------------------------------------------
(* The names a canonical stream is given                                    *)

MetUpTo(f, s, n) ==
  f = [k \in 0 .. n |-> IF k = 0 THEN <<>>
                        ELSE IF s[k] \in Range(f[k - 1]) THEN f[k - 1] ELSE Append(f[k - 1], s[k])]

LEMMA MetExist ==
  ASSUME NEW s, NEW N \in Nat
  PROVE  \E f : MetUpTo(f, s, N)
<1> DEFINE Bad == {m \in 0 .. N : ~ \E f : MetUpTo(f, s, m)}
<1>0. Bad = {}
  <2> SUFFICES ASSUME Bad # {} PROVE FALSE
    OBVIOUS
  <2>1. PICK m \in Bad : \A j \in Bad : m =< j
    <3>1. Bad \in SUBSET Nat
      OBVIOUS
    <3> HIDE DEF Bad
    <3> QED
      BY <3>1, LeastExists
  <2>2. m \in 0 .. N
    BY <2>1
  <2>3. CASE m = 0
    <3> DEFINE f == [k \in 0 .. 0 |-> <<>>]
    <3>1. MetUpTo(f, s, 0)
      BY DEF MetUpTo
    <3> QED
      BY <2>1, <2>3, <3>1
  <2>4. CASE m # 0
    <3>1. m - 1 \in 0 .. N /\ m - 1 \notin Bad
      <4>1. m - 1 \in 0 .. N /\ ~ (m =< m - 1)
        BY <2>2, <2>4
      <4> HIDE DEF Bad
      <4> QED
        BY <2>1, <4>1
    <3>2. PICK f : MetUpTo(f, s, m - 1)
      BY <3>1
    <3> DEFINE Step(k, h) == IF k = 0 THEN <<>>
                             ELSE IF s[k] \in Range(h[k - 1]) THEN h[k - 1] ELSE Append(h[k - 1], s[k])
               last == Step(m, f)
               g == [k \in 0 .. m |-> IF k = m THEN last ELSE f[k]]
    <3>3. g[m] = last /\ \A i \in 0 .. m - 1 : g[i] = f[i]
      BY <2>2, <2>4
    <3>4. g = [k \in 0 .. m |-> g[k]]
      OBVIOUS
    <3> HIDE DEF g
    <3>5. ASSUME NEW i \in 0 .. m PROVE g[i] = Step(i, g)
      <4>1. CASE i = m
        <5>1. g[i - 1] = f[m - 1]
          BY <2>2, <2>4, <3>3, <4>1
        <5> QED
          BY <3>3, <4>1, <5>1
      <4>2. CASE i # m
        <5>1. i \in 0 .. m - 1 /\ g[i] = f[i] /\ (i # 0 => g[i - 1] = f[i - 1])
          BY <2>2, <3>3, <4>2
        <5>2. f[i] = Step(i, f)
          <6> DEFINE J == [k \in 0 .. m - 1 |-> Step(k, f)]
          <6>1. f = J
            BY <3>2 DEF MetUpTo
          <6>2. J[i] = Step(i, f)
            BY <5>1
          <6> HIDE DEF J, Step
          <6> QED
            BY <6>1, <6>2
        <5>3. Step(i, f) = Step(i, g)
          BY <5>1
        <5> QED
          BY <5>1, <5>2, <5>3
      <4> QED
        BY <4>1, <4>2
    <3>6. g = [k \in 0 .. m |-> Step(k, g)]
      <4> HIDE DEF Step
      <4> QED
        BY <3>4, <3>5
    <3>7. MetUpTo(g, s, m)
      BY <3>6 DEF MetUpTo
    <3> QED
      BY <2>1, <3>7
  <2> QED
    BY <2>3, <2>4
<1>1. N \in 0 .. N
  OBVIOUS
<1> QED
  BY <1>0, <1>1

\* The names of a sequence are those it holds.
LEMMA FirstUsesHold ==
  ASSUME NEW s, Listed(s)
  PROVE  FirstUses(s) \in Seq(Range(s)) /\ Range(s) \subseteq Range(FirstUses(s))
<1> DEFINE N == Len(s)
           R == Range(s)
           F == CHOOSE f : f = [k \in 0 .. N |-> IF k = 0 THEN <<>>
                        ELSE IF s[k] \in Range(f[k - 1]) THEN f[k - 1] ELSE Append(f[k - 1], s[k])]
           Step(k, h) == IF k = 0 THEN <<>>
                         ELSE IF s[k] \in Range(h[k - 1]) THEN h[k - 1] ELSE Append(h[k - 1], s[k])
<1>1. N \in Nat /\ DOMAIN s = 1 .. N
  BY ListedLen
<1>2. PICK f : MetUpTo(f, s, N)
  BY <1>1, MetExist
<1>3. MetUpTo(F, s, N)
  BY <1>2 DEF MetUpTo
<1>4. FirstUses(s) = F[N]
  BY DEF FirstUses
<1> HIDE DEF F
<1>5. ASSUME NEW k \in 0 .. N PROVE F[k] = Step(k, F)
  <2> DEFINE J == [j \in 0 .. N |-> Step(j, F)]
  <2>1. F = J
    BY <1>3 DEF MetUpTo
  <2>2. J[k] = Step(k, F)
    OBVIOUS
  <2> HIDE DEF J, Step
  <2> QED
    BY <2>1, <2>2
<1>6. \A k \in 1 .. N : s[k] \in R
  BY <1>1 DEF Range
<1> HIDE DEF R
<1> DEFINE Good(k) == F[k] \in Seq(R) /\ \A i \in 1 .. k : s[i] \in Range(F[k])
<1>7. Good(0)
  <2>1. F[0] = <<>>
    BY <1>1, <1>5
  <2> QED
    BY <2>1
<1>8. ASSUME NEW k \in 1 .. N, Good(k - 1) PROVE Good(k)
  <2> DEFINE b == F[k - 1]
             v == s[k]
  <2>1. F[k] = IF v \in Range(b) THEN b ELSE Append(b, v)
    BY <1>1, <1>5
  <2>2. b \in Seq(R) /\ v \in R /\ \A i \in 1 .. k - 1 : s[i] \in Range(b)
    BY <1>6, <1>8
  <2> HIDE DEF b
  <2>3. CASE v \in Range(b)
    BY <2>1, <2>2, <2>3
  <2>4. CASE v \notin Range(b)
    <3> DEFINE a == Append(b, v)
    <3>1. /\ a \in Seq(R) /\ Len(a) = Len(b) + 1 /\ a[Len(a)] = v
          /\ Len(b) \in Nat /\ \A i \in 1 .. Len(b) : a[i] = b[i]
      BY <2>2
    <3> HIDE DEF a
    <3>2. DOMAIN a = 1 .. Len(a) /\ DOMAIN b = 1 .. Len(b)
      BY <2>2, <3>1
    <3>3. v \in Range(a) /\ Range(b) \subseteq Range(a)
      <4>1. Len(a) \in 1 .. Len(a) /\ \A i \in 1 .. Len(b) : i \in 1 .. Len(a)
        BY <3>1
      <4> QED
        BY <3>1, <3>2, <4>1 DEF Range
    <3>4. F[k] = a
      BY <2>1, <2>4 DEF a
    <3> QED
      BY <2>2, <3>1, <3>3, <3>4
  <2> QED
    BY <2>3, <2>4
<1> DEFINE Bad == {k \in 0 .. N : ~ Good(k)}
<1>9. Bad = {}
  <2> HIDE DEF Good
  <2> SUFFICES ASSUME Bad # {} PROVE FALSE
    OBVIOUS
  <2>1. PICK m \in Bad : \A j \in Bad : m =< j
    <3>1. Bad \in SUBSET Nat
      OBVIOUS
    <3> HIDE DEF Bad
    <3> QED
      BY <3>1, LeastExists
  <2>2. m \in 0 .. N /\ ~ Good(m)
    BY <2>1
  <2>3. m # 0
    BY <1>7, <2>2
  <2>4. m \in 1 .. N /\ m - 1 \in 0 .. N /\ m - 1 \notin Bad
    BY <1>1, <2>1, <2>2, <2>3
  <2>5. Good(m - 1)
    BY <2>4
  <2> HIDE DEF Bad
  <2> QED
    BY <1>8, <2>2, <2>4, <2>5
<1>10. Good(N)
  <2>1. N \in 0 .. N
    BY <1>1
  <2> HIDE DEF Good
  <2> QED
    BY <1>9, <2>1
<1>11. \A z \in R : \E k \in 1 .. N : z = s[k]
  BY <1>1 DEF Range, R
<1> QED
  BY <1>4, <1>10, <1>11 DEF R

\* A dummy stands for its name.
LEMMA DummyNames ==
  ASSUME NEW names, Listed(names), NEW z \in Range(names)
  PROVE  /\ DummyOf(names)[z] \in 0 .. Len(names) - 1
         /\ NumberNames(names)[DummyOf(names)[z]] = z
<1> DEFINE i == CHOOSE k \in DOMAIN names : names[k] = z
<1>1. DOMAIN names = 1 .. Len(names) /\ Len(names) \in Nat
  BY ListedLen
<1>2. \E k \in DOMAIN names : names[k] = z
  BY DEF Range
<1>3. i \in DOMAIN names /\ names[i] = z
  BY <1>2
<1>4. IndexOf(names)[z] = i
  BY DEF IndexOf
<1>5. DummyOf(names)[z] = i - 1
  BY <1>4 DEF DummyOf
<1> HIDE DEF i
<1>6. i - 1 \in 0 .. Len(names) - 1 /\ (i - 1) + 1 = i
  BY <1>1, <1>3
<1>7. NumberNames(names)[i - 1] = names[i]
  BY <1>6 DEF NumberNames
<1> QED
  BY <1>3, <1>5, <1>6, <1>7

LEMMA NumberEnds ==
  ASSUME NEW names, Listed(names), NEW w \in 0 .. Len(names) - 1
  PROVE  NumberNames(names)[w] \in Range(names)
<1>1. DOMAIN names = 1 .. Len(names) /\ Len(names) \in Nat
  BY ListedLen
<1>2. w + 1 \in DOMAIN names
  BY <1>1
<1> QED
  BY <1>2 DEF NumberNames, Range

DummyNameOf(symbols) == [z \in Range(symbols) |-> DummySymbol[IndexOf(symbols)[z]]]
DummyNames0(symbols) == {DummySymbol[i] : i \in DOMAIN symbols}

LEMMA SymbolDummies ==
  ASSUME NEW symbols, Listed(symbols), Len(symbols) =< Len(DummySymbol), NEW z \in Range(symbols)
  PROVE  /\ DummyNameOf(symbols)[z] \in DummyNames0(symbols) /\ DummyNameOf(symbols)[z] # None
         /\ SymbolNames(symbols)[DummyNameOf(symbols)[z]] = z
<1> DEFINE i == CHOOSE k \in DOMAIN symbols : symbols[k] = z
           a == DummySymbol[i]
<1>1. /\ DOMAIN symbols = 1 .. Len(symbols) /\ Len(symbols) \in Nat
      /\ DOMAIN DummySymbol = 1 .. Len(DummySymbol) /\ Len(DummySymbol) \in Nat
  BY ListedLen, DummyAssumption
<1>2. \E k \in DOMAIN symbols : symbols[k] = z
  BY DEF Range
<1>3. i \in DOMAIN symbols /\ symbols[i] = z
  BY <1>2
<1>4. IndexOf(symbols)[z] = i
  BY DEF IndexOf
<1>5. DummyNameOf(symbols)[z] = a
  BY <1>4 DEF DummyNameOf
<1> HIDE DEF i
<1>6. i \in DOMAIN DummySymbol
  BY <1>1, <1>3
<1>7. a \in Range(DummySymbol) /\ a # None
  BY <1>6, DummyAssumption DEF Range
<1>8. IndexOf(DummySymbol)[a] = i
  <2> DEFINE j == CHOOSE k \in DOMAIN DummySymbol : DummySymbol[k] = a
  <2>1. \E k \in DOMAIN DummySymbol : DummySymbol[k] = a
    BY <1>6
  <2>2. j \in DOMAIN DummySymbol /\ DummySymbol[j] = a
    BY <2>1
  <2>3. IndexOf(DummySymbol)[a] = j
    BY <1>7 DEF IndexOf
  <2> HIDE DEF j
  <2>4. i = j
    BY <1>6, <2>2, DummyAssumption
  <2> QED
    BY <2>3, <2>4
<1>9. a \in DummyNames0(symbols)
  BY <1>3 DEF DummyNames0
<1>10. SymbolNames(symbols)[a] = symbols[IndexOf(DummySymbol)[a]]
  BY <1>9 DEF SymbolNames, DummyNames0
<1> QED
  BY <1>3, <1>5, <1>7, <1>8, <1>9, <1>10

-----------------------------------------------------------------------------
(* Renaming commutes with the rebase                                        *)

\* A command and the same one under other names, and streams of them.
Mirrored(x, c, r) ==
  /\ Alike(x, c, r)
  /\ c = CommandOf(c.gate, c.qubits, c.params, c.cbits, c.cond, c.factors, c.origin)
  /\ r = Renamed(c, x.wire, x.bit, x.name)

Mirrors(x, s, u) ==
  /\ Listed(s) /\ Listed(u) /\ Len(u) = Len(s)
  /\ \A i \in 1 .. Len(s) : Mirrored(x, s[i], u[i])

LEMMA WiredRelabelled ==
  ASSUME NEW x, NEW q, NEW r, Wired(x, q, r)
  PROVE  r = Relabelled(q, x.wire)
<1>1. /\ DOMAIN q = 1 .. Len(q) /\ DOMAIN r = 1 .. Len(q) /\ r = [k \in 1 .. Len(q) |-> r[k]]
      /\ \A k \in 1 .. Len(q) : r[k] = x.wire[q[k]]
  BY DEF Wired
<1> QED
  BY <1>1 DEF Relabelled

LEMMA TurnedRenamed ==
  ASSUME NEW x, NEW p, NEW r, Turned(x, p, r)
  PROVE  r = SymbolRenamed(p, x.name)
<1>1. CASE p.symbol = None
  BY <1>1 DEF Turned, SymbolRenamed, IsConcrete
<1>2. CASE p.symbol # None
  <2> DEFINE c == p.coeff
             a == p.symbol
             o == p.offset
             n == x.name[a]
             R(u, v, w) == [coeff |-> u, symbol |-> v, offset |-> w]
  <2>1. p = R(c, a, o) /\ r = R(c, n, o)
    BY <1>2 DEF Turned
  <2>2. SymbolRenamed(p, x.name) = [p EXCEPT !.symbol = x.name[p.symbol]]
    BY <1>2 DEF SymbolRenamed, IsConcrete
  <2>3. SymbolRenamed(p, x.name) = [p EXCEPT !.symbol = n]
    BY <2>2
  <2> HIDE DEF n
  <2>4. [R(c, a, o) EXCEPT !.symbol = n] = R(c, n, o)
    OBVIOUS
  <2> HIDE DEF c, a, o
  <2> QED
    BY <2>1, <2>3, <2>4
<1> QED
  BY <1>1, <1>2

LEMMA AnglesRenamed ==
  ASSUME NEW x, NEW p, NEW r, Angles(x, p, r)
  PROVE  r = ParamsRenamed(p, x.name)
<1>1. /\ DOMAIN p = 1 .. Len(p) /\ DOMAIN r = 1 .. Len(p) /\ Listed(r)
  BY ListedLen DEF Angles
<1>2. r = [k \in 1 .. Len(p) |-> r[k]]
  BY <1>1 DEF Listed
<1>3. \A k \in 1 .. Len(p) : r[k] = SymbolRenamed(p[k], x.name)
  BY TurnedRenamed DEF Angles
<1> QED
  BY <1>1, <1>2, <1>3 DEF ParamsRenamed

LEMMA CommandFields ==
  ASSUME NEW g, NEW q, NEW p, NEW b, NEW n, NEW f, NEW o, NEW c, c = CommandOf(g, q, p, b, n, f, o)
  PROVE  /\ c.gate = g /\ c.qubits = q /\ c.params = p /\ c.cbits = b /\ c.cond = n
         /\ c.factors = f /\ c.origin = o
         /\ c = CommandOf(c.gate, c.qubits, c.params, c.cbits, c.cond, c.factors, c.origin)
BY DEF CommandOf

LEMMA DerivedMirror ==
  ASSUME NEW x, NEW c, NEW r, Mirrored(x, c, r), NEW d, NEW e, Twin(x, d, e)
  PROVE  Mirrored(x, UnderConditionOf(c, d), UnderConditionOf(r, e))
<1> DEFINE n == CondRenamed(c.cond, x.bit)
           m == UnderConditionOf(c, d)
           l == UnderConditionOf(r, e)
           none == <<>>
<1>1. /\ d.cbits = <<>> /\ d.factors = <<>> /\ e.gate = d.gate /\ e.cbits = <<>> /\ e.factors = <<>>
  <2>1. d = Make(d.gate, d.qubits, d.params, <<>>, <<>>) /\ e = Make(d.gate, e.qubits, e.params, <<>>, <<>>)
    BY DEF Twin
  <2> QED
    BY <2>1, MadeFields
<1>2. r.cond = n /\ r.origin = c.origin
  BY CommandFields DEF Mirrored, Renamed
<1>3. m = CommandOf(d.gate, d.qubits, d.params, none, c.cond, none, c.origin)
  BY <1>1 DEF UnderConditionOf
<1>4. l = CommandOf(d.gate, e.qubits, e.params, none, n, none, c.origin)
  BY <1>1, <1>2 DEF UnderConditionOf
<1>5. e.qubits = Relabelled(d.qubits, x.wire)
  BY WiredRelabelled DEF Twin
<1>6. e.params = ParamsRenamed(d.params, x.name)
  BY AnglesRenamed DEF Twin
<1>7. Relabelled(none, x.bit) = none /\ FactorsRenamed(none, x.wire) = none
  BY DEF Relabelled, FactorsRenamed
<1> HIDE DEF m, l, none
<1>8. /\ m.gate = d.gate /\ m.qubits = d.qubits /\ m.params = d.params /\ m.cbits = none
      /\ m.cond = c.cond /\ m.factors = none /\ m.origin = c.origin
      /\ m = CommandOf(m.gate, m.qubits, m.params, m.cbits, m.cond, m.factors, m.origin)
  BY <1>3, CommandFields
<1>9. /\ l.gate = d.gate /\ l.qubits = e.qubits /\ l.params = e.params /\ l.factors = none
  BY <1>4, CommandFields
<1>10. l = Renamed(m, x.wire, x.bit, x.name)
  BY <1>4, <1>5, <1>6, <1>7, <1>8 DEF Renamed
<1>11. Alike(x, m, l)
  <2>1. HasShape(m)
    BY <1>8 DEF Twin, HasShape
  <2>2. HasOperands(m)
    BY <1>8 DEF Twin, HasOperands
  <2>3. Twins(x, none, none)
    BY NoTwins DEF none
  <2> QED
    BY <1>8, <1>9, <2>1, <2>2, <2>3 DEF Alike, Twin
<1>12. Mirrored(x, m, l)
  BY <1>8, <1>10, <1>11 DEF Mirrored
<1> QED
  BY <1>12 DEF m, l

LEMMA OneMirror ==
  ASSUME NEW x, NEW c, NEW r, Mirrored(x, c, r)
  PROVE  Mirrors(x, <<c>>, <<r>>)
<1> DEFINE s == <<c>>
           u == <<r>>
<1>1. Listed(s) /\ Listed(u) /\ Len(s) = 1 /\ Len(u) = 1 /\ s[1] = c /\ u[1] = r
  BY ListedTuples
<1> HIDE DEF s, u
<1>2. Mirrors(x, s, u)
  BY <1>1 DEF Mirrors
<1> QED
  BY <1>2 DEF s, u

\* What a registered rule or a built-in one may write under the renaming.
Covers(x, t) == \A g : Writes(t, g) \subseteq x.gates

LEMMA SameVerdict ==
  ASSUME NEW x, NEW t, NEW c, NEW r, Mirrored(x, c, r)
  PROVE  (StaysAsIs(t, r) <=> StaysAsIs(t, c)) /\ (Refused(t, r) <=> Refused(t, c))
<1>1. r.gate = c.gate /\ Len(r.qubits) = Len(c.qubits)
  BY DEF Mirrored, Alike, Wired
<1> QED
  BY <1>1 DEF StaysAsIs, Refused

LEMMA LoweredMirrors ==
  ASSUME NEW x, Renaming(x), NEW t, IsTarget(t), Covers(x, t), NEW c, NEW r, Mirrored(x, c, r),
         ~ Refused(t, c)
  PROVE  Mirrors(x, Lowered(t, c), Lowered(t, r))
<1>1. CASE StaysAsIs(t, c)
  BY <1>1, SameVerdict, OneMirror DEF Lowered
<1>2. CASE ~ StaysAsIs(t, c)
  <2> DEFINE s == Decompose(t, c)
             u == Decompose(t, r)
             a == [k \in DOMAIN s |-> UnderConditionOf(c, s[k])]
             b == [k \in DOMAIN u |-> UnderConditionOf(r, u[k])]
  <2>1. Twins(x, s, u)
    BY <1>2, DecomposeTwins DEF Covers, Mirrored
  <2>2. Lowered(t, c) = a /\ Lowered(t, r) = b
    BY <1>2, SameVerdict DEF Lowered, Inheriting
  <2> HIDE DEF s, u
  <2>3. DOMAIN s = 1 .. Len(s) /\ Len(s) \in Nat /\ DOMAIN u = 1 .. Len(s)
    BY <2>1, ListedLen DEF Twins
  <2>4. a = [k \in 1 .. Len(s) |-> a[k]] /\ b = [k \in 1 .. Len(s) |-> b[k]]
    BY <2>3
  <2>5. \A k \in 1 .. Len(s) : Mirrored(x, a[k], b[k])
    BY <2>1, <2>3, DerivedMirror DEF Twins
  <2> HIDE DEF a, b
  <2>6. Listed(a) /\ Listed(b) /\ Len(a) = Len(s) /\ Len(b) = Len(s)
    BY <2>3, <2>4, ListedFunction
  <2> QED
    BY <2>2, <2>5, <2>6 DEF Mirrors
<1> QED
  BY <1>1, <1>2

LEMMA PassMirrors ==
  ASSUME NEW x, Renaming(x), NEW t, IsTarget(t), Covers(x, t), NEW s, NEW u, Mirrors(x, s, u),
         \A i \in DOMAIN s : ~ Refused(t, s[i])
  PROVE  Mirrors(x, RebasePass(t, s), RebasePass(t, u))
<1> DEFINE n == Len(s)
           a == [i \in DOMAIN s |-> Lowered(t, s[i])]
           b == [i \in DOMAIN u |-> Lowered(t, u[i])]
<1>1. n \in Nat /\ DOMAIN s = 1 .. n /\ DOMAIN u = 1 .. n
  BY ListedLen DEF Mirrors
<1>2. a = [k \in 1 .. n |-> a[k]] /\ b = [k \in 1 .. n |-> b[k]]
  BY <1>1
<1>3. \A k \in 1 .. n : Mirrors(x, a[k], b[k])
  BY <1>1, LoweredMirrors DEF Mirrors
<1>4. RebasePass(t, s) = FlattenSeq(a) /\ RebasePass(t, u) = FlattenSeq(b)
  BY DEF RebasePass
<1> HIDE DEF a, b
<1>5. Listed(a) /\ Listed(b) /\ Len(a) = n /\ Len(b) = n
  BY <1>1, <1>2, ListedFunction
<1>6. Abreast(FlattenSeq(a), FlattenSeq(b), a, b, n)
  BY <1>3, <1>5, FlattenAbreast DEF Mirrors
<1> DEFINE f == FlattenSeq(a)
           g == FlattenSeq(b)
<1> HIDE DEF f, g, n
<1>7. Listed(f) /\ Listed(g) /\ Len(g) = Len(f)
  BY <1>6 DEF Abreast, f, g
<1>8. ASSUME NEW p \in 1 .. Len(f) PROVE Mirrored(x, f[p], g[p])
  <2>1. PICK i \in 1 .. n : \E j \in 1 .. Len(a[i]) : f[p] = a[i][j] /\ g[p] = b[i][j]
    BY <1>6 DEF Abreast, f, g
  <2> QED
    BY <1>3, <2>1 DEF Mirrors
<1>9. Mirrors(x, f, g)
  BY <1>7, <1>8 DEF Mirrors
<1> QED
  BY <1>4, <1>9 DEF f, g

LEMMA SameInTarget ==
  ASSUME NEW x, NEW t, NEW s, NEW u, Mirrors(x, s, u)
  PROVE  /\ InTarget(t, u) <=> InTarget(t, s)
         /\ (\E i \in DOMAIN u : Refused(t, u[i])) <=> \E i \in DOMAIN s : Refused(t, s[i])
<1>1. DOMAIN s = 1 .. Len(s) /\ DOMAIN u = 1 .. Len(s)
  BY ListedLen DEF Mirrors
<1>2. \A i \in 1 .. Len(s) : /\ StaysAsIs(t, u[i]) <=> StaysAsIs(t, s[i])
                             /\ Refused(t, u[i]) <=> Refused(t, s[i])
  BY SameVerdict DEF Mirrors
<1> QED
  BY <1>1, <1>2 DEF InTarget

LEMMA PassOverMirrors ==
  ASSUME NEW x, Renaming(x), NEW t, IsTarget(t), Covers(x, t), NEW a, NEW b,
         Mirrors(x, a.stream, b.stream)
  PROVE  Mirrors(x, PassOver(t, a).stream, PassOver(t, b).stream)
<1> DEFINE s == a.stream
           u == b.stream
           stop == InTarget(t, s) \/ \E i \in DOMAIN s : Refused(t, s[i])
<1>1. stop <=> (InTarget(t, u) \/ \E i \in DOMAIN u : Refused(t, u[i]))
  BY SameInTarget
<1>2. CASE stop
  BY <1>1, <1>2 DEF PassOver
<1>3. CASE ~ stop
  <2>1. PassOver(t, a).stream = RebasePass(t, s) /\ PassOver(t, b).stream = RebasePass(t, u)
    BY <1>1, <1>3 DEF PassOver
  <2> QED
    BY <1>3, <2>1, PassMirrors
<1> QED
  BY <1>2, <1>3

LEMMA RebasedMirrors ==
  ASSUME NEW x, Renaming(x), NEW t, IsTarget(t), Covers(x, t), NEW s, NEW u, Mirrors(x, s, u)
  PROVE  Mirrors(x, Rebased(t, s), Rebased(t, u))
<1>1. PICK f : IsCascade(f, t, s)
  BY CascadeRuns
<1>2. PICK g : IsCascade(g, t, u)
  BY CascadeRuns
<1> DEFINE P == {k \in 0 .. 10 : Mirrors(x, f[k].stream, g[k].stream)}
<1>3. 0 \in P
  BY <1>1, <1>2 DEF IsCascade
<1>4. ASSUME NEW k \in 0 .. 9, k \in P PROVE k + 1 \in P
  <2>1. Mirrors(x, PassOver(t, f[k]).stream, PassOver(t, g[k]).stream)
    BY <1>4, PassOverMirrors
  <2>2. f[k + 1] = PassOver(t, f[k]) /\ g[k + 1] = PassOver(t, g[k])
    BY <1>1, <1>2 DEF IsCascade
  <2>3. k + 1 \in 0 .. 10
    OBVIOUS
  <2> QED
    BY <2>1, <2>2, <2>3
<1>5. 10 \in P
  <2> HIDE DEF P
  <2> QED
    BY <1>3, <1>4, TenSteps
<1>6. Rebased(t, s) = f[10].stream /\ Rebased(t, u) = g[10].stream
  BY <1>1, <1>2 DEF IsCascade, Rebased
<1> QED
  BY <1>5, <1>6

-----------------------------------------------------------------------------
(* A stream and its relabelling                                            *)

Names(s) == FirstUses(FlattenSeq([i \in DOMAIN s |-> s[i].qubits]))
BitNames(s) == FirstUses(FlattenSeq([i \in DOMAIN s |-> BitUses(s[i])]))
SymbolsOf(s) == FirstUses(FlattenSeq([i \in DOMAIN s |-> SymbolUses(s[i])]))

LEMMA CanonicalForm ==
  ASSUME NEW s
  PROVE  /\ Canonicalize(s).qubits = Names(s) /\ Canonicalize(s).bits = BitNames(s)
         /\ Canonicalize(s).symbols = SymbolsOf(s)
         /\ Canonicalize(s).commands =
              [i \in DOMAIN s |-> Renamed(s[i], DummyOf(Names(s)), DummyOf(BitNames(s)), DummyNameOf(SymbolsOf(s)))]
BY DEF Canonicalize, Names, BitNames, SymbolsOf, DummyNameOf

\* The names a stream has in some field, if each command has a sequence of them.
LEMMA NamesHold ==
  ASSUME NEW ss, Listed(ss), \A i \in 1 .. Len(ss) : Listed(ss[i])
  PROVE  /\ Listed(FirstUses(FlattenSeq(ss)))
         /\ \A i \in 1 .. Len(ss) : \A j \in 1 .. Len(ss[i]) : ss[i][j] \in Range(FirstUses(FlattenSeq(ss)))
         /\ \A z \in Range(FirstUses(FlattenSeq(ss))) :
              \E i \in 1 .. Len(ss) : \E j \in 1 .. Len(ss[i]) : z = ss[i][j]
<1> DEFINE f == FlattenSeq(ss)
           n == FirstUses(f)
<1>1. Abreast(f, f, ss, ss, Len(ss))
  BY FlattenAbreast
<1> HIDE DEF f
<1>2. Listed(f)
  BY <1>1 DEF Abreast
<1>3. DOMAIN f = 1 .. Len(f)
  BY <1>2, ListedLen
<1>4. n \in Seq(Range(f)) /\ Range(f) \subseteq Range(n)
  BY <1>2, FirstUsesHold
<1> HIDE DEF n
<1>5. Listed(n)
  BY <1>4 DEF Listed
<1>6. ASSUME NEW i \in 1 .. Len(ss), NEW j \in 1 .. Len(ss[i]) PROVE ss[i][j] \in Range(n)
  <2>1. PICK p \in 1 .. Len(f) : f[p] = ss[i][j]
    BY <1>1 DEF Abreast
  <2>2. f[p] \in Range(f)
    BY <1>3 DEF Range
  <2> QED
    BY <1>4, <2>1, <2>2
<1>7. ASSUME NEW z \in Range(n)
      PROVE  \E i \in 1 .. Len(ss) : \E j \in 1 .. Len(ss[i]) : z = ss[i][j]
  <2>1. z \in Range(f)
    <3> DEFINE R == Range(f)
    <3>1. n \in Seq(R)
      BY <1>4
    <3> HIDE DEF R
    <3>2. \A k \in DOMAIN n : n[k] \in R
      BY <3>1
    <3>3. z \in R
      BY <3>2 DEF Range
    <3> QED
      BY <3>3 DEF R
  <2>2. PICK p \in 1 .. Len(f) : z = f[p]
    BY <1>3, <2>1 DEF Range
  <2> QED
    BY <1>1, <2>2 DEF Abreast
<1> QED
  BY <1>5, <1>6, <1>7 DEF n, f

\* Going to dummies and back.
LEMMA RelabelledBack ==
  ASSUME NEW names, Listed(names), NEW q, Listed(q), \A k \in DOMAIN q : q[k] \in Range(names),
         NEW a, a = Relabelled(q, DummyOf(names))
  PROVE  /\ Listed(a) /\ Len(a) = Len(q)
         /\ \A k \in 1 .. Len(q) : /\ a[k] \in 0 .. Len(names) - 1
                                   /\ NumberNames(names)[a[k]] = q[k]
         /\ Relabelled(a, NumberNames(names)) = q
<1>1. DOMAIN q = 1 .. Len(q) /\ Len(q) \in Nat /\ q = [k \in 1 .. Len(q) |-> q[k]]
  BY ListedLen DEF Listed
<1>2. a = [k \in 1 .. Len(q) |-> a[k]] /\ \A k \in 1 .. Len(q) : a[k] = DummyOf(names)[q[k]]
  BY <1>1 DEF Relabelled
<1>3. Listed(a) /\ Len(a) = Len(q) /\ DOMAIN a = 1 .. Len(q)
  BY <1>1, <1>2, ListedFunction
<1>4. \A k \in 1 .. Len(q) : a[k] \in 0 .. Len(names) - 1 /\ NumberNames(names)[a[k]] = q[k]
  BY <1>1, <1>2, DummyNames
<1>5. Relabelled(a, NumberNames(names)) = [k \in 1 .. Len(q) |-> q[k]]
  BY <1>3, <1>4 DEF Relabelled
<1> QED
  BY <1>1, <1>3, <1>4, <1>5

LEMMA WiredBack ==
  ASSUME NEW x, NEW names, Listed(names), x.wires = 0 .. Len(names) - 1, x.ends = Range(names),
         x.wire = NumberNames(names), NEW q, Listed(q), \A k \in DOMAIN q : q[k] \in Range(names),
         NEW a, a = Relabelled(q, DummyOf(names))
  PROVE  Wired(x, a, q)
<1> DEFINE R == Range(names)
           W == 0 .. Len(names) - 1
<1>1. Listed(a) /\ Len(a) = Len(q) /\ \A k \in 1 .. Len(q) : a[k] \in W /\ x.wire[a[k]] = q[k]
  BY RelabelledBack
<1>2. DOMAIN q = 1 .. Len(q) /\ Len(q) \in Nat /\ DOMAIN a = 1 .. Len(a)
  BY <1>1, ListedLen
<1>3. \A k \in 1 .. Len(q) : q[k] \in R
  BY <1>2
<1> HIDE DEF R, W
<1>4. q \in Seq(R) /\ a \in Seq(W)
  BY <1>1, <1>2, <1>3 DEF Listed
<1> QED
  BY <1>1, <1>4 DEF Wired, R, W

LEMMA TurnedBack ==
  ASSUME NEW x, NEW symbols, Listed(symbols), Len(symbols) =< Len(DummySymbol),
         x.symbols = DummyNames0(symbols), x.name = SymbolNames(symbols),
         NEW p, IsLinear(p), IsConcrete(p) \/ p.symbol \in Range(symbols)
  PROVE  Turned(x, SymbolRenamed(p, DummyNameOf(symbols)), p)
<1>1. CASE IsConcrete(p)
  BY <1>1 DEF Turned, SymbolRenamed, IsConcrete, IsLinear
<1>2. CASE ~ IsConcrete(p)
  <2> DEFINE c == p.coeff
             a == p.symbol
             o == p.offset
             n == DummyNameOf(symbols)[a]
             R(u, v, w) == [coeff |-> u, symbol |-> v, offset |-> w]
  <2>1. p = R(c, a, o) /\ a # None /\ a \in Range(symbols)
    BY <1>2 DEF IsLinear, IsConcrete
  <2>2. SymbolRenamed(p, DummyNameOf(symbols)) = [p EXCEPT !.symbol = n]
    BY <1>2 DEF SymbolRenamed
  <2>3. n \in x.symbols /\ n # None /\ x.name[n] = a
    BY <2>1, SymbolDummies
  <2> HIDE DEF n
  <2>4. [R(c, a, o) EXCEPT !.symbol = n] = R(c, n, o)
    OBVIOUS
  <2> HIDE DEF c, a, o
  <2>5. Turned(x, R(c, n, o), R(c, a, o))
    BY <2>3 DEF Turned
  <2> HIDE DEF R
  <2> QED
    BY <2>1, <2>2, <2>4, <2>5
<1> QED
  BY <1>1, <1>2

LEMMA AnglesBack ==
  ASSUME NEW x, NEW symbols, Listed(symbols), Len(symbols) =< Len(DummySymbol),
         x.symbols = DummyNames0(symbols), x.name = SymbolNames(symbols),
         NEW ps, Listed(ps),
         \A k \in DOMAIN ps : IsLinear(ps[k]) /\ (IsConcrete(ps[k]) \/ ps[k].symbol \in Range(symbols)),
         NEW rs, rs = ParamsRenamed(ps, DummyNameOf(symbols))
  PROVE  Angles(x, rs, ps)
<1>1. DOMAIN ps = 1 .. Len(ps) /\ Len(ps) \in Nat
  BY ListedLen
<1>2. /\ rs = [k \in 1 .. Len(ps) |-> rs[k]]
      /\ \A k \in 1 .. Len(ps) : rs[k] = SymbolRenamed(ps[k], DummyNameOf(symbols))
  BY <1>1 DEF ParamsRenamed
<1>3. Listed(rs) /\ Len(rs) = Len(ps)
  BY <1>1, <1>2, ListedFunction
<1>4. \A k \in 1 .. Len(ps) : Turned(x, rs[k], ps[k])
  BY <1>1, <1>2, TurnedBack
<1> QED
  BY <1>3, <1>4 DEF Angles

-----------------------------------------------------------------------------
(* Rebinding undoes the renaming                                            *)

\* The renaming of dummies to the names of a stream.
Unnamed(x, names, bits, symbols) ==
  /\ Listed(names) /\ x.wires = 0 .. Len(names) - 1 /\ x.ends = Range(names)
  /\ x.wire = NumberNames(names)
  /\ Listed(bits) /\ x.bit = NumberNames(bits)
  /\ Listed(symbols) /\ Len(symbols) =< Len(DummySymbol)
  /\ x.symbols = DummyNames0(symbols) /\ x.name = SymbolNames(symbols)

LEMMA QubitsChanged ==
  ASSUME NEW g, NEW q, NEW p, NEW new, NEW f, f = Make(g, q, p, <<>>, <<>>)
  PROVE  QubitsRenamed(f, new) = Make(g, Relabelled(q, new), p, <<>>, <<>>)
<1> DEFINE r == Relabelled(q, new)
<1>1. f.qubits = q
  BY MadeFields
<1>2. QubitsRenamed(f, new) = [f EXCEPT !.qubits = r]
  BY <1>1 DEF QubitsRenamed
<1> DEFINE B == Range(<<>>) \cup {<<>>[k][1] : k \in DOMAIN <<>>}
           R(v) == [gate |-> g, qubits |-> v, params |-> p, cbits |-> <<>>, cond |-> <<>>, bits |-> B,
                    factors |-> <<>>, origin |-> {}]
<1>3. f = R(q) /\ Make(g, r, p, <<>>, <<>>) = R(r)
  BY DEF Make, CommandOf
<1> HIDE DEF r, B
<1>4. [R(q) EXCEPT !.qubits = r] = R(r)
  OBVIOUS
<1> HIDE DEF R
<1> QED
  BY <1>2, <1>3, <1>4 DEF r

LEMMA RelabelledShape ==
  ASSUME NEW c, NEW d, d.gate = c.gate, Len(d.qubits) = Len(c.qubits), Len(d.params) = Len(c.params),
         c.params = <<>> => d.params = <<>>, HasShape(c)
  PROVE  HasShape(d)
BY DEF HasShape

LEMMA PlainParams ==
  ASSUME NEW x, Renaming(x), NEW f, IsPlain(f)
  PROVE  Angles(x, f.params, f.params)
<1> DEFINE E == {Eighths(p.offset) : p \in Range(f.params)}
           ps == f.params
<1>1. ps \in Seq(E)
  BY DEF IsPlain
<1>2. \A e \in E : Turned(x, e, e)
  BY TurnedConcrete
<1> HIDE DEF E, ps
<1>3. Listed(ps) /\ \A i \in 1 .. Len(ps) : Turned(x, ps[i], ps[i])
  BY <1>1, <1>2 DEF Listed
<1> QED
  BY <1>3 DEF Angles, ps

LEMMA PlainBack ==
  ASSUME NEW x, Renaming(x), NEW names, NEW bits, NEW symbols, Unnamed(x, names, bits, symbols),
         NEW f, IsPlain(f), Operands(f) \subseteq Range(names), f.gate \in x.gates,
         NEW e, e = QubitsRenamed(f, DummyOf(names))
  PROVE  Twin(x, e, f) /\ QubitsRenamed(e, x.wire) = f
<1> DEFINE q == f.qubits
           a == Relabelled(f.qubits, DummyOf(names))
           g == f.gate
           p == f.params
<1>1. f = Make(g, q, p, <<>>, <<>>) /\ q \in Seq(Nat) /\ HasShape(f) /\ (q = <<>> => g = "GPhase")
  BY DEF IsPlain
<1>2. e = QubitsRenamed(f, DummyOf(names)) /\ a = Relabelled(q, DummyOf(names))
  OBVIOUS
<1>3. Listed(q) /\ \A k \in DOMAIN q : q[k] \in Range(names)
  BY <1>1 DEF Listed, Operands
<1>4. Wired(x, a, q) /\ Len(a) = Len(q)
  BY <1>3, WiredBack, RelabelledBack DEF Unnamed
<1>5. Relabelled(a, x.wire) = q
  BY <1>3, RelabelledBack DEF Unnamed
<1> HIDE DEF a, q, g, p
<1>6. e = Make(g, a, p, <<>>, <<>>)
  BY <1>1, <1>2, QubitsChanged
<1>7. QubitsRenamed(e, x.wire) = f
  BY <1>1, <1>5, <1>6, QubitsChanged
<1>8. Twin(x, e, f)
  <2>1. Angles(x, p, p)
    BY PlainParams DEF p
  <2>2. HasShape(e)
    <3>1. e.gate = g /\ e.qubits = a /\ e.params = p
      BY <1>6, MadeFields
    <3>2. f.gate = g /\ f.qubits = q /\ f.params = p
      BY DEF g, p, q
    <3> QED
      BY <1>1, <1>4, <3>1, <3>2, RelabelledShape
  <2>3. HasShape(Make(g, a, p, <<>>, <<>>)) /\ g \in x.gates /\ (a = <<>> => g = "GPhase")
    <3>1. a = <<>> => q = <<>>
      BY <1>1, <1>4
    <3> QED
      BY <1>1, <1>6, <2>2, <3>1 DEF g
  <2>4. Twin(x, Make(g, a, p, <<>>, <<>>), Make(g, q, p, <<>>, <<>>))
    BY <1>4, <2>1, <2>3, MakeTwin
  <2> QED
    BY <1>1, <1>6, <2>4
<1> QED
  BY <1>7, <1>8

LEMMA FactorsBack ==
  ASSUME NEW x, Renaming(x), NEW names, NEW bits, NEW symbols, Unnamed(x, names, bits, symbols),
         NEW fs, Listed(fs),
         \A k \in DOMAIN fs : IsPlain(fs[k]) /\ Operands(fs[k]) \subseteq Range(names) /\ fs[k].gate \in x.gates,
         NEW es, es = FactorsRenamed(fs, DummyOf(names))
  PROVE  Twins(x, es, fs) /\ FactorsRenamed(es, x.wire) = fs
<1>1. DOMAIN fs = 1 .. Len(fs) /\ Len(fs) \in Nat /\ fs = [k \in 1 .. Len(fs) |-> fs[k]]
  BY ListedLen DEF Listed
<1>2. es = [k \in 1 .. Len(fs) |-> es[k]]
  BY <1>1 DEF FactorsRenamed
<1>3. Listed(es) /\ Len(es) = Len(fs) /\ DOMAIN es = 1 .. Len(fs)
  BY <1>1, <1>2, ListedFunction
<1>4. ASSUME NEW k \in 1 .. Len(fs)
      PROVE  Twin(x, es[k], fs[k]) /\ QubitsRenamed(es[k], x.wire) = fs[k]
  <2>1. es[k] = QubitsRenamed(fs[k], DummyOf(names))
    BY <1>1 DEF FactorsRenamed
  <2> QED
    BY <1>1, <2>1, PlainBack
<1>5. FactorsRenamed(es, x.wire) = [k \in 1 .. Len(fs) |-> fs[k]]
  BY <1>3, <1>4 DEF FactorsRenamed
<1> QED
  BY <1>1, <1>3, <1>4, <1>5 DEF Twins

\* The conditions, there and back.
LEMMA ConditionBack ==
  ASSUME NEW bits, Listed(bits), NEW n, n \in Seq(Nat \X BOOLEAN), \A k \in DOMAIN n : n[k][1] \in Range(bits),
         NEW m, m = CondRenamed(n, DummyOf(bits))
  PROVE  CondRenamed(m, NumberNames(bits)) = n
<1>1. DOMAIN n = 1 .. Len(n) /\ n = [k \in 1 .. Len(n) |-> n[k]] /\ DOMAIN m = DOMAIN n
  BY DEF CondRenamed
<1>2. ASSUME NEW k \in 1 .. Len(n) PROVE <<NumberNames(bits)[m[k][1]], m[k][2]>> = n[k]
  <2>1. n[k] \in Nat \X BOOLEAN
    BY <1>1
  <2>2. n[k] = <<n[k][1], n[k][2]>>
    BY <2>1
  <2>3. m[k] = <<DummyOf(bits)[n[k][1]], n[k][2]>>
    BY <1>1 DEF CondRenamed
  <2>4. m[k][1] = DummyOf(bits)[n[k][1]] /\ m[k][2] = n[k][2]
    BY <2>3
  <2>5. NumberNames(bits)[DummyOf(bits)[n[k][1]]] = n[k][1]
    BY <1>1, DummyNames
  <2> QED
    BY <2>2, <2>4, <2>5
<1> QED
  BY <1>1, <1>2 DEF CondRenamed

LEMMA CommandBack ==
  ASSUME NEW x, Renaming(x), NEW names, NEW bits, NEW symbols, Unnamed(x, names, bits, symbols),
         NEW c, IsCommand(c), Operands(c) \subseteq Range(names),
         \A k \in DOMAIN c.cbits : c.cbits[k] \in Range(bits),
         \A k \in DOMAIN c.cond : c.cond[k][1] \in Range(bits),
         \A k \in DOMAIN c.params : IsConcrete(c.params[k]) \/ c.params[k].symbol \in Range(symbols),
         \A k \in DOMAIN c.factors : c.factors[k].gate \in x.gates,
         NEW d, d = Renamed(c, DummyOf(names), DummyOf(bits), DummyNameOf(symbols))
  PROVE  Mirrored(x, d, c)
<1> DEFINE q == Relabelled(c.qubits, DummyOf(names))
           p == ParamsRenamed(c.params, DummyNameOf(symbols))
           b == Relabelled(c.cbits, DummyOf(bits))
           n == CondRenamed(c.cond, DummyOf(bits))
           f == FactorsRenamed(c.factors, DummyOf(names))
<1>1. d = CommandOf(c.gate, q, p, b, n, f, c.origin)
  BY DEF Renamed
<1>2. /\ c = CommandOf(c.gate, c.qubits, c.params, c.cbits, c.cond, c.factors, c.origin)
      /\ HasShape(c) /\ HasOperands(c) /\ Listed(c.qubits) /\ Listed(c.cbits) /\ Listed(c.params)
      /\ Listed(c.factors) /\ c.cond \in Seq(Nat \X BOOLEAN)
  BY DEF IsCommand, Listed
<1>3. Wired(x, q, c.qubits) /\ Len(q) = Len(c.qubits)
  <2>1. \A k \in DOMAIN c.qubits : c.qubits[k] \in Range(names)
    BY DEF Operands
  <2> QED
    BY <1>2, <2>1, WiredBack, RelabelledBack DEF Unnamed
<1>4. Angles(x, p, c.params)
  <2>1. \A k \in DOMAIN c.params : IsLinear(c.params[k])
    BY DEF IsCommand, Range
  <2> QED
    BY <1>2, <2>1, AnglesBack DEF Unnamed
<1>5. Relabelled(b, x.bit) = c.cbits
  BY <1>2, RelabelledBack DEF Unnamed
<1>6. CondRenamed(n, x.bit) = c.cond
  <2> DEFINE w == c.cond
  <2>1. /\ w \in Seq(Nat \X BOOLEAN) /\ \A k \in DOMAIN w : w[k][1] \in Range(bits)
        /\ n = CondRenamed(w, DummyOf(bits))
        /\ Listed(bits) /\ x.bit = NumberNames(bits)
    BY <1>2 DEF Unnamed
  <2> HIDE DEF n, w
  <2>2. CondRenamed(n, NumberNames(bits)) = w
    BY <2>1, ConditionBack
  <2> QED
    BY <2>1, <2>2 DEF w
<1>7. Twins(x, f, c.factors) /\ FactorsRenamed(f, x.wire) = c.factors
  <2> DEFINE w == c.factors
  <2>1. \A h \in Range(w) : IsPlain(h) /\ Operands(h) \subseteq Operands(c)
    BY DEF IsCommand
  <2>2. /\ Listed(w) /\ f = FactorsRenamed(w, DummyOf(names))
        /\ \A k \in DOMAIN w : w[k].gate \in x.gates
    BY <1>2
  <2> HIDE DEF f, w
  <2>3. \A k \in DOMAIN w : IsPlain(w[k]) /\ Operands(w[k]) \subseteq Range(names)
    BY <2>1 DEF Range
  <2>4. Twins(x, f, w) /\ FactorsRenamed(f, x.wire) = w
    BY <2>2, <2>3, FactorsBack
  <2> QED
    BY <2>4 DEF w
<1>8. c.qubits = Relabelled(q, x.wire) /\ c.params = ParamsRenamed(p, x.name)
  BY <1>3, <1>4, WiredRelabelled, AnglesRenamed
<1> HIDE DEF q, p, b, n, f
<1>9. /\ d.gate = c.gate /\ d.qubits = q /\ d.params = p /\ d.cbits = b /\ d.cond = n
      /\ d.factors = f /\ d.origin = c.origin
      /\ d = CommandOf(d.gate, d.qubits, d.params, d.cbits, d.cond, d.factors, d.origin)
  BY <1>1, CommandFields
<1>10. c = Renamed(d, x.wire, x.bit, x.name)
  <2>1. Renamed(d, x.wire, x.bit, x.name) = CommandOf(c.gate, c.qubits, c.params, c.cbits, c.cond, c.factors, c.origin)
    BY <1>5, <1>6, <1>7, <1>8, <1>9 DEF Renamed
  <2> QED
    BY <1>2, <2>1
<1>11. Alike(x, d, c)
  <2>1. Len(d.params) = Len(c.params) /\ (c.params = <<>> => d.params = <<>>)
    <3>1. Len(p) = Len(c.params) /\ Listed(p)
      BY <1>4 DEF Angles
    <3>2. c.params = <<>> => Len(p) = 0
      BY <3>1
    <3> QED
      BY <1>9, <3>1, <3>2 DEF Listed
  <2>2. HasShape(d)
    BY <1>2, <1>3, <1>9, <2>1, RelabelledShape
  <2>3. HasOperands(d)
    <3>1. q = <<>> => c.qubits = <<>>
      BY <1>2, <1>3 DEF Listed
    <3> QED
      BY <1>2, <1>9, <3>1 DEF HasOperands
  <2> QED
    BY <1>3, <1>4, <1>7, <1>9, <2>2, <2>3 DEF Alike
<1> QED
  BY <1>9, <1>10, <1>11 DEF Mirrored

LEMMA SymbolUsesHold ==
  ASSUME NEW c, Listed(c.params)
  PROVE  /\ Listed(SymbolUses(c))
         /\ \A k \in DOMAIN c.params : IsConcrete(c.params[k]) \/ \E j \in 1 .. Len(SymbolUses(c)) :
              SymbolUses(c)[j] = c.params[k].symbol
         /\ \A j \in 1 .. Len(SymbolUses(c)) : SymbolUses(c)[j] # None
<1> DEFINE p == c.params
           n == Len(p)
           ss == [k \in DOMAIN p |-> IF IsConcrete(p[k]) THEN <<>> ELSE <<p[k].symbol>>]
           f == FlattenSeq(ss)
<1>1. n \in Nat /\ DOMAIN p = 1 .. n
  BY ListedLen
<1>2. /\ ss = [k \in 1 .. n |-> ss[k]]
      /\ \A k \in 1 .. n : ss[k] = IF IsConcrete(p[k]) THEN <<>> ELSE <<p[k].symbol>>
  BY <1>1
<1>3. SymbolUses(c) = f
  BY DEF SymbolUses
<1> HIDE DEF ss
<1>4. Listed(ss) /\ Len(ss) = n
  BY <1>1, <1>2, ListedFunction
<1>5. ASSUME NEW k \in 1 .. n PROVE Listed(ss[k])
  <2>1. Listed(<<>>) /\ Listed(<<p[k].symbol>>)
    BY ListedTuples
  <2> QED
    BY <1>2, <2>1
<1>6. Abreast(f, f, ss, ss, n)
  BY <1>4, <1>5, FlattenAbreast
<1> HIDE DEF f
<1>7. Listed(f)
  BY <1>6 DEF Abreast
<1>8. ASSUME NEW k \in 1 .. n, ~ IsConcrete(p[k])
      PROVE  \E j \in 1 .. Len(f) : f[j] = p[k].symbol
  <2> DEFINE a == p[k].symbol
             w == <<a>>
  <2>1. ss[k] = w
    BY <1>2, <1>8
  <2>2. 1 \in 1 .. Len(w) /\ w[1] = a
    OBVIOUS
  <2> HIDE DEF w, a
  <2>3. \E j \in 1 .. Len(f) : f[j] = a
    BY <1>6, <2>1, <2>2 DEF Abreast
  <2> QED
    BY <2>3 DEF a
<1>9. ASSUME NEW j \in 1 .. Len(f) PROVE f[j] # None
  <2>1. PICK k \in 1 .. n : \E i \in 1 .. Len(ss[k]) : f[j] = ss[k][i]
    BY <1>6 DEF Abreast
  <2>2. PICK i \in 1 .. Len(ss[k]) : f[j] = ss[k][i]
    BY <2>1
  <2>3. CASE IsConcrete(p[k])
    <3>1. ss[k] = <<>>
      BY <1>2, <2>3
    <3> QED
      BY <2>2, <3>1
  <2>4. CASE ~ IsConcrete(p[k])
    <3> DEFINE a == p[k].symbol
               w == <<a>>
    <3>1. ss[k] = w
      BY <1>2, <2>4
    <3>2. \A l \in 1 .. Len(w) : w[l] = a
      OBVIOUS
    <3>3. a # None
      BY <2>4 DEF IsConcrete
    <3> HIDE DEF w, a
    <3> QED
      BY <2>2, <3>1, <3>2, <3>3
  <2> QED
    BY <2>3, <2>4
<1> QED
  BY <1>1, <1>3, <1>7, <1>8, <1>9

LEMMA BitUsesHold ==
  ASSUME NEW c, Listed(c.cbits), Listed(c.cond)
  PROVE  /\ Listed(BitUses(c))
         /\ \A k \in DOMAIN c.cbits : \E j \in 1 .. Len(BitUses(c)) : BitUses(c)[j] = c.cbits[k]
         /\ \A k \in DOMAIN c.cond : \E j \in 1 .. Len(BitUses(c)) : BitUses(c)[j] = c.cond[k][1]
<1> DEFINE a == c.cbits
           n == c.cond
           b == [k \in DOMAIN n |-> n[k][1]]
           f == a \o b
<1>1. DOMAIN a = 1 .. Len(a) /\ Len(a) \in Nat /\ DOMAIN n = 1 .. Len(n) /\ Len(n) \in Nat
  BY ListedLen
<1>2. b = [k \in 1 .. Len(n) |-> b[k]] /\ \A k \in 1 .. Len(n) : b[k] = n[k][1]
  BY <1>1
<1>3. BitUses(c) = f
  BY DEF BitUses
<1> HIDE DEF b
<1>4. Listed(b) /\ Len(b) = Len(n)
  BY <1>1, <1>2, ListedFunction
<1> HIDE DEF a, n
<1>5. /\ Listed(f) /\ Len(f) = Len(a) + Len(b)
      /\ \A i \in 1 .. Len(f) : f[i] = IF i =< Len(a) THEN a[i] ELSE b[i - Len(a)]
  BY <1>4, ListedJoin DEF a
<1> HIDE DEF f
<1>6. ASSUME NEW k \in 1 .. Len(a) PROVE \E j \in 1 .. Len(f) : f[j] = a[k]
  <2>1. k \in 1 .. Len(f) /\ k =< Len(a)
    BY <1>1, <1>4, <1>5
  <2> QED
    BY <1>5, <2>1
<1>7. ASSUME NEW k \in 1 .. Len(n) PROVE \E j \in 1 .. Len(f) : f[j] = n[k][1]
  <2> DEFINE j == Len(a) + k
  <2>1. j \in 1 .. Len(f) /\ ~ (j =< Len(a)) /\ j - Len(a) = k
    BY <1>1, <1>4, <1>5
  <2>2. f[j] = b[k]
    BY <1>5, <2>1
  <2> HIDE DEF j
  <2> QED
    BY <1>2, <2>1, <2>2
<1> QED
  BY <1>1, <1>3, <1>5, <1>6, <1>7 DEF a, n

\* Every name of a stream is among those canonicalize lists.
LEMMA StreamNames ==
  ASSUME NEW s, IsStream(s)
  PROVE  /\ Listed(Names(s)) /\ Listed(BitNames(s)) /\ Listed(SymbolsOf(s)) /\ None \notin Range(SymbolsOf(s))
         /\ \A i \in DOMAIN s :
              /\ Operands(s[i]) \subseteq Range(Names(s))
              /\ \A k \in DOMAIN s[i].cbits : s[i].cbits[k] \in Range(BitNames(s))
              /\ \A k \in DOMAIN s[i].cond : s[i].cond[k][1] \in Range(BitNames(s))
              /\ \A k \in DOMAIN s[i].params :
                   IsConcrete(s[i].params[k]) \/ s[i].params[k].symbol \in Range(SymbolsOf(s))
<1> DEFINE n == Len(s)
           q == [i \in DOMAIN s |-> s[i].qubits]
           b == [i \in DOMAIN s |-> BitUses(s[i])]
           a == [i \in DOMAIN s |-> SymbolUses(s[i])]
<1>1. DOMAIN s = 1 .. n /\ n \in Nat /\ \A i \in 1 .. n : IsCommand(s[i])
  BY DEF IsStream
<1>2. \A i \in 1 .. n : /\ Listed(s[i].qubits) /\ Listed(s[i].cbits) /\ Listed(s[i].cond)
                        /\ Listed(s[i].params)
  BY <1>1 DEF IsCommand, Listed
<1>3. /\ q = [i \in 1 .. n |-> q[i]] /\ b = [i \in 1 .. n |-> b[i]] /\ a = [i \in 1 .. n |-> a[i]]
      /\ \A i \in 1 .. n : q[i] = s[i].qubits /\ b[i] = BitUses(s[i]) /\ a[i] = SymbolUses(s[i])
  BY <1>1
<1>4. Names(s) = FirstUses(FlattenSeq(q)) /\ BitNames(s) = FirstUses(FlattenSeq(b))
        /\ SymbolsOf(s) = FirstUses(FlattenSeq(a))
  BY DEF Names, BitNames, SymbolsOf
<1> HIDE DEF q, b, a
<1>5. Listed(q) /\ Len(q) = n /\ Listed(b) /\ Len(b) = n /\ Listed(a) /\ Len(a) = n
  BY <1>1, <1>3, ListedFunction
<1>6. \A i \in 1 .. n : Listed(q[i]) /\ Listed(b[i]) /\ Listed(a[i])
  BY <1>2, <1>3, BitUsesHold, SymbolUsesHold
<1>7. /\ Listed(Names(s))
      /\ \A i \in 1 .. n : \A j \in 1 .. Len(q[i]) : q[i][j] \in Range(Names(s))
  BY <1>4, <1>5, <1>6, NamesHold
<1>8. /\ Listed(BitNames(s))
      /\ \A i \in 1 .. n : \A j \in 1 .. Len(b[i]) : b[i][j] \in Range(BitNames(s))
  BY <1>4, <1>5, <1>6, NamesHold
<1>9. /\ Listed(SymbolsOf(s))
      /\ \A i \in 1 .. n : \A j \in 1 .. Len(a[i]) : a[i][j] \in Range(SymbolsOf(s))
      /\ \A z \in Range(SymbolsOf(s)) : \E i \in 1 .. n : \E j \in 1 .. Len(a[i]) : z = a[i][j]
  BY <1>4, <1>5, <1>6, NamesHold
<1>10. None \notin Range(SymbolsOf(s))
  <2> SUFFICES ASSUME NEW z \in Range(SymbolsOf(s)) PROVE z # None
    OBVIOUS
  <2>1. PICK i \in 1 .. n : \E j \in 1 .. Len(a[i]) : z = a[i][j]
    BY <1>9
  <2> QED
    BY <1>2, <1>3, <2>1, SymbolUsesHold
<1>11. ASSUME NEW i \in 1 .. n
       PROVE  /\ Operands(s[i]) \subseteq Range(Names(s))
              /\ \A k \in DOMAIN s[i].cbits : s[i].cbits[k] \in Range(BitNames(s))
              /\ \A k \in DOMAIN s[i].cond : s[i].cond[k][1] \in Range(BitNames(s))
              /\ \A k \in DOMAIN s[i].params :
                   IsConcrete(s[i].params[k]) \/ s[i].params[k].symbol \in Range(SymbolsOf(s))
  <2>1. Operands(s[i]) \subseteq Range(Names(s))
    <3>1. DOMAIN s[i].qubits = 1 .. Len(q[i])
      BY <1>2, <1>3, ListedLen
    <3> QED
      BY <1>3, <1>7, <3>1 DEF Operands
  <2>2. \A k \in DOMAIN s[i].cbits : s[i].cbits[k] \in Range(BitNames(s))
    BY <1>2, <1>3, <1>8, BitUsesHold
  <2>3. \A k \in DOMAIN s[i].cond : s[i].cond[k][1] \in Range(BitNames(s))
    BY <1>2, <1>3, <1>8, BitUsesHold
  <2>4. \A k \in DOMAIN s[i].params :
          IsConcrete(s[i].params[k]) \/ s[i].params[k].symbol \in Range(SymbolsOf(s))
    BY <1>2, <1>3, <1>9, SymbolUsesHold
  <2> QED
    BY <2>1, <2>2, <2>3, <2>4
<1> QED
  BY <1>1, <1>7, <1>8, <1>9, <1>10, <1>11

\* The gates of registered rules, and those of the tables.
RuleGates ==
  STRING \cup {"GPhase", "Rz", "Ry", "Rx", "P", "H", "X", "Z", "S", "Sdg", "T", "Tdg", "U", "CX", "CZ",
               "CP", "CRx", "RZZ", "CCX"}

LEMMA WrittenStrings ==
  ASSUME NEW g
  PROVE  GatesWritten(g) \subseteq RuleGates
<1>1. MczGates \subseteq RuleGates
  BY DEF MczGates, McxGates, RuleGates
<1>2. {"GPhase", "Rz", "Ry", "Rx", "P", "H", "X", "S", "Sdg", "T", "Tdg", "U", "CX", "CP", "CRx", "RZZ",
       "CCX"} \subseteq RuleGates
  BY DEF RuleGates
<1> QED
  BY <1>1, <1>2 DEF GatesWritten

LEMMA TargetCovered ==
  ASSUME NEW x, RuleGates \subseteq x.gates, NEW t, IsTarget(t)
  PROVE  Covers(x, t)
<1> SUFFICES ASSUME NEW g PROVE Writes(t, g) \subseteq x.gates
  BY DEF Covers
<1>1. CASE Registers(t, g)
  <2> DEFINE rule == t.registered[g]
             least == IF g = "MCZ" THEN 1 ELSE NumQubits(g)
             E == {w \in [gate : STRING, on : Seq(1 .. least) \ {<<>>}] : HasShape(On(w.gate, w.on))}
  <2>1. rule \in Seq(E)
    BY <1>1 DEF IsTarget, Registers, IsRule
  <2>2. \A e \in E : e.gate \in STRING
    OBVIOUS
  <2> HIDE DEF E, rule
  <2>3. \A k \in DOMAIN rule : rule[k].gate \in STRING
    BY <2>1, <2>2
  <2> QED
    BY <1>1, <2>3 DEF Writes, rule, RuleGates
<1>2. CASE ~ Registers(t, g)
  BY <1>2, WrittenStrings DEF Writes
<1> QED
  BY <1>1, <1>2

\* A stream mirrors its relabelling.
LEMMA CanonicalMirrors ==
  ASSUME NEW s, IsStream(s), Len(Canonicalize(s).symbols) =< Len(DummySymbol)
  PROVE  \E x : /\ Renaming(x) /\ RuleGates \subseteq x.gates
                /\ Mirrors(x, Canonicalize(s).commands, s)
                /\ x.wire = NumberNames(Canonicalize(s).qubits)
                /\ x.bit = NumberNames(Canonicalize(s).bits)
                /\ x.name = SymbolNames(Canonicalize(s).symbols)
<1> DEFINE n == Names(s)
           b == BitNames(s)
           a == SymbolsOf(s)
           G == RuleGates \cup UNION {{s[i].factors[k].gate : k \in DOMAIN s[i].factors} : i \in DOMAIN s}
           W == 0 .. Len(n) - 1
           x == [wires |-> W, ends |-> Range(n), wire |-> NumberNames(n), bit |-> NumberNames(b),
                 symbols |-> DummyNames0(a), name |-> SymbolNames(a), gates |-> G]
           u == Canonicalize(s).commands
<1>1. /\ Canonicalize(s).qubits = n /\ Canonicalize(s).bits = b /\ Canonicalize(s).symbols = a
      /\ u = [i \in DOMAIN s |-> Renamed(s[i], DummyOf(n), DummyOf(b), DummyNameOf(a))]
  BY CanonicalForm
<1>2. /\ x.wires = W /\ x.ends = Range(n) /\ x.wire = NumberNames(n) /\ x.bit = NumberNames(b)
      /\ x.symbols = DummyNames0(a) /\ x.name = SymbolNames(a) /\ x.gates = G
  OBVIOUS
<1>3. Listed(n) /\ Listed(b) /\ Listed(a) /\ None \notin Range(a)
  BY StreamNames
<1>4. \A i \in DOMAIN s : \A k \in DOMAIN s[i].factors : s[i].factors[k].gate \in G
  OBVIOUS
<1>5. RuleGates \subseteq G
  OBVIOUS
<1> HIDE DEF x, u, G
<1>6. Renaming(x)
  <2>1. ASSUME NEW w \in x.wires PROVE x.wire[w] \in x.ends
    BY <1>2, <1>3, NumberEnds
  <2>2. ASSUME NEW z \in x.symbols PROVE z # None /\ x.name[z] # None
    <3>1. PICK i \in DOMAIN a : z = DummySymbol[i]
      BY <1>2 DEF DummyNames0
    <3>2. DOMAIN a = 1 .. Len(a) /\ Len(a) \in Nat /\ DOMAIN DummySymbol = 1 .. Len(DummySymbol)
            /\ Len(DummySymbol) \in Nat
      BY <1>3, ListedLen, DummyAssumption
    <3>3. i \in DOMAIN DummySymbol
      BY <1>1, <3>2
    <3>4. z \in Range(DummySymbol) /\ z # None
      BY <3>1, <3>3, DummyAssumption DEF Range
    <3>5. IndexOf(DummySymbol)[z] = i
      <4> DEFINE j == CHOOSE k \in DOMAIN DummySymbol : DummySymbol[k] = z
      <4>1. \E k \in DOMAIN DummySymbol : DummySymbol[k] = z
        BY <3>1, <3>3
      <4>2. j \in DOMAIN DummySymbol /\ DummySymbol[j] = z
        BY <4>1
      <4>3. IndexOf(DummySymbol)[z] = j
        BY <3>4 DEF IndexOf
      <4> HIDE DEF j
      <4>4. i = j
        BY <3>1, <3>3, <4>2, DummyAssumption
      <4> QED
        BY <4>3, <4>4
    <3>6. x.name[z] = a[i]
      BY <1>2, <3>1, <3>5 DEF SymbolNames, DummyNames0
    <3>7. a[i] \in Range(a)
      BY DEF Range
    <3> QED
      BY <1>3, <3>4, <3>6, <3>7
  <2> QED
    BY <2>1, <2>2 DEF Renaming
<1>7. Unnamed(x, n, b, a)
  BY <1>1, <1>2, <1>3 DEF Unnamed
<1>8. ASSUME NEW i \in DOMAIN s PROVE Mirrored(x, u[i], s[i])
  <2> DEFINE c == s[i]
  <2>1. IsCommand(c)
    BY DEF IsStream
  <2>2. /\ Operands(c) \subseteq Range(n)
        /\ \A k \in DOMAIN c.cbits : c.cbits[k] \in Range(b)
        /\ \A k \in DOMAIN c.cond : c.cond[k][1] \in Range(b)
        /\ \A k \in DOMAIN c.params : IsConcrete(c.params[k]) \/ c.params[k].symbol \in Range(a)
    BY StreamNames
  <2>3. \A k \in DOMAIN c.factors : c.factors[k].gate \in x.gates
    BY <1>2, <1>4
  <2>4. u[i] = Renamed(c, DummyOf(n), DummyOf(b), DummyNameOf(a))
    BY <1>1
  <2> HIDE DEF c, n, b, a
  <2>5. Mirrored(x, u[i], c)
    BY <1>6, <1>7, <2>1, <2>2, <2>3, <2>4, CommandBack
  <2> QED
    BY <2>5 DEF c
<1>9. Mirrors(x, u, s)
  <2>1. Listed(s)
    BY DEF IsStream, Listed
  <2>2. DOMAIN s = 1 .. Len(s) /\ Len(s) \in Nat
    BY <2>1, ListedLen
  <2>3. u = [i \in 1 .. Len(s) |-> u[i]]
    BY <1>1, <2>2
  <2>4. Listed(u) /\ Len(u) = Len(s)
    BY <2>2, <2>3, ListedFunction
  <2> QED
    BY <1>8, <2>1, <2>2, <2>4 DEF Mirrors
<1> QED
  BY <1>1, <1>2, <1>5, <1>6, <1>9 DEF u

LEMMA MirrorsRebind ==
  ASSUME NEW x, NEW a, NEW b, Mirrors(x, a, b), NEW form, x.wire = NumberNames(form.qubits),
         x.bit = NumberNames(form.bits), x.name = SymbolNames(form.symbols)
  PROVE  b = Rebind(a, form)
<1>1. DOMAIN a = 1 .. Len(a) /\ DOMAIN b = 1 .. Len(a) /\ Listed(b)
  BY ListedLen DEF Mirrors
<1>2. b = [i \in 1 .. Len(a) |-> b[i]]
  BY <1>1 DEF Listed
<1>3. \A i \in 1 .. Len(a) :
        b[i] = Renamed(a[i], NumberNames(form.qubits), NumberNames(form.bits), SymbolNames(form.symbols))
  BY DEF Mirrors, Mirrored
<1> QED
  BY <1>1, <1>2, <1>3 DEF Rebind

\* Transpiling the relabelled stream and writing the names back is transpiling.
LEMMA RelabellingExact ==
  ASSUME NEW t, IsTarget(t), NEW s, IsStream(s), Len(Canonicalize(s).symbols) =< Len(DummySymbol),
         NEW dummy, dummy = Answer(t, Canonicalize(s).commands), ~ dummy.refused
  PROVE  Answer(t, s) = [refused |-> FALSE, out |-> Rebind(dummy.out, Canonicalize(s))]
<1> DEFINE form == Canonicalize(s)
           a == Rebased(t, form.commands)
           b == Rebased(t, s)
<1>1. PICK x : /\ Renaming(x) /\ RuleGates \subseteq x.gates /\ Mirrors(x, form.commands, s)
               /\ x.wire = NumberNames(form.qubits) /\ x.bit = NumberNames(form.bits)
               /\ x.name = SymbolNames(form.symbols)
  BY CanonicalMirrors
<1>2. Mirrors(x, a, b)
  BY <1>1, TargetCovered, RebasedMirrors
<1>3. b = Rebind(a, form)
  BY <1>1, <1>2, MirrorsRebind
<1>4. InTarget(t, b) <=> InTarget(t, a)
  BY <1>2, SameInTarget
<1> HIDE DEF form
<1>5. InTarget(t, a) /\ dummy.out = a
  BY DEF Answer, form
<1>6. Answer(t, s) = [refused |-> FALSE, out |-> b]
  BY <1>4, <1>5 DEF Answer
<1> QED
  BY <1>3, <1>5, <1>6 DEF form

-----------------------------------------------------------------------------
(* What the cache holds                                                     *)

\* Every entry is what transpiling its stream gave under its target.
CacheInv ==
  /\ IsTarget(target)
  /\ \A e \in cache : Answer(e.target, e.source) = [refused |-> FALSE, out |-> e.out]

LEMMA InitCacheInv == CallInit => CacheInv
BY RuleAssumption DEF CallInit, CacheInit, CacheInv

LEMMA TranspileKeepsCacheInv ==
  ASSUME CacheInv, NEW s, Transpile(s)
  PROVE  CacheInv'
<1> DEFINE source == Canonicalize(s).commands
           dummy == Answer(target, source)
           entry == [key |-> Key(Canonicalize(s)), out |-> dummy.out, target |-> target, source |-> source]
<1>1. target' = target
  BY DEF Transpile
<1>2. cache' = cache \/ (cache' = cache \cup {entry} /\ ~ dummy.refused)
  BY DEF Transpile
<1>3. dummy = [refused |-> dummy.refused, out |-> dummy.out] /\ dummy.refused \in BOOLEAN
  BY DEF Answer
<1>4. entry.target = target /\ entry.source = source /\ entry.out = dummy.out
  OBVIOUS
<1> HIDE DEF entry, source
<1>5. ~ dummy.refused => Answer(entry.target, entry.source) = [refused |-> FALSE, out |-> entry.out]
  BY <1>3, <1>4
<1> HIDE DEF dummy
<1>6. \A e \in cache' : Answer(e.target, e.source) = [refused |-> FALSE, out |-> e.out]
  BY <1>2, <1>5 DEF CacheInv
<1> QED
  BY <1>1, <1>6 DEF CacheInv

LEMMA RulesKeepCacheInv ==
  ASSUME CacheInv, (\E r \in Registrations : Register(r)) \/ InstallCliffordTRz
  PROVE  CacheInv'
<1> DEFINE old == target.registered
           T(a, r, w) == [allowed |-> a, rules |-> r, registered |-> w]
<1>1. target = T(target.allowed, target.rules, old) /\ \A g \in DOMAIN old : IsRule(g, old[g])
  BY DEF CacheInv, IsTarget
<1>2. cache' = cache
  BY DEF Register, InstallCliffordTRz
<1>3. IsTarget(target')
  <2>1. CASE \E r \in Registrations : Register(r)
    <3>1. PICK r \in Registrations : Register(r)
      BY <2>1
    <3> DEFINE new == [g \in DOMAIN old \cup {r.gate} |-> IF g = r.gate THEN r.rule ELSE old[g]]
               a == target.allowed
               b == target.rules
    <3>2. target' = [target EXCEPT !.registered = new]
      BY <3>1 DEF Register
    <3>3. \A g \in DOMAIN new : IsRule(g, new[g])
      BY <1>1, RuleAssumption
    <3> HIDE DEF new, a, b, old
    <3>4. [T(a, b, old) EXCEPT !.registered = new] = T(a, b, new)
      OBVIOUS
    <3>5. target' = T(a, b, new)
      BY <1>1, <3>2, <3>4 DEF a, b
    <3> QED
      BY <3>3, <3>5 DEF IsTarget
  <2>2. CASE InstallCliffordTRz
    <3> DEFINE D == DOMAIN old \ Decomposable("clifford_t_rz")
               new == Restrict(old, D)
               a == target.allowed
               b == target.rules
               k == "clifford_t_rz"
    <3>1. target' = [target EXCEPT !.rules = k, !.registered = new]
      BY <2>2 DEF InstallCliffordTRz
    <3>2. \A g \in DOMAIN new : IsRule(g, new[g])
      <4>1. new = [g \in D |-> old[g]]
        BY DEF Restrict
      <4> HIDE DEF new
      <4> QED
        BY <1>1, <4>1
    <3> HIDE DEF new, a, b, k, old
    <3>3. [T(a, b, old) EXCEPT !.rules = k] = T(a, k, old) /\ [T(a, k, old) EXCEPT !.registered = new] = T(a, k, new)
      OBVIOUS
    <3>4. target = T(a, b, old)
      BY <1>1 DEF a, b
    <3> HIDE DEF T
    <3>5. [[target EXCEPT !.rules = k] EXCEPT !.registered = new] = T(a, k, new)
      BY <3>3, <3>4
    <3>6. target' = T(a, k, new)
      BY <3>1, <3>5, Zenon
    <3> QED
      BY <3>2, <3>6 DEF IsTarget, T
  <2> QED
    BY <2>1, <2>2
<1> QED
  BY <1>2, <1>3 DEF CacheInv

LEMMA StutterKeepsCacheInv ==
  ASSUME CacheInv, target' = target, cache' = cache \/ cache' = {}
  PROVE  CacheInv'
BY DEF CacheInv

LEMMA NextKeepsCacheInv == CacheInv /\ [Next]_vars => CacheInv'
<1> SUFFICES ASSUME CacheInv, [Next]_vars PROVE CacheInv'
  OBVIOUS
<1>1. CASE UNCHANGED vars
  BY <1>1, StutterKeepsCacheInv DEF vars, cacheVars
<1>2. CASE Call
  <2>1. PICK c \in Clients :
          \/ \E l \in Lists : Begin(c, l)
          \/ ReturnEmpty(c) \/ TranspileAlone(c) \/ Submit(c) \/ Notify(c) \/ Get(c)
    BY <1>2 DEF Call
  <2>2. CASE TranspileAlone(c)
    BY <2>2, TranspileKeepsCacheInv DEF TranspileAlone
  <2>3. CASE ~ TranspileAlone(c)
    <3>1. UNCHANGED cacheVars
      BY <2>1, <2>3 DEF Begin, ReturnEmpty, Submit, Notify, Get
    <3> QED
      BY <3>1, StutterKeepsCacheInv DEF cacheVars
  <2> QED
    BY <2>2, <2>3
<1>3. CASE Work
  <2>1. UNCHANGED cacheVars
    BY <1>3 DEF Work, RunTask, Proceed
  <2> QED
    BY <2>1, StutterKeepsCacheInv DEF cacheVars
<1>4. CASE Configure
  <2>1. CASE (\E r \in Registrations : Register(r)) \/ InstallCliffordTRz
    BY <2>1, RulesKeepCacheInv
  <2>2. CASE ClearTopologyCache \/ \E on \in BOOLEAN : EnableTopologyCache(on)
    BY <2>2, StutterKeepsCacheInv DEF ClearTopologyCache, EnableTopologyCache
  <2> QED
    BY <1>4, <2>1, <2>2 DEF Configure
<1>5. CASE Destroy
  <2>1. UNCHANGED cacheVars
    BY <1>5 DEF Destroy
  <2> QED
    BY <2>1, StutterKeepsCacheInv DEF cacheVars
<1> QED
  BY <1>1, <1>2, <1>3, <1>4, <1>5 DEF Next

\* transpiler.cpp's cache, for any streams and any rules: an entry filled under
\* the current rules, from a stream that agrees with the query in its matrices
\* too, gives back what the uncached call would.
THEOREM HitsStayExact == Spec => []HitsExact
<1>1. CacheInv => HitsExact
  <2> SUFFICES ASSUME CacheInv, NEW s \in Streams, NEW e \in EntryFor(s), e.target = target,
                      e.source = Canonicalize(s).commands
               PROVE  Transparent(s, e)
    BY DEF HitsExact
  <2> DEFINE dummy == Answer(target, Canonicalize(s).commands)
  <2>1. dummy = [refused |-> FALSE, out |-> e.out]
    BY DEF EntryFor, CacheInv
  <2>2. IsTarget(target) /\ IsStream(s) /\ Len(Canonicalize(s).symbols) =< Len(DummySymbol)
    BY StreamAssumption DEF CacheInv
  <2>3. ~ dummy.refused /\ dummy.out = e.out
    BY <2>1
  <2>4. dummy = Answer(target, Canonicalize(s).commands)
    OBVIOUS
  <2> HIDE DEF dummy
  <2>5. Answer(target, s) = [refused |-> FALSE, out |-> Rebind(dummy.out, Canonicalize(s))]
    BY <2>2, <2>3, <2>4, RelabellingExact
  <2> QED
    BY <2>3, <2>5 DEF Transparent
<1>2. Spec => []CacheInv
  BY InitCacheInv, NextKeepsCacheInv, PTL DEF Spec
<1> QED
  BY <1>1, <1>2, PTL

=============================================================================
