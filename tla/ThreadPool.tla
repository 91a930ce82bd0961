----------------------------- MODULE ThreadPool -----------------------------
(***************************************************************************)
(* The fixed-size pool of parallel/thread_pool.cpp: a queue under a mutex, *)
(* workers waiting on a condition variable, and a destructor that stops    *)
(* and joins them.  A critical section is one step; between the push of a  *)
(* task and its notification the mutex is free.                            *)
(***************************************************************************)
EXTENDS Integers, Sequences, FiniteSets

CONSTANTS
  Workers,
  Clients,   \* threads that submit
  MaxTasks   \* bound on the tasks of one client

\* A pool has at least one worker: configured_thread_count never is zero.
ASSUME PoolAssumption ==
  IsFiniteSet(Workers) /\ Workers # {} /\ IsFiniteSet(Clients) /\ MaxTasks \in Nat

VARIABLES
  queue,      \* tasks_
  awake,      \* workers that will look at the queue, or run a task
  running,    \* what each worker runs: a set of at most one task
  exited,     \* workers whose loop has returned
  notifying,  \* clients between their push and notify_one
  shutdown    \* how far ~ThreadPool has come

poolVars == <<queue, awake, running, exited, notifying, shutdown>>

Task == Clients \X (1 .. MaxTasks)
Asleep == Workers \ (awake \cup exited)
Looking == {w \in awake : running[w] = {}}

PoolInit ==
  /\ queue = <<>>
  /\ awake = Workers
  /\ running = [w \in Workers |-> {}]
  /\ exited = {}
  /\ notifying = {}
  /\ shutdown = "no"

------------------------------------------------------------------------------
\* submit: under the lock; it never meets a stopped pool, whose owner is in
\* the destructor.
Push(c, t) ==
  /\ shutdown = "no" /\ c \notin notifying
  /\ queue' = Append(queue, t)
  /\ notifying' = notifying \cup {c}
  /\ UNCHANGED <<awake, running, exited, shutdown>>

\* Mutant of Notifies: a push notifies only a queue that was empty before.
NotifiesFirst(c) == Len(queue) =< 1

\* A push always notifies.
Notifies(c) == TRUE

\* notify_one: one sleeping worker, if there is one.
NotifyOne(c) ==
  /\ c \in notifying
  /\ notifying' = notifying \ {c}
  /\ IF Notifies(c) /\ Asleep # {}
     THEN \E w \in Asleep : awake' = awake \cup {w}
     ELSE UNCHANGED awake
  /\ UNCHANGED <<queue, running, exited, shutdown>>

\* Mutant of MayWait: wait() without its predicate.
WaitsAlways == shutdown = "no"

\* The predicate of cv_.wait is false.
MayWait == shutdown = "no" /\ queue = <<>>

Wait(w) ==
  /\ w \in Looking /\ MayWait
  /\ awake' = awake \ {w}
  /\ UNCHANGED <<queue, running, exited, notifying, shutdown>>

\* A condition variable may wake without a notification.
WakeSpuriously(w) ==
  /\ w \in Asleep
  /\ awake' = awake \cup {w}
  /\ UNCHANGED <<queue, running, exited, notifying, shutdown>>

Take(w) ==
  /\ w \in Looking /\ queue # <<>>
  /\ running' = [running EXCEPT ![w] = {Head(queue)}]
  /\ queue' = Tail(queue)
  /\ UNCHANGED <<awake, exited, notifying, shutdown>>

\* task() has returned; a packaged_task keeps the exception it met.
Finish(w) ==
  /\ w \in awake /\ running[w] # {}
  /\ running' = [running EXCEPT ![w] = {}]
  /\ UNCHANGED <<queue, awake, exited, notifying, shutdown>>

\* Mutant of MayExit: a stopped worker leaves whatever is queued.
ExitsAtOnce == shutdown # "no"

\* Stopped and drained.
MayExit == shutdown # "no" /\ queue = <<>>

Exit(w) ==
  /\ w \in Looking /\ MayExit
  /\ exited' = exited \cup {w} /\ awake' = awake \ {w}
  /\ UNCHANGED <<queue, running, notifying, shutdown>>

\* ~ThreadPool: stopped_ under the lock, notify_all, join.
Stop ==
  /\ shutdown = "no" /\ notifying = {}
  /\ shutdown' = "stopped"
  /\ UNCHANGED <<queue, awake, running, exited, notifying>>

NotifyAll ==
  /\ shutdown = "stopped"
  /\ shutdown' = "notified"
  /\ awake' = awake \cup Asleep
  /\ UNCHANGED <<queue, running, exited, notifying>>

Join ==
  /\ shutdown = "notified" /\ exited = Workers
  /\ shutdown' = "joined"
  /\ UNCHANGED <<queue, awake, running, exited, notifying>>

PoolNext ==
  \/ \E c \in Clients : NotifyOne(c) \/ \E t \in Task : Push(c, t)
  \/ \E w \in Workers : Wait(w) \/ WakeSpuriously(w) \/ Take(w) \/ Finish(w) \/ Exit(w)
  \/ Stop \/ NotifyAll \/ Join

------------------------------------------------------------------------------
PoolTypeOK ==
  /\ queue \in Seq(Task)
  /\ awake \subseteq Workers /\ exited \subseteq Workers /\ awake \cap exited = {}
  /\ running \in [Workers -> SUBSET Task]
  /\ \A w \in Workers : running[w] # {} => w \in awake
  /\ notifying \subseteq Clients
  /\ shutdown \in {"no", "stopped", "notified", "joined"}

\* No worker sleeps beside a queued task: as long as one does, every queued
\* task has a worker on its way to the queue or a notification still to come.
NoIdleWorker ==
  Asleep # {} => Len(queue) =< Cardinality(Looking) + Cardinality(notifying)

\* A worker leaves only a stopped pool whose queue it found empty.
ExitedDrained ==
  /\ exited # {} => shutdown # "no" /\ queue = <<>>
  /\ shutdown = "joined" => exited = Workers

PoolInv == PoolTypeOK /\ NoIdleWorker /\ ExitedDrained

\* The destructor waits for everything that was submitted.
Drained == shutdown = "joined" => queue = <<>> /\ \A w \in Workers : running[w] = {}

=============================================================================
