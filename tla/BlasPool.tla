------------------------------ MODULE BlasPool ------------------------------
(***************************************************************************)
(* The thread pool that serves OpenBLAS's threading callback               *)
(* (libqarpx, parallel/blas_threads.cpp): application threads call         *)
(* qarpx_openblas_threads, one call at a time; job 0 of a call runs on the *)
(* caller, job w on pool worker w.  A call is announced through one atomic *)
(* word; both hand-offs poll first and then sleep on a condition variable. *)
(* Fork handlers replace the pool in the child, an exit handler admits     *)
(* only the exiting thread.                                                *)
(*                                                                         *)
(* The process forked from this one is modelled by following it: Fork ends *)
(* either in the parent or in the child, where only the forking thread is  *)
(* left.  A job of OpenBLAS busy-waits for its siblings                    *)
(* (blas_threads.h), so a job ends only once every job of its call began.  *)
(***************************************************************************)
EXTENDS Integers, FiniteSets

CONSTANTS
  Callers,    \* application threads
  MaxJobs,    \* largest job count OpenBLAS asks for (below 2^16: kJobMask)
  MaxCalls,   \* bound on the calls of a behaviour
  MaxForks,   \* bound on the forks of a behaviour
  Nobody      \* a mutex nobody holds, a thread that does not exist

ASSUME CallersAssumption == IsFiniteSet(Callers) /\ Nobody \notin Callers
ASSUME BoundsAssumption ==
  /\ MaxJobs \in Nat \ {0}
  /\ MaxCalls \in Nat /\ MaxForks \in Nat
\* The low 16 bits of the call word hold a job count.
ASSUME JobCountFits == MaxJobs < 65536

Worker == 1 .. MaxJobs - 1
CallWord == [seq : Nat, jobs : 0 .. MaxJobs]

VARIABLES
  pc,         \* where each application thread is
  numjobs,    \* the job count of its current call
  sleepers,   \* its local of Pool::run: some worker slept when it published
  oneCall,    \* holder of g_one_call_at_a_time
  exiting,    \* g_exiting
  exiter,     \* g_exiting_thread
  exitCalled, \* exit() has been called: its handlers run once per lineage
  torn,       \* OpenBLAS's exit-time teardown has run
  mutex,      \* holder of Pool::mutex_ between two steps
  size,       \* workers_.size()
  wpc,        \* where each worker is
  seen,       \* the last call word each worker loaded
  ptr,        \* the Jobs object each worker runs from, named by its call
  sleeping,   \* sleeping_
  jobs,       \* jobs_, named by the call whose object it points to
  remaining,  \* remaining_
  call,       \* call_
  started,    \* jobs of the call in progress that began (history)
  ran,        \* how often each job of the call in progress ended (history)
  calls,      \* g_invocations, bounded by MaxCalls
  forks       \* forks so far, bounded by MaxForks

exitVars == <<exiting, exiter, exitCalled, torn>>
processVars == <<oneCall, exitVars>>
poolVars == <<mutex, size, wpc, seen, ptr, sleeping, jobs, remaining, call>>
vars == <<pc, numjobs, sleepers, processVars, poolVars, started, ran, calls,
          forks>>

\* A call in Pool::run whose word is published, up to its return.
Published == {"notify", "job0", "run0", "poll", "doneLock", "doneWait",
              "doneWoken"}
\* A thread that holds the call mutex.
InCall == Published \cup {"inline", "leave", "pool", "grow", "publish",
                          "forkPool", "fork"}
CallerPC == InCall \cup {"idle", "enter", "exitLock", "parked", "ended", "gone"}
WorkerPC == {"none", "poll", "lock", "wait", "woken", "load", "take", "run",
             "dec", "signal"}

Job(t) == 0 .. numjobs[t] - 1
Goto(t, from, to) == pc[t] = from /\ pc' = [pc EXCEPT ![t] = to]
Step(w, from, to) == wpc[w] = from /\ wpc' = [wpc EXCEPT ![w] = to]

NoCall == [seq |-> 0, jobs |-> 0]
AllWorkers(v) == [w \in Worker |-> v]

FreshPool ==
  /\ mutex = Nobody /\ size = 0
  /\ wpc = AllWorkers("none") /\ seen = AllWorkers(NoCall) /\ ptr = AllWorkers(0)
  /\ sleeping = 0 /\ jobs = 0 /\ remaining = 0 /\ call = NoCall

Init ==
  /\ pc = [t \in Callers |-> "idle"]
  /\ numjobs = [t \in Callers |-> 0]
  /\ sleepers = [t \in Callers |-> FALSE]
  /\ oneCall = Nobody
  /\ exiting = FALSE /\ exiter = Nobody /\ exitCalled = FALSE /\ torn = FALSE
  /\ FreshPool
  /\ started = {} /\ ran = [i \in 0 .. MaxJobs - 1 |-> 0]
  /\ calls = 0 /\ forks = 0

-----------------------------------------------------------------------------
(* The callback, up to the pool.                                           *)

\* The call counter is bumped first; a call without jobs returns at once.
Enter(t) ==
  /\ pc[t] = "idle" /\ calls < MaxCalls
  /\ calls' = calls + 1
  /\ \E n \in 0 .. MaxJobs :
       /\ numjobs' = [numjobs EXCEPT ![t] = n]
       /\ pc' = [pc EXCEPT ![t] = IF n = 0 THEN "idle" ELSE "enter"]
  /\ UNCHANGED <<sleepers, processVars, poolVars, started, ran, forks>>

\* The exit flag is read under the call mutex: once the process exits, only
\* the exiting thread is admitted and any other parks for good.
Park(t) ==
  /\ oneCall = Nobody /\ exiting /\ t # exiter
  /\ Goto(t, "enter", "parked")
  /\ UNCHANGED <<numjobs, sleepers, processVars, poolVars, started, ran, calls, forks>>

Admit(t) ==
  /\ oneCall = Nobody /\ (exiting => t = exiter)
  /\ oneCall' = t
  /\ Goto(t, "enter", IF numjobs[t] = 1 THEN "inline" ELSE "pool")
  /\ started' = {} /\ ran' = [i \in 0 .. MaxJobs - 1 |-> 0]
  /\ UNCHANGED <<numjobs, sleepers, exitVars, poolVars, calls, forks>>

\* A single job runs on the caller, without the pool.
RunInline(t) ==
  /\ Goto(t, "inline", "leave")
  /\ started' = {0} /\ ran' = [ran EXCEPT ![0] = @ + 1]
  /\ UNCHANGED <<numjobs, sleepers, processVars, poolVars, calls, forks>>

LeaveInline(t) ==
  /\ Goto(t, "leave", "idle")
  /\ oneCall' = Nobody
  /\ UNCHANGED <<numjobs, sleepers, exitVars, poolVars, started, ran,
                 calls, forks>>

-----------------------------------------------------------------------------
(* Pool::run on the caller.                                                *)

LockPool(t) ==
  /\ Goto(t, "pool", "grow")
  /\ mutex = Nobody /\ mutex' = t
  /\ UNCHANGED <<numjobs, sleepers, processVars, size, wpc, seen, ptr, sleeping,
                 jobs, remaining, call, started, ran, calls, forks>>

\* A new worker starts at the current call word.
Spawn(t) ==
  /\ pc[t] = "grow" /\ size < numjobs[t] - 1
  /\ size' = size + 1
  /\ wpc' = [wpc EXCEPT ![size + 1] = "poll"]
  /\ seen' = [seen EXCEPT ![size + 1] = call]
  /\ UNCHANGED <<pc, numjobs, sleepers, processVars, mutex, ptr, sleeping, jobs,
                 remaining, call, started, ran, calls, forks>>

\* Mutant of Prepare: the countdown forgets that only the caller runs job 0.
PrepareTooFew(t) ==
  /\ Goto(t, "grow", "publish") /\ size >= numjobs[t] - 1
  /\ jobs' = call.seq + 1
  /\ remaining' = numjobs[t] - 2
  /\ UNCHANGED <<numjobs, sleepers, processVars, mutex, size, wpc, seen, ptr,
                 sleeping, call, started, ran, calls, forks>>

\* jobs_ and remaining_ are stored before the word that publishes them.
Prepare(t) ==
  /\ Goto(t, "grow", "publish") /\ size >= numjobs[t] - 1
  /\ jobs' = call.seq + 1
  /\ remaining' = numjobs[t] - 1
  /\ UNCHANGED <<numjobs, sleepers, processVars, mutex, size, wpc, seen, ptr,
                 sleeping, call, started, ran, calls, forks>>

\* Mutant of Publish: a single sleeper is overlooked.
PublishToMany(t) ==
  /\ Goto(t, "publish", "notify")
  /\ call' = [seq |-> call.seq + 1, jobs |-> numjobs[t]]
  /\ sleepers' = [sleepers EXCEPT ![t] = sleeping > 1]
  /\ mutex' = Nobody
  /\ UNCHANGED <<numjobs, processVars, size, wpc, seen, ptr, sleeping, jobs,
                 remaining, started, ran, calls, forks>>

\* The word is stored and sleeping_ read before the pool mutex is released.
Publish(t) ==
  /\ Goto(t, "publish", "notify")
  /\ call' = [seq |-> call.seq + 1, jobs |-> numjobs[t]]
  /\ sleepers' = [sleepers EXCEPT ![t] = sleeping > 0]
  /\ mutex' = Nobody
  /\ UNCHANGED <<numjobs, processVars, size, wpc, seen, ptr, sleeping, jobs,
                 remaining, started, ran, calls, forks>>

\* Mutant of NotifySleepers: notify_one for notify_all.
NotifyOne(t) ==
  /\ Goto(t, "notify", "job0")
  /\ \/ \E w \in Worker : sleepers[t] /\ Step(w, "wait", "woken")
     \/ (sleepers[t] => \A w \in Worker : wpc[w] # "wait") /\ UNCHANGED wpc
  /\ UNCHANGED <<numjobs, sleepers, processVars, mutex, size, seen, ptr, sleeping,
                 jobs, remaining, call, started, ran, calls, forks>>

\* Only a sleeper costs a wake-up: wake_.notify_all().
NotifySleepers(t) ==
  /\ Goto(t, "notify", "job0")
  /\ wpc' = [w \in Worker |-> IF sleepers[t] /\ wpc[w] = "wait" THEN "woken"
                              ELSE wpc[w]]
  /\ UNCHANGED <<numjobs, sleepers, processVars, mutex, size, seen, ptr, sleeping,
                 jobs, remaining, call, started, ran, calls, forks>>

StartJob0(t) ==
  /\ Goto(t, "job0", "run0")
  /\ started' = started \cup {0}
  /\ UNCHANGED <<numjobs, sleepers, processVars, poolVars, ran, calls, forks>>

EndJob0(t) ==
  /\ Goto(t, "run0", "poll")
  /\ Job(t) \subseteq started
  /\ ran' = [ran EXCEPT ![0] = @ + 1]
  /\ UNCHANGED <<numjobs, sleepers, processVars, poolVars, started, calls, forks>>

\* Both waits of the caller end when remaining_ is 0, the second one under the
\* pool mutex; leaving Pool::run gives the call mutex back.
Return(t) ==
  /\ pc[t] = "poll" \/ (pc[t] \in {"doneLock", "doneWoken"} /\ mutex = Nobody)
  /\ remaining = 0
  /\ pc' = [pc EXCEPT ![t] = "idle"]
  /\ oneCall' = Nobody
  /\ UNCHANGED <<numjobs, sleepers, exitVars, poolVars, started, ran, calls, forks>>

\* kIdleSpin is over.
StopPolling(t) ==
  /\ Goto(t, "poll", "doneLock")
  /\ UNCHANGED <<numjobs, sleepers, processVars, poolVars, started, ran, calls, forks>>

\* Mutant of SleepOnDone: a wait without its predicate.
SleepUnchecked(t) ==
  /\ pc[t] \in {"doneLock", "doneWoken"} /\ mutex = Nobody
  /\ pc' = [pc EXCEPT ![t] = "doneWait"]
  /\ UNCHANGED <<numjobs, sleepers, processVars, poolVars, started, ran, calls, forks>>

\* done_.wait tests its predicate under the pool mutex, before it sleeps and
\* after every wake-up.
SleepOnDone(t) ==
  /\ pc[t] \in {"doneLock", "doneWoken"} /\ mutex = Nobody /\ remaining # 0
  /\ pc' = [pc EXCEPT ![t] = "doneWait"]
  /\ UNCHANGED <<numjobs, sleepers, processVars, poolVars, started, ran, calls, forks>>

-----------------------------------------------------------------------------
(* Pool::work and Pool::next_call on worker w.                             *)

Moved(w) == call # seen[w]

\* The worker sees the word move while it polls, or under the pool mutex when
\* wake_.wait tests its predicate for the first time.
SeeCall(w) ==
  /\ wpc[w] = "poll" \/ (wpc[w] = "lock" /\ mutex = Nobody)
  /\ Moved(w)
  /\ wpc' = [wpc EXCEPT ![w] = "load"]
  /\ UNCHANGED <<pc, numjobs, sleepers, processVars, mutex, size, seen, ptr, sleeping,
                 jobs, remaining, call, started, ran, calls, forks>>

\* kIdleSpin is over.
GiveUpPolling(w) ==
  /\ Step(w, "poll", "lock")
  /\ UNCHANGED <<pc, numjobs, sleepers, processVars, mutex, size, seen, ptr, sleeping,
                 jobs, remaining, call, started, ran, calls, forks>>

\* ++sleeping_, and to sleep in wake_.wait.
Sleep(w) ==
  /\ Step(w, "lock", "wait") /\ mutex = Nobody /\ ~Moved(w)
  /\ sleeping' = sleeping + 1
  /\ UNCHANGED <<pc, numjobs, sleepers, processVars, mutex, size, seen, ptr, jobs,
                 remaining, call, started, ran, calls, forks>>

\* Back under the mutex: --sleeping_ and on, or to sleep again.
Wake(w) ==
  /\ Step(w, "woken", "load") /\ mutex = Nobody /\ Moved(w)
  /\ sleeping' = sleeping - 1
  /\ UNCHANGED <<pc, numjobs, sleepers, processVars, mutex, size, seen, ptr, jobs,
                 remaining, call, started, ran, calls, forks>>

SleepAgain(w) ==
  /\ Step(w, "woken", "wait") /\ mutex = Nobody /\ ~Moved(w)
  /\ UNCHANGED <<pc, numjobs, sleepers, processVars, mutex, size, seen, ptr, sleeping,
                 jobs, remaining, call, started, ran, calls, forks>>

\* Mutant of LoadCall: one worker too many takes part.
LoadCallOffByOne(w) ==
  /\ wpc[w] = "load"
  /\ seen' = [seen EXCEPT ![w] = call]
  /\ wpc' = [wpc EXCEPT ![w] = IF w <= call.jobs THEN "take" ELSE "poll"]
  /\ UNCHANGED <<pc, numjobs, sleepers, processVars, mutex, size, ptr, sleeping, jobs,
                 remaining, call, started, ran, calls, forks>>

\* The word may have moved on since the test: the load decides.
LoadCall(w) ==
  /\ wpc[w] = "load"
  /\ seen' = [seen EXCEPT ![w] = call]
  /\ wpc' = [wpc EXCEPT ![w] = IF w < call.jobs THEN "take" ELSE "poll"]
  /\ UNCHANGED <<pc, numjobs, sleepers, processVars, mutex, size, ptr, sleeping, jobs,
                 remaining, call, started, ran, calls, forks>>

TakeJob(w) ==
  /\ Step(w, "take", "run")
  /\ ptr' = [ptr EXCEPT ![w] = jobs]
  /\ started' = started \cup {w}
  /\ UNCHANGED <<pc, numjobs, sleepers, processVars, mutex, size, seen, sleeping, jobs,
                 remaining, call, ran, calls, forks>>

EndJob(w) ==
  /\ Step(w, "run", "dec")
  /\ 0 .. seen[w].jobs - 1 \subseteq started
  /\ ran' = [ran EXCEPT ![w] = @ + 1]
  /\ UNCHANGED <<pc, numjobs, sleepers, processVars, mutex, size, seen, ptr, sleeping,
                 jobs, remaining, call, started, calls, forks>>

CountDown(w) ==
  /\ wpc[w] = "dec"
  /\ remaining' = remaining - 1
  /\ wpc' = [wpc EXCEPT ![w] = IF remaining = 1 THEN "signal" ELSE "poll"]
  /\ UNCHANGED <<pc, numjobs, sleepers, processVars, mutex, size, seen, ptr, sleeping,
                 jobs, call, started, ran, calls, forks>>

\* done_.notify_one() under the mutex; only the one caller in the pool waits.
SignalDone(w) ==
  /\ Step(w, "signal", "poll") /\ mutex = Nobody
  /\ \/ \E t \in Callers : Goto(t, "doneWait", "doneWoken")
     \/ (\A t \in Callers : pc[t] # "doneWait") /\ UNCHANGED pc
  /\ UNCHANGED <<numjobs, sleepers, processVars, mutex, size, seen, ptr, sleeping, jobs,
                 remaining, call, started, ran, calls, forks>>

\* Condition variables wake without a notification now and then.
SpuriousWake ==
  /\ \/ \E w \in Worker : Step(w, "wait", "woken") /\ UNCHANGED pc
     \/ \E t \in Callers : Goto(t, "doneWait", "doneWoken") /\ UNCHANGED wpc
  /\ UNCHANGED <<numjobs, sleepers, processVars, mutex, size, seen, ptr, sleeping, jobs,
                 remaining, call, started, ran, calls, forks>>

-----------------------------------------------------------------------------
(* fork() and exit() on an application thread.                             *)

BeginFork(t) ==
  /\ Goto(t, "idle", "forkPool") /\ forks < MaxForks
  /\ oneCall = Nobody /\ oneCall' = t
  /\ forks' = forks + 1
  /\ UNCHANGED <<numjobs, sleepers, exitVars, poolVars, started, ran, calls>>

ForkLockPool(t) ==
  /\ Goto(t, "forkPool", "fork")
  /\ mutex = Nobody /\ mutex' = t
  /\ UNCHANGED <<numjobs, sleepers, processVars, size, wpc, seen, ptr, sleeping, jobs,
                 remaining, call, started, ran, calls, forks>>

ForkInParent(t) ==
  /\ Goto(t, "fork", "idle")
  /\ mutex' = Nobody /\ oneCall' = Nobody
  /\ UNCHANGED <<numjobs, sleepers, exitVars, size, wpc, seen, ptr,
                 sleeping, jobs, remaining, call, started, ran, calls, forks>>

\* Mutant of ForkInChild: the child resets its pool but not sleeping_.
ForkKeepsSleeping(t) ==
  /\ pc[t] = "fork"
  /\ pc' = [u \in Callers |-> IF u = t THEN "idle" ELSE "gone"]
  /\ mutex' = Nobody /\ size' = 0
  /\ wpc' = AllWorkers("none") /\ seen' = AllWorkers(NoCall) /\ ptr' = AllWorkers(0)
  /\ jobs' = 0 /\ remaining' = 0 /\ call' = NoCall
  /\ oneCall' = Nobody
  /\ UNCHANGED <<numjobs, sleepers, exitVars, sleeping, started, ran, calls, forks>>

\* Only the forking thread exists in the child, and a new pool.
ForkInChild(t) ==
  /\ pc[t] = "fork"
  /\ pc' = [u \in Callers |-> IF u = t THEN "idle" ELSE "gone"]
  /\ mutex' = Nobody /\ size' = 0
  /\ wpc' = AllWorkers("none") /\ seen' = AllWorkers(NoCall) /\ ptr' = AllWorkers(0)
  /\ sleeping' = 0 /\ jobs' = 0 /\ remaining' = 0 /\ call' = NoCall
  /\ oneCall' = Nobody
  /\ UNCHANGED <<numjobs, sleepers, exitVars, started, ran, calls, forks>>

\* One thread of the process calls exit().
BeginExit(t) ==
  /\ Goto(t, "idle", "exitLock")
  /\ ~exitCalled /\ exitCalled' = TRUE
  /\ UNCHANGED <<numjobs, sleepers, oneCall, exiting, exiter, torn, poolVars, started, ran, calls, forks>>

\* Mutant of AdmitOnlyThisThread: the handler does not wait for a call to end.
AdmitWithoutLock(t) ==
  /\ Goto(t, "exitLock", "idle")
  /\ exiter' = t /\ exiting' = TRUE
  /\ UNCHANGED <<numjobs, sleepers, oneCall, exitCalled, torn, poolVars, started, ran, calls, forks>>

\* The exit handler takes the call mutex before it closes the pool to others.
AdmitOnlyThisThread(t) ==
  /\ Goto(t, "exitLock", "idle") /\ oneCall = Nobody
  /\ exiter' = t /\ exiting' = TRUE
  /\ UNCHANGED <<numjobs, sleepers, oneCall, exitCalled, torn, poolVars, started, ran, calls, forks>>

\* The exiting thread's handlers are over: OpenBLAS tears itself down.
Teardown(t) ==
  /\ exiting /\ t = exiter
  /\ Goto(t, "idle", "ended")
  /\ torn' = TRUE
  /\ UNCHANGED <<numjobs, sleepers, oneCall, exiting, exiter, exitCalled, poolVars, started, ran,
                 calls, forks>>

-----------------------------------------------------------------------------
CallerStep(t) ==
  \/ Park(t) \/ Admit(t) \/ RunInline(t) \/ LeaveInline(t)
  \/ LockPool(t) \/ Spawn(t) \/ Prepare(t) \/ Publish(t) \/ NotifySleepers(t)
  \/ StartJob0(t) \/ EndJob0(t) \/ StopPolling(t) \/ SleepOnDone(t) \/ Return(t)

WorkerStep(w) ==
  \/ SeeCall(w) \/ GiveUpPolling(w) \/ Sleep(w) \/ Wake(w) \/ SleepAgain(w)
  \/ LoadCall(w) \/ TakeJob(w) \/ EndJob(w) \/ CountDown(w) \/ SignalDone(w)

ForkStep(t) == ForkLockPool(t) \/ ForkInParent(t) \/ ForkInChild(t)

Next ==
  \/ \E t \in Callers :
       \/ Enter(t) \/ CallerStep(t)
       \/ BeginFork(t) \/ ForkStep(t)
       \/ BeginExit(t) \/ AdmitOnlyThisThread(t) \/ Teardown(t)
  \/ \E w \in Worker : WorkerStep(w)
  \/ SpuriousWake

Spec == Init /\ [][Next]_vars

\* The operating system runs every thread that can run, and a mutex whose
\* holder releases it is handed on: no thread is starved of a lock for ever.
Fairness ==
  /\ \A t \in Callers : WF_vars(CallerStep(t)) /\ WF_vars(ForkStep(t))
                        /\ WF_vars(AdmitOnlyThisThread(t))
  /\ \A w \in Worker : WF_vars(WorkerStep(w))

FairSpec == Spec /\ Fairness

-----------------------------------------------------------------------------
TypeOK ==
  /\ pc \in [Callers -> CallerPC]
  /\ numjobs \in [Callers -> 0 .. MaxJobs]
  /\ sleepers \in [Callers -> BOOLEAN]
  /\ oneCall \in Callers \cup {Nobody}
  /\ exiting \in BOOLEAN
  /\ exiter \in Callers \cup {Nobody}
  /\ exitCalled \in BOOLEAN
  /\ torn \in BOOLEAN
  /\ mutex \in Callers \cup {Nobody}
  /\ size \in 0 .. MaxJobs - 1
  /\ wpc \in [Worker -> WorkerPC]
  /\ seen \in [Worker -> CallWord]
  /\ ptr \in [Worker -> Nat]
  /\ sleeping \in Nat
  /\ jobs \in Nat
  /\ remaining \in Nat
  /\ call \in CallWord
  /\ started \in SUBSET (0 .. MaxJobs - 1)
  /\ ran \in [0 .. MaxJobs - 1 -> Nat]
  /\ calls \in Nat
  /\ forks \in Nat

\* A worker only runs from the Jobs object of the call in progress, whose
\* caller is still in Pool::run: the object on that caller's stack is alive
\* ("the job pointer read here is the call's own").
JobsAlive ==
  \A w \in Worker :
    /\ wpc[w] \in {"take", "run"} =>
         \E t \in Callers : pc[t] \in Published /\ w < numjobs[t]
    /\ wpc[w] = "take" => jobs = call.seq
    /\ wpc[w] = "run" => ptr[w] = call.seq

\* No lost wake-up towards a worker: whenever a worker sleeps on wake_ with a
\* newer call published, the caller has yet to notify and knows of a sleeper.
NoMissedCall ==
  \A w \in Worker :
    wpc[w] = "wait" /\ Moved(w) =>
      \E t \in Callers : pc[t] = "notify" /\ sleepers[t]

\* No lost wake-up towards the caller: it never sleeps on done_ with every job
\* over unless a worker is about to notify it.
NoMissedDone ==
  \A t \in Callers :
    pc[t] = "doneWait" /\ remaining = 0 => \E w \in Worker : wpc[w] = "signal"

\* OpenBLAS's exit-time teardown never runs under a job of a thread that
\* outlives it, and no job starts after it.
TeardownQuiet ==
  torn => /\ \A t \in Callers : pc[t] \notin Published \cup {"inline"}
          /\ \A w \in Worker : wpc[w] \notin {"take", "run", "dec"}

\* A thread that holds the call mutex, for a call or for a fork, gives it back,
\* although the jobs of a call wait for one another.
CallReturns ==
  \A t \in Callers : pc[t] \in InCall ~> pc[t] \notin InCall

\* What the callback promises OpenBLAS, stated by BlasCall.
Busy == IF \E t \in Callers : oneCall = t /\ pc[t] \notin {"forkPool", "fork"}
        THEN oneCall ELSE Nobody
Call == INSTANCE BlasCall
          WITH busy <- Busy, runs <- ran, owner <- exiter,
               wanted <- IF Busy = Nobody THEN 0 ELSE numjobs[Busy]

\* Calls run one at a time, every job runs exactly once, a call returns with
\* every job done, and once the process exits only the exiting thread calls.
ImplementsBlasCall == Call!Spec

-----------------------------------------------------------------------------
(* The inductive invariant behind the safety properties.                   *)

Active(w) == wpc[w] \in {"take", "run", "dec"}
Asleep == {w \in Worker : wpc[w] \in {"wait", "woken"}}
Serving == InCall \ {"forkPool", "fork"}

\* Workers of the published call whose job is not counted down yet.
Unserved == {w \in Worker : w < call.jobs /\ (seen[w] # call \/ Active(w))}

LockInv ==
  \A t \in Callers : /\ pc[t] \in InCall <=> oneCall = t
                     /\ pc[t] \in {"grow", "publish", "fork"} <=> mutex = t

WorkerInv ==
  \A w \in Worker :
    /\ wpc[w] = "none" <=> size < w
    /\ seen[w].seq <= call.seq
    /\ seen[w].seq = call.seq => seen[w] = call
    /\ Active(w) => seen[w] = call /\ w < call.jobs
    /\ wpc[w] = "load" => Moved(w)
    /\ wpc[w] = "run" => ptr[w] = call.seq

CallInv ==
  \A t \in Callers :
    /\ pc[t] \in {"inline", "leave"} => numjobs[t] = 1
    /\ pc[t] = "enter" => numjobs[t] >= 1
    /\ pc[t] \in {"pool", "grow", "publish"} => numjobs[t] >= 2
    /\ pc[t] = "publish" => /\ size >= numjobs[t] - 1
                            /\ jobs = call.seq + 1
                            /\ remaining = numjobs[t] - 1
    /\ pc[t] \in Published => /\ call.jobs = numjobs[t] /\ call.jobs >= 2
                              /\ size >= call.jobs - 1
                              /\ jobs = call.seq

\* remaining_ counts the unserved workers, and between calls there are none.
CountInv ==
  /\ (\A t \in Callers : pc[t] # "publish") => remaining = Cardinality(Unserved)
  /\ (\A t \in Callers : pc[t] \notin Published) => Unserved = {}

\* Worker w has run its job of the published call.
JobOver(w) == seen[w] = call /\ wpc[w] \notin {"take", "run"}

SleepInv == sleeping = Cardinality(Asleep)

RanInv ==
  \A t \in Callers :
    /\ pc[t] \in {"inline", "pool", "grow", "publish"} =>
         ran = [i \in 0 .. MaxJobs - 1 |-> 0]
    /\ pc[t] = "leave" => ran[0] = 1
    /\ pc[t] \in Published =>
         /\ ran[0] = IF pc[t] \in {"notify", "job0", "run0"} THEN 0 ELSE 1
         /\ \A w \in Worker :
              w < call.jobs => ran[w] = IF JobOver(w) THEN 1 ELSE 0

ExitInv ==
  /\ exiting <=> exiter # Nobody
  /\ torn => exiting /\ \A t \in Callers : t = exiter => pc[t] \in {"ended", "gone"}
  /\ exiting => \A t \in Callers : pc[t] \in Serving => t = exiter
  /\ exiting => exitCalled
  /\ \A t, u \in Callers :
       pc[t] = "exitLock" => exitCalled /\ ~exiting /\ (pc[u] = "exitLock" => t = u)

\* The safety of the pool: one call at a time, alive Jobs objects, an exact
\* countdown, no lost wake-up in either direction, an orderly exit.
IInv ==
  /\ TypeOK /\ LockInv /\ WorkerInv /\ CallInv /\ CountInv /\ SleepInv
  /\ RanInv /\ ExitInv /\ NoMissedCall /\ NoMissedDone

=============================================================================
