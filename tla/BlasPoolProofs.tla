---------------------------- MODULE BlasPoolProofs ----------------------------
(***************************************************************************)
(* The safety of the OpenBLAS callback pool, for every number of threads,  *)
(* jobs, calls and forks.  IInv of BlasPool is inductive: the countdown    *)
(* equals the number of unserved workers, so the caller returns exactly    *)
(* when every job is over, and the sleeper count equals the number of      *)
(* workers asleep, so no wake-up is lost.  The same invariant shows that   *)
(* the pool implements BlasCall.                                           *)
(***************************************************************************)
EXTENDS BlasPool, FiniteSetTheorems, TLAPS

-----------------------------------------------------------------------------
(* Facts about one state.                                                  *)

\* The call mutex admits one thread: at most one caller is in a call or fork.
LEMMA OneInCall ==
  ASSUME LockInv, NEW t \in Callers, NEW u \in Callers,
         pc[t] \in InCall, pc[u] \in InCall
  PROVE  t = u
  BY DEF LockInv

\* A worker that is about to run, runs or has just run a job is still to be
\* counted down, for a caller in Pool::run.
LEMMA ActiveUnserved ==
  ASSUME IInv, NEW w \in Worker, Active(w)
  PROVE  w \in Unserved /\ \E t \in Callers : pc[t] \in Published
<1>1. w \in Unserved
  BY DEF IInv, WorkerInv, Unserved
<1> QED
  BY <1>1 DEF IInv, CountInv

\* While a caller prepares a call, or a fork holds the mutex, no worker works.
LEMMA NoneActive ==
  ASSUME IInv, NEW t \in Callers, pc[t] \in InCall \ Published, NEW w \in Worker
  PROVE  ~Active(w) /\ w \notin Unserved
<1>1. \A u \in Callers : pc[u] \notin Published
  BY OneInCall DEF IInv, InCall
<1> QED
  BY <1>1, ActiveUnserved DEF IInv, CountInv

\* The counted sets are finite.
LEMMA WorkersFinite ==
  IsFiniteSet(Worker) /\ IsFiniteSet(Unserved) /\ IsFiniteSet(Asleep)
<1>1. IsFiniteSet(Worker)
  BY FS_Interval, BoundsAssumption DEF Worker
<1> QED
  BY <1>1, FS_Subset DEF Unserved, Asleep

-----------------------------------------------------------------------------
(* The counted sets over the steps that change them.                       *)

\* A new worker is not part of any call in progress.
LEMMA SpawnUnserved ==
  ASSUME IInv, NEW t \in Callers, Spawn(t)
  PROVE  Unserved' = Unserved
<1>1. \A w \in Worker : ~Active(w)
  BY NoneActive DEF Spawn, InCall, Published
<1>2. size + 1 \in Worker /\ Unserved = {}
  BY OneInCall, BoundsAssumption DEF IInv, CountInv, InCall, Published, TypeOK, Spawn, Worker
<1>3. UNCHANGED call /\ \A w \in Worker : ~Active(w)' /\ (w < call.jobs => seen'[w] = call)
  BY <1>1, <1>2 DEF IInv, TypeOK, Spawn, Active, Unserved
<1> QED
  BY <1>2, <1>3 DEF Unserved

\* Publishing a word makes every worker of the call unserved at once.
LEMMA PublishUnserved ==
  ASSUME IInv, NEW t \in Callers, Publish(t)
  PROVE  /\ Unserved' = 1 .. numjobs[t] - 1
         /\ Cardinality(Unserved') = remaining
<1>1. \A w \in Worker : seen'[w] # call'
  BY DEF Publish, IInv, TypeOK, WorkerInv, CallWord
<1>2. call'.jobs = numjobs[t] /\ numjobs[t] \in 2 .. MaxJobs /\ remaining = numjobs[t] - 1
  BY DEF Publish, Goto, IInv, TypeOK, CallInv
<1>3. Unserved' = {w \in 1 .. MaxJobs - 1 : w < numjobs[t]}
  BY <1>1, <1>2 DEF Unserved, Worker
<1>4. Unserved' = 1 .. numjobs[t] - 1
  BY <1>2, <1>3, BoundsAssumption
<1> QED
  BY <1>2, <1>4, FS_Interval

\* Counting down removes exactly the worker that counts.
LEMMA CountDownUnserved ==
  ASSUME IInv, NEW w \in Worker, CountDown(w)
  PROVE  /\ w \in Unserved /\ Unserved' = Unserved \ {w}
         /\ Cardinality(Unserved') = Cardinality(Unserved) - 1
         /\ remaining = Cardinality(Unserved) /\ remaining > 0
<1>1. w \in Unserved
  BY ActiveUnserved DEF CountDown, Active
<1>2. /\ UNCHANGED <<call, seen>> /\ seen[w] = call /\ ~Active(w)'
      /\ \A v \in Worker : v # w => (Active(v)' <=> Active(v))
  BY DEF CountDown, Active, IInv, TypeOK, WorkerInv
<1>3. Unserved' = Unserved \ {w}
  BY <1>1, <1>2 DEF Unserved
<1>4. remaining = Cardinality(Unserved)
  BY ActiveUnserved, OneInCall
  DEF IInv, CountInv, CountDown, Active, Published, InCall
<1>5. remaining # 0
  <2>1. Unserved # {} /\ IsFiniteSet(Unserved)
    BY <1>1, WorkersFinite
  <2> QED
    BY <1>4, <2>1, FS_EmptySet
<1>6. remaining > 0
  BY <1>5 DEF IInv, TypeOK
<1> QED
  BY <1>1, <1>3, <1>4, <1>6, FS_RemoveElement, WorkersFinite

\* A worker that goes to sleep is counted once.
LEMMA SleepAsleep ==
  ASSUME IInv, NEW w \in Worker, Sleep(w)
  PROVE  Cardinality(Asleep') = Cardinality(Asleep) + 1
<1>1. w \notin Asleep /\ Asleep' = Asleep \cup {w}
  BY DEF Sleep, Step, Asleep, IInv, TypeOK
<1> QED
  BY <1>1, FS_AddElement, WorkersFinite

\* A worker that wakes was counted.
LEMMA WakeAsleep ==
  ASSUME IInv, NEW w \in Worker, Wake(w)
  PROVE  Cardinality(Asleep') = Cardinality(Asleep) - 1 /\ sleeping > 0
<1>1. w \in Asleep /\ Asleep' = Asleep \ {w}
  BY DEF Wake, Step, Asleep, IInv, TypeOK
<1>2. sleeping # 0
  <2>1. Asleep # {} /\ IsFiniteSet(Asleep)
    BY <1>1, WorkersFinite
  <2> QED
    BY <2>1, FS_EmptySet DEF IInv, SleepInv
<1>3. sleeping > 0
  BY <1>2 DEF IInv, TypeOK
<1> QED
  BY <1>1, <1>3, FS_RemoveElement, WorkersFinite


\* The two mutexes are held by the threads whose code holds them.
LEMMA LockKept == ASSUME IInv, Next PROVE LockInv'
<1> USE DEF Goto, Step, processVars, poolVars, exitVars
<1>1. ASSUME NEW t \in Callers,
             Park(t) \/ Admit(t) \/ RunInline(t) \/ LeaveInline(t) \/
             LockPool(t) \/ Spawn(t) \/ Prepare(t) \/ Publish(t) \/
             NotifySleepers(t) \/ StartJob0(t) \/ EndJob0(t) \/ StopPolling(t)
             \/ SleepOnDone(t) \/ Return(t)
      PROVE LockInv'
  BY <1>1, CallersAssumption
  DEF IInv, TypeOK, LockInv, InCall, Published, Park, Admit, RunInline,
      LeaveInline, LockPool, Spawn, Prepare, Publish, NotifySleepers,
      StartJob0, EndJob0, StopPolling, SleepOnDone, Return
<1>2. ASSUME NEW t \in Callers,
             Enter(t) \/ BeginFork(t) \/ ForkLockPool(t) \/ ForkInParent(t) \/
             ForkInChild(t) \/ BeginExit(t) \/ AdmitOnlyThisThread(t) \/
             Teardown(t)
      PROVE LockInv'
  BY <1>2, CallersAssumption
  DEF IInv, TypeOK, LockInv, InCall, Published, Enter, BeginFork,
      ForkLockPool, ForkInParent, ForkInChild, BeginExit, AdmitOnlyThisThread,
      Teardown
<1>3. ASSUME NEW w \in Worker,
             SeeCall(w) \/ GiveUpPolling(w) \/ Sleep(w) \/ Wake(w) \/
             SleepAgain(w) \/ LoadCall(w) \/ TakeJob(w) \/ EndJob(w) \/
             CountDown(w) \/ SignalDone(w)
      PROVE LockInv'
  BY <1>3, CallersAssumption
  DEF IInv, TypeOK, LockInv, InCall, Published, SeeCall, GiveUpPolling, Sleep,
      Wake, SleepAgain, LoadCall, TakeJob, EndJob, CountDown, SignalDone
<1>4. ASSUME SpuriousWake PROVE LockInv'
  BY <1>4, CallersAssumption
  DEF IInv, TypeOK, LockInv, InCall, Published, SpuriousWake
<1> QED
  BY <1>1, <1>2, <1>3, <1>4 DEF Next, CallerStep, WorkerStep, ForkStep

\* The job counts, the jobs_ pointer and the pool size fit the call.
LEMMA CallKept == ASSUME IInv, Next PROVE CallInv'
<1> USE DEF Goto, Step, processVars, poolVars, exitVars
<1>1. ASSUME NEW t \in Callers,
             Park(t) \/ Admit(t) \/ RunInline(t) \/ LeaveInline(t)
      PROVE CallInv'
  BY <1>1, CallersAssumption
  DEF IInv, TypeOK, LockInv, CallInv, InCall, Published, Park, Admit,
      RunInline, LeaveInline
<1>2. ASSUME NEW t \in Callers,
             LockPool(t) \/ Spawn(t)
      PROVE CallInv'
  BY <1>2, CallersAssumption
  DEF IInv, TypeOK, LockInv, CallInv, InCall, Published, LockPool, Spawn
<1>3. ASSUME NEW t \in Callers, Prepare(t) PROVE CallInv'
  BY <1>3, BoundsAssumption
  DEF IInv, TypeOK, LockInv, CallInv, InCall, Published, Prepare
<1>4. ASSUME NEW t \in Callers, Publish(t) PROVE CallInv'
  BY <1>4
  DEF IInv, TypeOK, LockInv, CallInv, InCall, Published, Publish
<1>5. ASSUME NEW t \in Callers,
             NotifySleepers(t) \/ StartJob0(t) \/ EndJob0(t) \/ StopPolling(t)
             \/ SleepOnDone(t) \/ Return(t)
      PROVE CallInv'
  BY <1>5, CallersAssumption
  DEF IInv, TypeOK, LockInv, CallInv, InCall, Published, NotifySleepers,
      StartJob0, EndJob0, StopPolling, SleepOnDone, Return
<1>6. ASSUME NEW t \in Callers,
             Enter(t) \/ BeginFork(t) \/ ForkLockPool(t) \/ ForkInParent(t) \/
             ForkInChild(t) \/ BeginExit(t) \/ AdmitOnlyThisThread(t) \/
             Teardown(t)
      PROVE CallInv'
  <2>1. CASE Enter(t)
    BY <2>1, CallersAssumption
    DEF IInv, TypeOK, LockInv, CallInv, InCall, Published, Enter
  <2>2. CASE BeginFork(t) \/ ForkLockPool(t) \/ ForkInParent(t)
    BY <2>2, CallersAssumption
    DEF IInv, TypeOK, LockInv, CallInv, InCall, Published, BeginFork, ForkLockPool, ForkInParent
  <2>3. CASE ForkInChild(t)
    BY <2>3, CallersAssumption
    DEF IInv, TypeOK, LockInv, CallInv, InCall, Published, ForkInChild
  <2>4. CASE BeginExit(t) \/ AdmitOnlyThisThread(t) \/ Teardown(t)
    BY <2>4, CallersAssumption
    DEF IInv, TypeOK, LockInv, CallInv, InCall, Published, BeginExit, AdmitOnlyThisThread, Teardown
  <2> QED
    BY <1>6, <2>1, <2>2, <2>3, <2>4
<1>7. ASSUME NEW w \in Worker,
             SeeCall(w) \/ GiveUpPolling(w) \/ Sleep(w) \/ Wake(w) \/
             SleepAgain(w) \/ LoadCall(w) \/ TakeJob(w) \/ EndJob(w) \/
             SignalDone(w)
      PROVE CallInv'
  BY <1>7, CallersAssumption
  DEF IInv, TypeOK, LockInv, CallInv, InCall, Published, SeeCall,
      GiveUpPolling, Sleep, Wake, SleepAgain, LoadCall, TakeJob, EndJob,
      SignalDone
<1>8. ASSUME NEW w \in Worker, CountDown(w) PROVE CallInv'
  <2>1. \E t \in Callers : pc[t] \in Published
    BY <1>8, ActiveUnserved DEF CountDown, Active
  <2>2. \A u \in Callers : pc[u] # "publish"
    BY <2>1, OneInCall DEF IInv, InCall, Published
  <2> QED
    BY <1>8, <2>2 DEF IInv, CallInv, CountDown
<1>9. ASSUME SpuriousWake PROVE CallInv'
  BY <1>9, CallersAssumption
  DEF IInv, TypeOK, LockInv, CallInv, InCall, Published, SpuriousWake
<1> QED
  BY <1>1, <1>2, <1>3, <1>4, <1>5, <1>6, <1>7, <1>8, <1>9 DEF Next,
      CallerStep, WorkerStep, ForkStep

\* Once exit has begun only the exiting thread is in a call.
LEMMA ExitKept == ASSUME IInv, Next PROVE ExitInv'
<1> USE DEF Goto, Step, processVars, poolVars, exitVars
<1>1. ASSUME NEW t \in Callers,
             Park(t) \/ Admit(t) \/ RunInline(t) \/ LeaveInline(t) \/
             LockPool(t) \/ Spawn(t) \/ Prepare(t) \/ Publish(t) \/
             NotifySleepers(t) \/ StartJob0(t) \/ EndJob0(t) \/ StopPolling(t)
             \/ SleepOnDone(t) \/ Return(t)
      PROVE ExitInv'
  BY <1>1, CallersAssumption
  DEF IInv, TypeOK, LockInv, ExitInv, Serving, InCall, Published, Park, Admit,
      RunInline, LeaveInline, LockPool, Spawn, Prepare, Publish,
      NotifySleepers, StartJob0, EndJob0, StopPolling, SleepOnDone, Return
<1>2. ASSUME NEW t \in Callers, Enter(t) PROVE ExitInv'
  BY <1>2, CallersAssumption
  DEF IInv, TypeOK, LockInv, ExitInv, Serving, InCall, Published, Enter
<1>3. ASSUME NEW t \in Callers,
             BeginFork(t) \/ ForkLockPool(t) \/ ForkInParent(t)
      PROVE ExitInv'
  BY <1>3, CallersAssumption
  DEF IInv, TypeOK, LockInv, ExitInv, Serving, InCall, Published, BeginFork,
      ForkLockPool, ForkInParent
<1>4. ASSUME NEW t \in Callers, ForkInChild(t) PROVE ExitInv'
  BY <1>4, CallersAssumption
  DEF IInv, TypeOK, LockInv, ExitInv, Serving, InCall, Published, ForkInChild
<1>5. ASSUME NEW t \in Callers, BeginExit(t) PROVE ExitInv'
  BY <1>5, CallersAssumption
  DEF IInv, TypeOK, LockInv, ExitInv, Serving, InCall, Published, BeginExit
<1>6. ASSUME NEW t \in Callers, Teardown(t) PROVE ExitInv'
  BY <1>6, CallersAssumption
  DEF IInv, TypeOK, LockInv, ExitInv, Serving, InCall, Published, Teardown
<1>7. ASSUME NEW t \in Callers, AdmitOnlyThisThread(t) PROVE ExitInv'
  <2>1. \A u \in Callers : pc'[u] \notin InCall /\ pc'[u] # "exitLock"
    BY <1>7, CallersAssumption
    DEF IInv, LockInv, ExitInv, AdmitOnlyThisThread, InCall, Published, TypeOK
  <2>2. exiter' = t /\ exiting' /\ exitCalled' /\ t # Nobody /\ ~torn'
    BY <1>7, CallersAssumption DEF AdmitOnlyThisThread, IInv, ExitInv
  <2> QED
    BY <2>1, <2>2 DEF ExitInv, Serving
<1>8. ASSUME NEW w \in Worker,
             SeeCall(w) \/ GiveUpPolling(w) \/ Sleep(w) \/ Wake(w) \/
             SleepAgain(w) \/ LoadCall(w) \/ TakeJob(w) \/ EndJob(w) \/
             CountDown(w) \/ SignalDone(w)
      PROVE ExitInv'
  BY <1>8, CallersAssumption
  DEF IInv, TypeOK, LockInv, ExitInv, Serving, InCall, Published, SeeCall,
      GiveUpPolling, Sleep, Wake, SleepAgain, LoadCall, TakeJob, EndJob,
      CountDown, SignalDone
<1>9. ASSUME SpuriousWake PROVE ExitInv'
  BY <1>9, CallersAssumption
  DEF IInv, TypeOK, LockInv, ExitInv, Serving, InCall, Published, SpuriousWake
<1> QED
  BY <1>1, <1>2, <1>3, <1>4, <1>5, <1>6, <1>7, <1>8, <1>9 DEF Next,
      CallerStep, WorkerStep, ForkStep

-----------------------------------------------------------------------------
(* The call word and the workers.                                          *)

\* A new worker starts at the current word, with nothing to run.
LEMMA SpawnWorkers == ASSUME IInv, NEW t \in Callers, Spawn(t) PROVE WorkerInv'
<1>1. size + 1 \in Worker /\ wpc[size + 1] = "none"
  BY BoundsAssumption DEF IInv, TypeOK, WorkerInv, Spawn, Worker
<1>2. ASSUME NEW w \in Worker
      PROVE wpc'[w] = (IF w = size + 1 THEN "poll" ELSE wpc[w]) /\ seen'[w] = IF w = size + 1 THEN call ELSE seen[w]
  BY DEF IInv, TypeOK, Spawn
<1>3. UNCHANGED <<call, ptr>> /\ size' = size + 1 /\ size \in Nat /\ call.seq \in Nat
  BY DEF IInv, TypeOK, Spawn, CallWord
<1> QED
  BY <1>1, <1>2, <1>3, SMTT(30) DEF IInv, WorkerInv, Active, Moved, Worker

\* No worker is at work when a word is published, and the word is new to all.
LEMMA PublishWorkers == ASSUME IInv, NEW t \in Callers, Publish(t) PROVE WorkerInv'
<1>1. \A w \in Worker : ~Active(w)
  BY NoneActive DEF Publish, Goto, InCall, Published
<1>2. UNCHANGED <<wpc, seen, size, ptr>>
  BY DEF Publish
<1>3. call.seq \in Nat /\ call'.seq = call.seq + 1 /\ \A w \in Worker : seen[w].seq \in Nat
  BY DEF Publish, IInv, TypeOK, CallWord
<1>4. ASSUME NEW w \in Worker PROVE seen[w].seq < call'.seq /\ seen[w] # call'
  BY <1>3 DEF IInv, WorkerInv
<1> QED
  BY <1>1, <1>2, <1>3, <1>4 DEF IInv, WorkerInv, Active, Moved

\* Loading the word makes a worker of the call active, any other idle.
LEMMA LoadCallWorkers == ASSUME IInv, NEW w \in Worker, LoadCall(w) PROVE WorkerInv'
<1>1. UNCHANGED <<call, size, ptr>> /\ call.seq \in Nat
  BY DEF LoadCall, IInv, TypeOK, CallWord
<1>2. ASSUME NEW v \in Worker, v # w PROVE wpc'[v] = wpc[v] /\ seen'[v] = seen[v]
  BY <1>2 DEF IInv, TypeOK, LoadCall
<1>3. seen'[w] = call /\ wpc'[w] = (IF w < call.jobs THEN "take" ELSE "poll") /\ wpc[w] = "load"
  BY DEF IInv, TypeOK, LoadCall
<1> QED
  BY <1>1, <1>2, <1>3 DEF IInv, WorkerInv, Active, Moved

\* The pointer a worker takes is the one of the published call.
LEMMA TakeJobWorkers == ASSUME IInv, NEW w \in Worker, TakeJob(w) PROVE WorkerInv'
<1>1. UNCHANGED <<call, size, seen>> /\ jobs = call.seq
  BY ActiveUnserved DEF TakeJob, IInv, CallInv, Active, Step
<1>2. ASSUME NEW v \in Worker, v # w PROVE wpc'[v] = wpc[v] /\ ptr'[v] = ptr[v]
  BY <1>2 DEF IInv, TypeOK, TakeJob, Step
<1>3. wpc'[w] = "run" /\ ptr'[w] = call.seq /\ wpc[w] = "take"
  BY <1>1 DEF IInv, TypeOK, TakeJob, Step
<1> QED
  BY <1>1, <1>2, <1>3 DEF IInv, WorkerInv, Active, Moved

\* A worker only works on the published call and never on one it has served.
LEMMA WorkersKept == ASSUME IInv, Next PROVE WorkerInv'
<1> USE DEF Goto, Step, processVars, poolVars, exitVars
<1>1. ASSUME NEW t \in Callers,
             Enter(t) \/ Park(t) \/ Admit(t) \/ RunInline(t) \/ LeaveInline(t)
             \/ StartJob0(t) \/ EndJob0(t) \/ StopPolling(t) \/ SleepOnDone(t)
             \/ Return(t) \/ BeginFork(t) \/ BeginExit(t) \/
             AdmitOnlyThisThread(t) \/ Teardown(t) \/ LockPool(t) \/
             ForkLockPool(t) \/ ForkInParent(t) \/ NotifySleepers(t)
      PROVE WorkerInv'
  BY <1>1
  DEF IInv, TypeOK, WorkerInv, Active, Moved, Enter, Park, Admit, RunInline,
      LeaveInline, StartJob0, EndJob0, StopPolling, SleepOnDone, Return,
      BeginFork, BeginExit, AdmitOnlyThisThread, Teardown, LockPool,
      ForkLockPool, ForkInParent, NotifySleepers
<1>2. ASSUME NEW t \in Callers, Prepare(t) PROVE WorkerInv'
  BY <1>2
  DEF IInv, TypeOK, WorkerInv, Active, Moved, Prepare
<1>3. ASSUME NEW t \in Callers, Spawn(t) PROVE WorkerInv'
  BY <1>3, SpawnWorkers
<1>4. ASSUME NEW t \in Callers, Publish(t) PROVE WorkerInv'
  BY <1>4, PublishWorkers
<1>5. ASSUME NEW t \in Callers, ForkInChild(t) PROVE WorkerInv'
  BY <1>5, BoundsAssumption
  DEF IInv, TypeOK, WorkerInv, Active, Moved, AllWorkers, NoCall, Worker,
      ForkInChild
<1>6. ASSUME NEW w \in Worker,
             SeeCall(w) \/ GiveUpPolling(w) \/ Sleep(w) \/ Wake(w) \/
             SleepAgain(w) \/ EndJob(w) \/ CountDown(w) \/ SignalDone(w)
      PROVE WorkerInv'
  BY <1>6
  DEF IInv, TypeOK, WorkerInv, Active, Moved, SeeCall, GiveUpPolling, Sleep,
      Wake, SleepAgain, EndJob, CountDown, SignalDone
<1>7. ASSUME NEW w \in Worker, LoadCall(w) PROVE WorkerInv'
  BY <1>7, LoadCallWorkers
<1>8. ASSUME NEW w \in Worker, TakeJob(w) PROVE WorkerInv'
  BY <1>8, TakeJobWorkers
<1>9. ASSUME SpuriousWake PROVE WorkerInv'
  BY <1>9
  DEF IInv, TypeOK, WorkerInv, Active, Moved, SpuriousWake
<1> QED
  BY <1>1, <1>2, <1>3, <1>4, <1>5, <1>6, <1>7, <1>8, <1>9 DEF Next,
      CallerStep, WorkerStep, ForkStep

\* remaining_ keeps counting the unserved workers.
LEMMA CountKept == ASSUME IInv, Next PROVE CountInv'
<1> USE DEF Goto, Step, processVars, poolVars, exitVars
<1>1. ASSUME NEW t \in Callers,
             Enter(t) \/ Park(t) \/ Admit(t) \/ RunInline(t) \/ LeaveInline(t)
             \/ LockPool(t) \/ StartJob0(t) \/ EndJob0(t)
      PROVE CountInv'
  <2>1. Unserved' = Unserved
    BY <1>1 DEF IInv, TypeOK, WorkerInv, Unserved, Active, Moved, Enter, Park, Admit, RunInline, LeaveInline, LockPool, StartJob0, EndJob0
  <2> QED
    BY <1>1, <2>1 DEF IInv, TypeOK, CountInv, Published, Enter, Park, Admit, RunInline, LeaveInline, LockPool, StartJob0, EndJob0
<1>2. ASSUME NEW t \in Callers,
             StopPolling(t) \/ SleepOnDone(t) \/ BeginFork(t) \/
             ForkLockPool(t) \/ ForkInParent(t) \/ BeginExit(t) \/
             AdmitOnlyThisThread(t) \/ Teardown(t)
      PROVE CountInv'
  <2>1. Unserved' = Unserved
    BY <1>2 DEF IInv, TypeOK, WorkerInv, Unserved, Active, Moved, StopPolling, SleepOnDone, BeginFork, ForkLockPool, ForkInParent, BeginExit, AdmitOnlyThisThread, Teardown
  <2> QED
    BY <1>2, <2>1 DEF IInv, TypeOK, CountInv, Published, StopPolling, SleepOnDone, BeginFork, ForkLockPool, ForkInParent, BeginExit, AdmitOnlyThisThread, Teardown
<1>3. ASSUME NEW t \in Callers, NotifySleepers(t) PROVE CountInv'
  <2>1. Unserved' = Unserved
    BY <1>3 DEF IInv, TypeOK, WorkerInv, Unserved, Active, Moved, NotifySleepers
  <2> QED
    BY <1>3, <2>1 DEF IInv, TypeOK, CountInv, Published, NotifySleepers
<1>4. ASSUME NEW t \in Callers, Return(t) PROVE CountInv'
  <2>1. Unserved' = Unserved
    BY <1>4 DEF Unserved, Active, Return
  <2>2. pc[t] \in InCall /\ pc[t] # "publish"
    BY <1>4 DEF Return, InCall, Published
  <2>3. remaining = Cardinality(Unserved)
    BY <2>2, OneInCall DEF IInv, CountInv, InCall
  <2>4. Unserved = {}
    BY <1>4, <2>3, WorkersFinite, FS_EmptySet DEF Return
  <2> QED
    BY <1>4, <2>1, <2>3, <2>4 DEF CountInv, Return
<1>5. ASSUME NEW t \in Callers, Spawn(t) PROVE CountInv'
  <2>1. Unserved' = Unserved /\ UNCHANGED <<pc, remaining>>
    BY <1>5, SpawnUnserved DEF Spawn
  <2> QED
    BY <2>1 DEF IInv, CountInv
<1>6. ASSUME NEW t \in Callers, Prepare(t) PROVE CountInv'
  <2>1. Unserved' = Unserved
    BY <1>6 DEF Unserved, Active, Prepare
  <2>2. pc'[t] = "publish"
    BY <1>6 DEF Prepare, IInv, TypeOK
  <2>3. \A u \in Callers : pc[u] \notin Published
    BY <1>6, OneInCall DEF IInv, Prepare, InCall, Published
  <2> QED
    BY <2>1, <2>2, <2>3 DEF IInv, CountInv
<1>7. ASSUME NEW t \in Callers, Publish(t) PROVE CountInv'
  <2>1. pc'[t] = "notify" /\ UNCHANGED remaining
    BY <1>7 DEF Publish, IInv, TypeOK
  <2> QED
    BY <1>7, <2>1, PublishUnserved DEF CountInv, Published
<1>8. ASSUME NEW t \in Callers, ForkInChild(t) PROVE CountInv'
  <2>1. Unserved' = {}
    BY <1>8 DEF ForkInChild, Unserved, AllWorkers, NoCall, Worker
  <2> QED
    BY <1>8, <2>1, FS_EmptySet DEF ForkInChild, CountInv
<1>9. ASSUME NEW w \in Worker,
             SeeCall(w) \/ GiveUpPolling(w) \/ Sleep(w) \/ Wake(w) \/
             SleepAgain(w) \/ LoadCall(w) \/ TakeJob(w) \/ EndJob(w)
      PROVE CountInv'
  <2>1. Unserved' = Unserved
    BY <1>9 DEF IInv, TypeOK, WorkerInv, Unserved, Active, Moved, SeeCall, GiveUpPolling, Sleep, Wake, SleepAgain, LoadCall, TakeJob, EndJob
  <2> QED
    BY <1>9, <2>1 DEF IInv, TypeOK, CountInv, Published, SeeCall, GiveUpPolling, Sleep, Wake, SleepAgain, LoadCall, TakeJob, EndJob
<1>10. ASSUME NEW w \in Worker, SignalDone(w) PROVE CountInv'
  <2>1. Unserved' = Unserved /\ UNCHANGED remaining
    BY <1>10 DEF IInv, TypeOK, Unserved, Active, SignalDone
  <2>2. \A t \in Callers : /\ pc[t] # "publish" <=> pc'[t] # "publish"
                           /\ pc[t] \notin Published <=> pc'[t] \notin Published
    BY <1>10 DEF SignalDone, Published, IInv, TypeOK
  <2> QED
    BY <2>1, <2>2 DEF IInv, CountInv
<1>11. ASSUME NEW w \in Worker, CountDown(w) PROVE CountInv'
  <2>1. UNCHANGED pc /\ remaining' = remaining - 1
    BY <1>11 DEF CountDown
  <2>2. \E t \in Callers : pc[t] \in Published
    BY <1>11, ActiveUnserved DEF CountDown, Active
  <2> QED
    BY <1>11, <2>1, <2>2, CountDownUnserved DEF CountInv
<1>12. ASSUME SpuriousWake PROVE CountInv'
  <2>1. Unserved' = Unserved /\ UNCHANGED remaining
    BY <1>12 DEF IInv, TypeOK, Unserved, Active, SpuriousWake
  <2>2. \A t \in Callers : /\ pc[t] # "publish" <=> pc'[t] # "publish"
                           /\ pc[t] \notin Published <=> pc'[t] \notin Published
    BY <1>12 DEF SpuriousWake, Published, IInv, TypeOK
  <2> QED
    BY <2>1, <2>2 DEF IInv, CountInv
<1> QED
  BY <1>1, <1>2, <1>3, <1>4, <1>5, <1>6, <1>7, <1>8, <1>9, <1>10, <1>11, <1>12
      DEF Next, CallerStep, WorkerStep, ForkStep

\* sleeping_ keeps counting the workers asleep on wake_.
LEMMA SleepersKept == ASSUME IInv, Next PROVE SleepInv'
<1> USE DEF Goto, Step, processVars, poolVars, exitVars
<1>1. ASSUME NEW t \in Callers,
             Enter(t) \/ Park(t) \/ Admit(t) \/ RunInline(t) \/ LeaveInline(t)
             \/ StartJob0(t) \/ EndJob0(t) \/ StopPolling(t) \/ LockPool(t) \/
             Prepare(t) \/ Publish(t) \/ ForkLockPool(t)
      PROVE SleepInv'
  BY <1>1
  DEF IInv, TypeOK, SleepInv, Asleep, Enter, Park, Admit, RunInline,
      LeaveInline, StartJob0, EndJob0, StopPolling, LockPool, Prepare,
      Publish, ForkLockPool
<1>2. ASSUME NEW t \in Callers,
             SleepOnDone(t) \/ Return(t) \/ BeginFork(t) \/ BeginExit(t) \/
             AdmitOnlyThisThread(t) \/ Teardown(t) \/ ForkInParent(t)
      PROVE SleepInv'
  BY <1>2
  DEF IInv, TypeOK, SleepInv, Asleep, SleepOnDone, Return, BeginFork,
      BeginExit, AdmitOnlyThisThread, Teardown, ForkInParent
<1>3. ASSUME NEW t \in Callers, NotifySleepers(t) PROVE SleepInv'
  BY <1>3
  DEF IInv, TypeOK, SleepInv, Asleep, NotifySleepers
<1>4. ASSUME NEW t \in Callers, Spawn(t) PROVE SleepInv'
  <2>1. wpc[size + 1] = "none" /\ size + 1 \in Worker
    BY <1>4, BoundsAssumption DEF IInv, TypeOK, WorkerInv, Spawn, Worker
  <2>2. Asleep' = Asleep
    BY <1>4, <2>1 DEF IInv, TypeOK, Asleep, Spawn
  <2> QED
    BY <1>4, <2>2 DEF IInv, SleepInv, Spawn
<1>5. ASSUME NEW t \in Callers, ForkInChild(t) PROVE SleepInv'
  <2>1. Asleep' = {}
    BY <1>5 DEF ForkInChild, Asleep, AllWorkers
  <2> QED
    BY <1>5, <2>1, FS_EmptySet DEF ForkInChild, SleepInv
<1>6. ASSUME NEW w \in Worker, Sleep(w) PROVE SleepInv'
  BY <1>6, SleepAsleep DEF IInv, SleepInv, Sleep
<1>7. ASSUME NEW w \in Worker, Wake(w) PROVE SleepInv'
  BY <1>7, WakeAsleep DEF IInv, SleepInv, Wake
<1>8. ASSUME NEW w \in Worker,
             SeeCall(w) \/ GiveUpPolling(w) \/ SleepAgain(w) \/ LoadCall(w) \/
             TakeJob(w) \/ EndJob(w) \/ CountDown(w) \/ SignalDone(w)
      PROVE SleepInv'
  BY <1>8
  DEF IInv, TypeOK, SleepInv, Asleep, SeeCall, GiveUpPolling, SleepAgain,
      LoadCall, TakeJob, EndJob, CountDown, SignalDone
<1>9. ASSUME SpuriousWake PROVE SleepInv'
  BY <1>9
  DEF IInv, TypeOK, SleepInv, Asleep, SpuriousWake
<1> QED
  BY <1>1, <1>2, <1>3, <1>4, <1>5, <1>6, <1>7, <1>8, <1>9 DEF Next,
      CallerStep, WorkerStep, ForkStep

\* No job of a call has run when its word is published.
LEMMA PublishRan == ASSUME IInv, NEW t \in Callers, Publish(t) PROVE RanInv'
<1>1. \A w \in Worker : seen[w].seq < call'.seq
  BY DEF Publish, IInv, TypeOK, WorkerInv, CallWord
<1>2. \A w \in Worker : ~JobOver(w)'
  BY <1>1 DEF JobOver, Publish, IInv, TypeOK, CallWord
<1>3. pc[t] = "publish" /\ pc'[t] = "notify" /\ (\A u \in Callers : u # t => pc'[u] = pc[u] /\ pc[u] \notin InCall)
  BY OneInCall DEF Publish, Goto, InCall, IInv, TypeOK
<1>4. \A i \in 0 .. MaxJobs - 1 : ran'[i] = 0
  BY <1>3 DEF Publish, RanInv, IInv
<1>5. 0 \in 0 .. MaxJobs - 1 /\ Worker \subseteq 0 .. MaxJobs - 1
  BY BoundsAssumption DEF Worker
<1> QED
  BY <1>2, <1>3, <1>4, <1>5 DEF RanInv, InCall, Published

\* A worker loads a word it has not seen, so its job is not over.
LEMMA LoadCallRan == ASSUME IInv, NEW w \in Worker, LoadCall(w) PROVE RanInv'
<1>1. UNCHANGED <<call, pc, ran>> 
  BY DEF LoadCall, IInv, TypeOK, CallWord
<1>2. ASSUME NEW v \in Worker, v < call.jobs PROVE JobOver(v)' <=> JobOver(v)
  BY <1>1, <1>2 DEF IInv, TypeOK, LoadCall, JobOver, WorkerInv, Moved
<1> QED
  BY <1>1, <1>2 DEF IInv, RanInv

\* Taking a job does not run it.
LEMMA TakeJobRan == ASSUME IInv, NEW w \in Worker, TakeJob(w) PROVE RanInv'
<1>1. UNCHANGED <<call, pc, ran>> 
  BY DEF TakeJob, IInv, TypeOK, CallWord
<1>2. ASSUME NEW v \in Worker PROVE JobOver(v)' <=> JobOver(v)
  BY <1>1, <1>2 DEF IInv, TypeOK, TakeJob, JobOver, Step
<1> QED
  BY <1>1, <1>2 DEF IInv, RanInv

\* Ending job w runs it for the first time.
LEMMA EndJobRan == ASSUME IInv, NEW w \in Worker, EndJob(w) PROVE RanInv'
<1>1. UNCHANGED <<call, pc, seen>> /\ seen[w] = call /\ w < call.jobs /\ ~JobOver(w) /\ w # 0
  BY DEF EndJob, IInv, WorkerInv, Step, JobOver, Active, Worker
<1>2. ASSUME NEW v \in Worker, v # w PROVE JobOver(v)' <=> JobOver(v)
  BY <1>1, <1>2 DEF IInv, TypeOK, EndJob, JobOver, Step
<1>3. JobOver(w)'
  BY <1>1 DEF IInv, TypeOK, EndJob, JobOver, Step
<1>4. w \in 0 .. MaxJobs - 1 /\ Worker \subseteq 0 .. MaxJobs - 1
  BY BoundsAssumption DEF Worker
<1>5. ran'[w] = ran[w] + 1 /\ \A i \in 0 .. MaxJobs - 1 : i # w => ran'[i] = ran[i]
  BY <1>4 DEF IInv, TypeOK, EndJob
<1>6. \E t \in Callers : pc[t] \in Published
  BY ActiveUnserved DEF EndJob, Step, Active
<1>7. 0 \in 0 .. MaxJobs - 1
  BY BoundsAssumption
<1>8. ASSUME NEW t \in Callers PROVE pc[t] \notin {"inline", "pool", "grow", "publish", "leave"}
  BY <1>6, OneInCall DEF IInv, InCall, Published
<1> QED
  BY <1>1, <1>2, <1>3, <1>4, <1>5, <1>7, <1>8 DEF IInv, RanInv

\* A notification runs no job.
LEMMA SignalDoneRan == ASSUME IInv, NEW w \in Worker, SignalDone(w) PROVE RanInv'
<1>1. UNCHANGED <<call, seen, ran>> 
  BY DEF SignalDone
<1>2. ASSUME NEW v \in Worker PROVE JobOver(v)' <=> JobOver(v)
  BY <1>1, <1>2 DEF IInv, TypeOK, SignalDone, JobOver, Step
<1>3. ASSUME NEW t \in Callers PROVE pc'[t] = pc[t] \/ (pc[t] = "doneWait" /\ pc'[t] = "doneWoken")
  BY DEF IInv, TypeOK, SignalDone, Goto
<1> QED
  BY <1>1, <1>2, <1>3 DEF IInv, RanInv, Published

\* Every job of the call in progress ran once or not at all, as its worker shows.
LEMMA RanKept == ASSUME IInv, Next PROVE RanInv'
<1> USE DEF Goto, Step, processVars, poolVars, exitVars
<1>1. ASSUME NEW t \in Callers, Enter(t) PROVE RanInv'
  BY <1>1
  DEF IInv, TypeOK, RanInv, JobOver, Published, Enter
<1>2. ASSUME NEW t \in Callers, Park(t) PROVE RanInv'
  BY <1>2
  DEF IInv, TypeOK, RanInv, JobOver, Published, Park
<1>3. ASSUME NEW t \in Callers, LeaveInline(t) PROVE RanInv'
  BY <1>3
  DEF IInv, TypeOK, RanInv, JobOver, Published, LeaveInline
<1>4. ASSUME NEW t \in Callers, LockPool(t) PROVE RanInv'
  BY <1>4
  DEF IInv, TypeOK, RanInv, JobOver, Published, LockPool
<1>5. ASSUME NEW t \in Callers, Admit(t) PROVE RanInv'
  BY <1>5, BoundsAssumption
  DEF IInv, TypeOK, RanInv, JobOver, LockInv, Published, InCall, Admit
<1>6. ASSUME NEW t \in Callers, RunInline(t) PROVE RanInv'
  BY <1>6, BoundsAssumption
  DEF IInv, TypeOK, RanInv, JobOver, LockInv, Published, InCall, RunInline
<1>7. ASSUME NEW t \in Callers, StartJob0(t) PROVE RanInv'
  BY <1>7
  DEF IInv, TypeOK, RanInv, JobOver, Published, StartJob0
<1>8. ASSUME NEW t \in Callers, EndJob0(t) PROVE RanInv'
  BY <1>8, BoundsAssumption
  DEF IInv, TypeOK, RanInv, JobOver, LockInv, Published, InCall, Worker,
      EndJob0
<1>9. ASSUME NEW t \in Callers, StopPolling(t) PROVE RanInv'
  BY <1>9
  DEF IInv, TypeOK, RanInv, JobOver, Published, StopPolling
<1>10. ASSUME NEW t \in Callers, SleepOnDone(t) PROVE RanInv'
  BY <1>10
  DEF IInv, TypeOK, RanInv, JobOver, Published, SleepOnDone
<1>11. ASSUME NEW t \in Callers, Return(t) PROVE RanInv'
  BY <1>11
  DEF IInv, TypeOK, RanInv, JobOver, Published, Return
<1>12. ASSUME NEW t \in Callers, Spawn(t) PROVE RanInv'
  BY <1>12, BoundsAssumption
  DEF IInv, TypeOK, WorkerInv, CallInv, RanInv, JobOver, Active, Moved,
      LockInv, Published, InCall, Worker, Spawn
<1>13. ASSUME NEW t \in Callers, Prepare(t) PROVE RanInv'
  BY <1>13, BoundsAssumption
  DEF IInv, TypeOK, WorkerInv, CallInv, RanInv, JobOver, Active, Moved,
      LockInv, Published, InCall, Worker, Prepare
<1>14. ASSUME NEW t \in Callers, Publish(t) PROVE RanInv'
  BY <1>14, PublishRan
<1>15. ASSUME NEW t \in Callers, NotifySleepers(t) PROVE RanInv'
  BY <1>15, BoundsAssumption
  DEF IInv, TypeOK, WorkerInv, CallInv, RanInv, JobOver, Active, Moved,
      LockInv, Published, InCall, Worker, NotifySleepers
<1>16. ASSUME NEW t \in Callers, BeginFork(t) PROVE RanInv'
  BY <1>16
  DEF IInv, TypeOK, RanInv, JobOver, Published, BeginFork
<1>17. ASSUME NEW t \in Callers, ForkLockPool(t) PROVE RanInv'
  BY <1>17
  DEF IInv, TypeOK, RanInv, JobOver, Published, ForkLockPool
<1>18. ASSUME NEW t \in Callers, ForkInParent(t) PROVE RanInv'
  BY <1>18
  DEF IInv, TypeOK, RanInv, JobOver, Published, ForkInParent
<1>19. ASSUME NEW t \in Callers, ForkInChild(t) PROVE RanInv'
  BY <1>19
  DEF IInv, TypeOK, RanInv, JobOver, LockInv, Published, InCall, ForkInChild
<1>20. ASSUME NEW t \in Callers,
             BeginExit(t) \/ AdmitOnlyThisThread(t) \/ Teardown(t)
      PROVE RanInv'
  BY <1>20
  DEF IInv, TypeOK, RanInv, JobOver, Published, BeginExit,
      AdmitOnlyThisThread, Teardown
<1>21. ASSUME NEW w \in Worker,
             SeeCall(w) \/ GiveUpPolling(w) \/ Sleep(w) \/ Wake(w) \/
             SleepAgain(w) \/ CountDown(w)
      PROVE RanInv'
  BY <1>21
  DEF IInv, TypeOK, RanInv, JobOver, SeeCall, GiveUpPolling, Sleep, Wake,
      SleepAgain, CountDown
<1>22. ASSUME NEW w \in Worker, LoadCall(w) PROVE RanInv'
  BY <1>22, LoadCallRan
<1>23. ASSUME NEW w \in Worker, TakeJob(w) PROVE RanInv'
  BY <1>23, TakeJobRan
<1>24. ASSUME NEW w \in Worker, EndJob(w) PROVE RanInv'
  BY <1>24, EndJobRan
<1>25. ASSUME NEW w \in Worker, SignalDone(w) PROVE RanInv'
  BY <1>25, SignalDoneRan
<1>26. ASSUME SpuriousWake PROVE RanInv'
  <2>1. UNCHANGED <<ran, call, seen>>
    BY <1>26 DEF SpuriousWake
  <2>2. \A w \in Worker : JobOver(w)' <=> JobOver(w)
    <3>1. CASE \E w \in Worker : Step(w, "wait", "woken") /\ UNCHANGED pc
      BY <2>1, <3>1 DEF IInv, TypeOK, JobOver
    <3>2. CASE UNCHANGED wpc
      BY <2>1, <3>2 DEF JobOver
    <3> QED
      BY <1>26, <3>1, <3>2 DEF SpuriousWake
  <2>3. \A t \in Callers : \/ pc'[t] = pc[t]
                           \/ pc[t] = "doneWait" /\ pc'[t] = "doneWoken"
    <3>1. CASE \E t \in Callers : Goto(t, "doneWait", "doneWoken")
      BY <3>1 DEF IInv, TypeOK
    <3>2. CASE UNCHANGED pc
      BY <3>2
    <3> QED
      BY <1>26, <3>1, <3>2 DEF SpuriousWake
  <2> QED
    BY <2>1, <2>2, <2>3 DEF IInv, RanInv, Published
<1> QED
  BY <1>1, <1>2, <1>3, <1>4, <1>5, <1>6, <1>7, <1>8, <1>9, <1>10, <1>11,
      <1>12, <1>13, <1>14, <1>15, <1>16, <1>17, <1>18, <1>19, <1>20, <1>21,
      <1>22, <1>23, <1>24, <1>25, <1>26 DEF Next, CallerStep, WorkerStep,
      ForkStep

\* No worker sleeps through a call.
LEMMA NoMissedCallKept == ASSUME IInv, Next PROVE NoMissedCall'
<1> USE DEF Goto, Step, processVars, poolVars, exitVars
<1>1. ASSUME NEW t \in Callers,
             Park(t) \/ Admit(t) \/ RunInline(t) \/ LeaveInline(t) \/
             LockPool(t) \/ Prepare(t)
      PROVE NoMissedCall'
  BY <1>1
  DEF IInv, TypeOK, NoMissedCall, LockInv, Moved, InCall, Published, Park,
      Admit, RunInline, LeaveInline, LockPool, Prepare
<1>2. ASSUME NEW t \in Callers,
             NotifySleepers(t) \/ StartJob0(t) \/ EndJob0(t) \/ StopPolling(t)
             \/ SleepOnDone(t) \/ Return(t)
      PROVE NoMissedCall'
  BY <1>2
  DEF IInv, TypeOK, NoMissedCall, LockInv, Moved, InCall, Published,
      NotifySleepers, StartJob0, EndJob0, StopPolling, SleepOnDone, Return
<1>3. ASSUME NEW t \in Callers, Spawn(t) PROVE NoMissedCall'
  BY <1>3, BoundsAssumption
  DEF IInv, TypeOK, NoMissedCall, LockInv, Moved, InCall, Published,
      WorkerInv, Worker, Spawn
<1>4. ASSUME NEW t \in Callers, Publish(t) PROVE NoMissedCall'
  <2>1. ASSUME NEW w \in Worker, wpc'[w] = "wait" PROVE sleepers'[t]
    <3>1. w \in Asleep
      BY <1>4, <2>1 DEF Publish, Asleep
    <3>2. sleeping > 0
      BY <3>1, FS_EmptySet, WorkersFinite DEF IInv, SleepInv, TypeOK
    <3> QED
      BY <1>4, <3>2 DEF Publish, IInv, TypeOK
  <2> QED
    BY <1>4, <2>1 DEF NoMissedCall, Publish, IInv, TypeOK
<1>5. ASSUME NEW t \in Callers,
             Enter(t) \/ BeginFork(t) \/ ForkLockPool(t) \/ ForkInParent(t) \/
             BeginExit(t) \/ AdmitOnlyThisThread(t) \/ Teardown(t)
      PROVE NoMissedCall'
  BY <1>5
  DEF IInv, TypeOK, NoMissedCall, LockInv, Moved, InCall, Published, Enter,
      BeginFork, ForkLockPool, ForkInParent, BeginExit, AdmitOnlyThisThread,
      Teardown
<1>6. ASSUME NEW t \in Callers, ForkInChild(t) PROVE NoMissedCall'
  BY <1>6
  DEF IInv, TypeOK, NoMissedCall, LockInv, Moved, InCall, Published,
      AllWorkers, ForkInChild
<1>7. ASSUME NEW w \in Worker,
             SeeCall(w) \/ GiveUpPolling(w) \/ Sleep(w) \/ Wake(w) \/
             SleepAgain(w) \/ LoadCall(w) \/ TakeJob(w) \/ EndJob(w) \/
             CountDown(w) \/ SignalDone(w)
      PROVE NoMissedCall'
  BY <1>7
  DEF IInv, TypeOK, NoMissedCall, LockInv, Moved, InCall, Published, SeeCall,
      GiveUpPolling, Sleep, Wake, SleepAgain, LoadCall, TakeJob, EndJob,
      CountDown, SignalDone
<1>8. ASSUME SpuriousWake PROVE NoMissedCall'
  BY <1>8
  DEF IInv, TypeOK, NoMissedCall, LockInv, Moved, InCall, Published,
      SpuriousWake
<1> QED
  BY <1>1, <1>2, <1>3, <1>4, <1>5, <1>6, <1>7, <1>8 DEF Next, CallerStep,
      WorkerStep, ForkStep

\* The caller does not sleep on done_ after the last job.
LEMMA NoMissedDoneKept == ASSUME IInv, Next PROVE NoMissedDone'
<1> USE DEF Goto, Step, processVars, poolVars, exitVars
<1>1. ASSUME NEW t \in Callers,
             Park(t) \/ Admit(t) \/ RunInline(t) \/ LeaveInline(t) \/
             LockPool(t) \/ Prepare(t) \/ Publish(t) \/ StartJob0(t) \/
             EndJob0(t) \/ StopPolling(t) \/ SleepOnDone(t) \/ Return(t)
      PROVE NoMissedDone'
  BY <1>1
  DEF IInv, TypeOK, NoMissedDone, LockInv, InCall, Published, Park, Admit,
      RunInline, LeaveInline, LockPool, Prepare, Publish, StartJob0, EndJob0,
      StopPolling, SleepOnDone, Return
<1>2. ASSUME NEW t \in Callers, NotifySleepers(t) PROVE NoMissedDone'
  BY <1>2
  DEF IInv, TypeOK, NoMissedDone, LockInv, InCall, Published, NotifySleepers
<1>3. ASSUME NEW t \in Callers, Spawn(t) PROVE NoMissedDone'
  BY <1>3
  DEF IInv, TypeOK, NoMissedDone, LockInv, InCall, Published, Spawn
<1>4. ASSUME NEW t \in Callers,
             Enter(t) \/ BeginFork(t) \/ ForkLockPool(t) \/ ForkInParent(t) \/
             ForkInChild(t) \/ BeginExit(t) \/ AdmitOnlyThisThread(t) \/
             Teardown(t)
      PROVE NoMissedDone'
  BY <1>4
  DEF IInv, TypeOK, NoMissedDone, LockInv, InCall, Published, Enter,
      BeginFork, ForkLockPool, ForkInParent, ForkInChild, BeginExit,
      AdmitOnlyThisThread, Teardown
<1>5. ASSUME NEW w \in Worker,
             SeeCall(w) \/ GiveUpPolling(w) \/ Sleep(w) \/ Wake(w) \/
             SleepAgain(w) \/ LoadCall(w) \/ TakeJob(w) \/ EndJob(w) \/
             CountDown(w)
      PROVE NoMissedDone'
  BY <1>5
  DEF IInv, TypeOK, NoMissedDone, LockInv, InCall, Published, SeeCall,
      GiveUpPolling, Sleep, Wake, SleepAgain, LoadCall, TakeJob, EndJob,
      CountDown
<1>6. ASSUME NEW w \in Worker, SignalDone(w) PROVE NoMissedDone'
  <2>1. \A t \in Callers : pc'[t] # "doneWait"
    <3>1. CASE \E t \in Callers : Goto(t, "doneWait", "doneWoken")
      BY <3>1, OneInCall DEF InCall, Published, IInv, TypeOK
    <3> QED
      BY <1>6, <3>1 DEF SignalDone
  <2> QED
    BY <2>1 DEF NoMissedDone
<1>7. ASSUME SpuriousWake PROVE NoMissedDone'
  BY <1>7
  DEF IInv, TypeOK, NoMissedDone, LockInv, InCall, Published, SpuriousWake
<1> QED
  BY <1>1, <1>2, <1>3, <1>4, <1>5, <1>6, <1>7 DEF Next, CallerStep,
      WorkerStep, ForkStep

\* Every variable keeps its type; neither counter is taken below zero.
LEMMA TypeKept == ASSUME IInv, Next PROVE TypeOK'
<1> USE DEF Goto, Step, processVars, poolVars, exitVars
<1>1. ASSUME NEW t \in Callers, Park(t) PROVE TypeOK'
  BY <1>1, CallersAssumption, BoundsAssumption
  DEF IInv, TypeOK, CallerPC, WorkerPC, InCall, Published, Worker, Park
<1>2. ASSUME NEW t \in Callers, Admit(t) PROVE TypeOK'
  BY <1>2, CallersAssumption, BoundsAssumption
  DEF IInv, TypeOK, CallerPC, WorkerPC, InCall, Published, Worker, Admit
<1>3. ASSUME NEW t \in Callers, RunInline(t) PROVE TypeOK'
  BY <1>3, CallersAssumption, BoundsAssumption
  DEF IInv, TypeOK, CallerPC, WorkerPC, InCall, Published, Worker, RunInline
<1>4. ASSUME NEW t \in Callers, LeaveInline(t) PROVE TypeOK'
  BY <1>4, CallersAssumption, BoundsAssumption
  DEF IInv, TypeOK, CallerPC, WorkerPC, InCall, Published, Worker, LeaveInline
<1>5. ASSUME NEW t \in Callers, LockPool(t) PROVE TypeOK'
  BY <1>5, CallersAssumption, BoundsAssumption
  DEF IInv, TypeOK, CallerPC, WorkerPC, InCall, Published, Worker, LockPool
<1>6. ASSUME NEW t \in Callers, Spawn(t) PROVE TypeOK'
  <2>1. size' \in 0 .. MaxJobs - 1
    BY <1>6, BoundsAssumption DEF IInv, TypeOK, Spawn
  <2>2. wpc' \in [Worker -> WorkerPC]
    BY <1>6, BoundsAssumption DEF IInv, TypeOK, Spawn, WorkerPC, Worker
  <2>3. seen' \in [Worker -> CallWord]
    BY <1>6 DEF IInv, TypeOK, Spawn
  <2> QED
    BY <1>6, <2>1, <2>2, <2>3, CallersAssumption DEF IInv, TypeOK, Spawn
<1>7. ASSUME NEW t \in Callers, Prepare(t) PROVE TypeOK'
  <2>1. pc' \in [Callers -> CallerPC]
    BY <1>7 DEF IInv, TypeOK, Prepare, CallerPC, InCall, Published
  <2>2. jobs' \in Nat
    BY <1>7 DEF IInv, TypeOK, CallWord, Prepare
  <2>3. remaining' \in Nat
    BY <1>7, BoundsAssumption DEF IInv, TypeOK, CallInv, Prepare
  <2> QED
    BY <1>7, <2>1, <2>2, <2>3, CallersAssumption DEF IInv, TypeOK, Prepare
<1>8. ASSUME NEW t \in Callers, Publish(t) PROVE TypeOK'
  <2>1. pc' \in [Callers -> CallerPC]
    BY <1>8 DEF IInv, TypeOK, Publish, CallerPC, InCall, Published
  <2>2. call' \in CallWord
    BY <1>8 DEF IInv, TypeOK, CallWord, Publish
  <2>3. sleepers' \in [Callers -> BOOLEAN]
    BY <1>8 DEF IInv, TypeOK, Publish
  <2> QED
    BY <1>8, <2>1, <2>2, <2>3, CallersAssumption DEF IInv, TypeOK, Publish
<1>9. ASSUME NEW t \in Callers, NotifySleepers(t) PROVE TypeOK'
  BY <1>9, CallersAssumption, BoundsAssumption
  DEF IInv, TypeOK, CallerPC, WorkerPC, InCall, Published, Worker,
      NotifySleepers
<1>10. ASSUME NEW t \in Callers, StartJob0(t) PROVE TypeOK'
  BY <1>10, CallersAssumption, BoundsAssumption
  DEF IInv, TypeOK, CallerPC, WorkerPC, InCall, Published, Worker, StartJob0
<1>11. ASSUME NEW t \in Callers, EndJob0(t) PROVE TypeOK'
  BY <1>11, CallersAssumption, BoundsAssumption
  DEF IInv, TypeOK, CallerPC, WorkerPC, InCall, Published, Worker, EndJob0
<1>12. ASSUME NEW t \in Callers, StopPolling(t) PROVE TypeOK'
  BY <1>12, CallersAssumption, BoundsAssumption
  DEF IInv, TypeOK, CallerPC, WorkerPC, InCall, Published, Worker, StopPolling
<1>13. ASSUME NEW t \in Callers, SleepOnDone(t) PROVE TypeOK'
  BY <1>13, CallersAssumption, BoundsAssumption
  DEF IInv, TypeOK, CallerPC, WorkerPC, InCall, Published, Worker, SleepOnDone
<1>14. ASSUME NEW t \in Callers, Return(t) PROVE TypeOK'
  BY <1>14, CallersAssumption, BoundsAssumption
  DEF IInv, TypeOK, CallerPC, WorkerPC, InCall, Published, Worker, Return
<1>15. ASSUME NEW t \in Callers, Enter(t) PROVE TypeOK'
  BY <1>15, CallersAssumption, BoundsAssumption
  DEF IInv, TypeOK, CallerPC, WorkerPC, InCall, Published, Worker, Enter
<1>16. ASSUME NEW t \in Callers, BeginFork(t) PROVE TypeOK'
  BY <1>16, CallersAssumption, BoundsAssumption
  DEF IInv, TypeOK, CallerPC, WorkerPC, InCall, Published, Worker, BeginFork
<1>17. ASSUME NEW t \in Callers, ForkLockPool(t) PROVE TypeOK'
  BY <1>17, CallersAssumption, BoundsAssumption
  DEF IInv, TypeOK, CallerPC, WorkerPC, InCall, Published, Worker,
      ForkLockPool
<1>18. ASSUME NEW t \in Callers, ForkInParent(t) PROVE TypeOK'
  BY <1>18, CallersAssumption, BoundsAssumption
  DEF IInv, TypeOK, CallerPC, WorkerPC, InCall, Published, Worker,
      ForkInParent
<1>19. ASSUME NEW t \in Callers, ForkInChild(t) PROVE TypeOK'
  <2>1. pc' \in [Callers -> CallerPC]
    BY <1>19 DEF ForkInChild, CallerPC, InCall, Published
  <2>2. wpc' \in [Worker -> WorkerPC]
    BY <1>19 DEF ForkInChild, AllWorkers, WorkerPC
  <2>3. seen' \in [Worker -> CallWord]
    BY <1>19, BoundsAssumption DEF ForkInChild, AllWorkers, NoCall, CallWord
  <2>4. ptr' \in [Worker -> Nat]
    BY <1>19 DEF ForkInChild, AllWorkers
  <2>5. size' \in 0 .. MaxJobs - 1
    BY <1>19, BoundsAssumption DEF ForkInChild
  <2>6. call' \in CallWord
    BY <1>19, BoundsAssumption DEF ForkInChild, NoCall, CallWord
  <2> QED
    BY <1>19, <2>1, <2>2, <2>3, <2>4, <2>5, <2>6, CallersAssumption, BoundsAssumption DEF IInv, TypeOK, ForkInChild
<1>20. ASSUME NEW t \in Callers, BeginExit(t) PROVE TypeOK'
  BY <1>20, CallersAssumption, BoundsAssumption
  DEF IInv, TypeOK, CallerPC, WorkerPC, InCall, Published, Worker, BeginExit
<1>21. ASSUME NEW t \in Callers, AdmitOnlyThisThread(t) PROVE TypeOK'
  BY <1>21, CallersAssumption, BoundsAssumption
  DEF IInv, TypeOK, CallerPC, WorkerPC, InCall, Published, Worker,
      AdmitOnlyThisThread
<1>22. ASSUME NEW t \in Callers, Teardown(t) PROVE TypeOK'
  BY <1>22, CallersAssumption, BoundsAssumption
  DEF IInv, TypeOK, CallerPC, WorkerPC, InCall, Published, Worker, Teardown
<1>23. ASSUME NEW w \in Worker, SeeCall(w) PROVE TypeOK'
  BY <1>23, CallersAssumption, BoundsAssumption
  DEF IInv, TypeOK, CallerPC, WorkerPC, InCall, Published, Worker, SeeCall
<1>24. ASSUME NEW w \in Worker, GiveUpPolling(w) PROVE TypeOK'
  BY <1>24, CallersAssumption, BoundsAssumption
  DEF IInv, TypeOK, CallerPC, WorkerPC, InCall, Published, Worker,
      GiveUpPolling
<1>25. ASSUME NEW w \in Worker, Sleep(w) PROVE TypeOK'
  BY <1>25, CallersAssumption, BoundsAssumption
  DEF IInv, TypeOK, CallerPC, WorkerPC, InCall, Published, Worker, Sleep
<1>26. ASSUME NEW w \in Worker, Wake(w) PROVE TypeOK'
  <2>1. wpc' \in [Worker -> WorkerPC]
    BY <1>26 DEF IInv, TypeOK, Wake, WorkerPC
  <2>2. sleeping' \in Nat
    <3>1. sleeping > 0 /\ sleeping \in Nat
      BY <1>26, WakeAsleep DEF IInv, TypeOK
    <3> QED
      BY <1>26, <3>1 DEF Wake
  <2> QED
    BY <1>26, <2>1, <2>2, CallersAssumption DEF IInv, TypeOK, Wake
<1>27. ASSUME NEW w \in Worker, SleepAgain(w) PROVE TypeOK'
  BY <1>27, CallersAssumption, BoundsAssumption
  DEF IInv, TypeOK, CallerPC, WorkerPC, InCall, Published, Worker, SleepAgain
<1>28. ASSUME NEW w \in Worker, LoadCall(w) PROVE TypeOK'
  <2>1. wpc' \in [Worker -> WorkerPC]
    BY <1>28 DEF IInv, TypeOK, LoadCall, WorkerPC
  <2>2. seen' \in [Worker -> CallWord]
    BY <1>28 DEF IInv, TypeOK, LoadCall
  <2> QED
    BY <1>28, <2>1, <2>2, CallersAssumption DEF IInv, TypeOK, LoadCall
<1>29. ASSUME NEW w \in Worker, TakeJob(w) PROVE TypeOK'
  BY <1>29, CallersAssumption, BoundsAssumption
  DEF IInv, TypeOK, CallerPC, WorkerPC, InCall, Published, Worker, TakeJob
<1>30. ASSUME NEW w \in Worker, EndJob(w) PROVE TypeOK'
  <2>1. wpc' \in [Worker -> WorkerPC]
    BY <1>30 DEF IInv, TypeOK, EndJob, WorkerPC
  <2>2. ran' \in [0 .. MaxJobs - 1 -> Nat]
    BY <1>30 DEF IInv, TypeOK, EndJob, Worker
  <2> QED
    BY <1>30, <2>1, <2>2, CallersAssumption DEF IInv, TypeOK, EndJob
<1>31. ASSUME NEW w \in Worker, CountDown(w) PROVE TypeOK'
  <2>1. wpc' \in [Worker -> WorkerPC]
    BY <1>31 DEF IInv, TypeOK, CountDown, WorkerPC
  <2>2. remaining' \in Nat
    <3>1. remaining > 0 /\ remaining \in Nat
      BY <1>31, CountDownUnserved DEF IInv, TypeOK
    <3> QED
      BY <1>31, <3>1 DEF CountDown
  <2> QED
    BY <1>31, <2>1, <2>2, CallersAssumption DEF IInv, TypeOK, CountDown
<1>32. ASSUME NEW w \in Worker, SignalDone(w) PROVE TypeOK'
  <2>1. pc' \in [Callers -> CallerPC]
    BY <1>32 DEF IInv, TypeOK, SignalDone, CallerPC, InCall, Published
  <2>2. wpc' \in [Worker -> WorkerPC]
    BY <1>32 DEF IInv, TypeOK, SignalDone, WorkerPC
  <2> QED
    BY <1>32, <2>1, <2>2, CallersAssumption DEF IInv, TypeOK, SignalDone
<1>33. ASSUME SpuriousWake PROVE TypeOK'
  BY <1>33
  DEF IInv, TypeOK, CallerPC, WorkerPC, InCall, Published, Worker,
      SpuriousWake
<1> QED
  BY <1>1, <1>2, <1>3, <1>4, <1>5, <1>6, <1>7, <1>8, <1>9, <1>10, <1>11,
      <1>12, <1>13, <1>14, <1>15, <1>16, <1>17, <1>18, <1>19, <1>20, <1>21,
      <1>22, <1>23, <1>24, <1>25, <1>26, <1>27, <1>28, <1>29, <1>30, <1>31,
      <1>32, <1>33 DEF Next, CallerStep, WorkerStep, ForkStep

-----------------------------------------------------------------------------
(* The theorems on the pool's own state.                                   *)

\* The invariant holds at the start: no worker exists and nothing is counted.
LEMMA InitInv == Init => IInv
<1> SUFFICES ASSUME Init PROVE IInv
  OBVIOUS
<1>1. TypeOK
  <2>1. /\ wpc \in [Worker -> WorkerPC] /\ seen \in [Worker -> CallWord]
        /\ ptr \in [Worker -> Nat] /\ call \in CallWord
    BY BoundsAssumption
    DEF Init, FreshPool, AllWorkers, WorkerPC, CallWord, NoCall
  <2>2. /\ pc \in [Callers -> CallerPC] /\ numjobs \in [Callers -> 0 .. MaxJobs]
        /\ sleepers \in [Callers -> BOOLEAN]
        /\ ran \in [0 .. MaxJobs - 1 -> Nat] /\ size \in 0 .. MaxJobs - 1
    BY BoundsAssumption DEF Init, FreshPool, CallerPC
  <2>3. /\ oneCall \in Callers \cup {Nobody} /\ exiter \in Callers \cup {Nobody}
        /\ mutex \in Callers \cup {Nobody}
    BY DEF Init, FreshPool
  <2>5. exiting \in BOOLEAN /\ exitCalled \in BOOLEAN /\ torn \in BOOLEAN
    BY DEF Init
  <2>4. /\ sleeping \in Nat /\ jobs \in Nat /\ remaining \in Nat
        /\ calls \in Nat /\ forks \in Nat
        /\ started \in SUBSET (0 .. MaxJobs - 1)
    BY DEF Init, FreshPool
  <2> QED
    BY <2>1, <2>2, <2>3, <2>4, <2>5 DEF TypeOK
<1>2. LockInv /\ CallInv /\ RanInv /\ ExitInv /\ NoMissedDone
  <2>1. /\ \A t \in Callers : pc[t] = "idle" /\ t # Nobody
        /\ oneCall = Nobody /\ mutex = Nobody
        /\ ~exiting /\ exiter = Nobody /\ ~torn
    BY CallersAssumption DEF Init, FreshPool
  <2>2. LockInv /\ ExitInv
    BY <2>1 DEF LockInv, ExitInv, InCall, Published, Serving
  <2>3. CallInv /\ RanInv /\ NoMissedDone
    BY <2>1 DEF CallInv, RanInv, NoMissedDone, Published
  <2> QED
    BY <2>2, <2>3
<1>3. WorkerInv /\ NoMissedCall
  <2>1. /\ size = 0 /\ call = NoCall
        /\ \A w \in Worker : wpc[w] = "none" /\ seen[w] = NoCall /\ 0 < w
    BY DEF Init, FreshPool, AllWorkers, Worker
  <2> QED
    BY <2>1 DEF WorkerInv, NoMissedCall, Active, NoCall
<1>4. Unserved = {} /\ Asleep = {}
  BY DEF Init, FreshPool, AllWorkers, NoCall, Unserved, Asleep, Worker
<1>5. CountInv /\ SleepInv
  BY <1>4, FS_EmptySet DEF Init, FreshPool, CountInv, SleepInv
<1> QED
  BY <1>1, <1>2, <1>3, <1>5 DEF IInv

\* Every step of the pool keeps the invariant.
LEMMA StepInv == IInv /\ [Next]_vars => IInv'
<1> SUFFICES ASSUME IInv, [Next]_vars PROVE IInv'
  OBVIOUS
<1>1. CASE Next
  BY <1>1, TypeKept, LockKept, WorkersKept, CallKept, CountKept, SleepersKept,
     RanKept, ExitKept, NoMissedCallKept, NoMissedDoneKept DEF IInv
<1>2. CASE UNCHANGED vars
  <2> USE <1>2 DEF vars, processVars, poolVars, exitVars
  <2>1. TypeOK' /\ LockInv' /\ CallInv' /\ ExitInv'
    BY DEF IInv, TypeOK, LockInv, CallInv, ExitInv
  <2>2. WorkerInv' /\ RanInv' /\ NoMissedCall' /\ NoMissedDone'
    BY DEF IInv, WorkerInv, Active, Moved, RanInv, JobOver, NoMissedCall,
           NoMissedDone
  <2>3. Unserved' = Unserved /\ Asleep' = Asleep
    BY DEF Unserved, Asleep, Active
  <2>4. CountInv' /\ SleepInv'
    BY <2>3 DEF IInv, CountInv, SleepInv
  <2> QED
    BY <2>1, <2>2, <2>4 DEF IInv
<1> QED
  BY <1>1, <1>2

\* Every reachable state of the pool satisfies the inductive invariant, for
\* every number of threads, jobs, calls and forks.
THEOREM Inductive == Spec => []IInv
  BY InitInv, StepInv, PTL DEF Spec

\* Every variable of the pool keeps its type: remaining_ and sleeping_ are
\* never taken below zero, jobs_ and the call word only name calls.
THEOREM TypeCorrect == Spec => []TypeOK
<1>1. IInv => TypeOK
  BY DEF IInv
<1> QED
  BY <1>1, Inductive, PTL

\* A worker only dereferences the Jobs object of the call in progress, which is
\* alive on the stack of a caller still in Pool::run.
THEOREM NoDanglingJobs == Spec => []JobsAlive
<1>1. IInv => JobsAlive
  <2> SUFFICES ASSUME IInv, NEW w \in Worker, wpc[w] \in {"take", "run"}
               PROVE  /\ \E t \in Callers : pc[t] \in Published /\ w < numjobs[t]
                      /\ wpc[w] = "take" => jobs = call.seq
                      /\ wpc[w] = "run" => ptr[w] = call.seq
    BY DEF JobsAlive
  <2>1. Active(w)
    BY DEF Active
  <2>2. PICK t \in Callers : pc[t] \in Published
    BY <2>1, ActiveUnserved
  <2>3. w < call.jobs
    BY <2>1 DEF IInv, WorkerInv
  <2>4. call.jobs = numjobs[t] /\ jobs = call.seq
    BY <2>2 DEF IInv, CallInv
  <2>5. wpc[w] = "run" => ptr[w] = call.seq
    BY DEF IInv, WorkerInv
  <2> QED
    BY <2>2, <2>3, <2>4, <2>5
<1> QED
  BY <1>1, Inductive, PTL

\* No wake-up is lost: neither a worker nor the caller sleeps through the event
\* it waits for.
THEOREM NoLostWakeup == Spec => [](NoMissedCall /\ NoMissedDone)
<1>1. IInv => NoMissedCall /\ NoMissedDone
  BY DEF IInv
<1> QED
  BY <1>1, Inductive, PTL

\* OpenBLAS is torn down with no job running.
THEOREM QuietTeardown == Spec => []TeardownQuiet
<1>1. IInv => TeardownQuiet
  <2> SUFFICES ASSUME IInv, torn
               PROVE  /\ \A t \in Callers : pc[t] \notin Published \cup {"inline"}
                      /\ \A w \in Worker : ~Active(w)
    BY DEF TeardownQuiet, Active
  <2>1. ASSUME NEW t \in Callers PROVE pc[t] \notin Serving
    BY <2>1 DEF IInv, ExitInv, Serving, InCall, Published
  <2>2. \A t \in Callers : pc[t] \notin Published \cup {"inline"}
    BY <2>1 DEF Serving, InCall, Published
  <2> QED
    BY <2>2, ActiveUnserved
<1> QED
  BY <1>1, Inductive, PTL

-----------------------------------------------------------------------------
(* The pool implements BlasCall.                                           *)

\* The call in progress is the one of the thread that serves, if any.
LEMMA BusyServing ==
  \A t \in Callers : LockInv /\ pc[t] \in Serving => Busy = t /\ Busy # Nobody
<1> SUFFICES ASSUME NEW t \in Callers, LockInv, pc[t] \in Serving
             PROVE  Busy = t /\ Busy # Nobody
  OBVIOUS
<1>1. oneCall = t /\ pc[t] \notin {"forkPool", "fork"} /\ t # Nobody
  BY CallersAssumption DEF LockInv, Serving, InCall, Published
<1> QED
  BY <1>1 DEF Busy

LEMMA BusyNobody ==
  LockInv /\ (\A t \in Callers : pc[t] \notin Serving) => Busy = Nobody
<1> SUFFICES ASSUME LockInv, \A t \in Callers : pc[t] \notin Serving
             PROVE  Busy = Nobody
  OBVIOUS
<1>1. \A t \in Callers : oneCall = t => pc[t] \in {"forkPool", "fork"}
  BY DEF LockInv, Serving
<1> QED
  BY <1>1 DEF Busy

LEMMA BusyServingNext ==
  \A t \in Callers : LockInv' /\ pc'[t] \in Serving => Busy' = t
<1>1. (\A t \in Callers : LockInv /\ pc[t] \in Serving => Busy = t /\ Busy # Nobody)'
  BY BusyServing, PTL
<1> QED
  BY <1>1

LEMMA BusyNobodyNext ==
  LockInv' /\ (\A t \in Callers : pc'[t] \notin Serving) => Busy' = Nobody
<1>1. (LockInv /\ (\A t \in Callers : pc[t] \notin Serving) => Busy = Nobody)'
  BY BusyNobody, PTL
<1> QED
  BY <1>1

\* A step that neither starts nor ends a call, nor a job, is invisible.
LEMMA Invisible ==
  ASSUME LockInv, LockInv', UNCHANGED <<ran, exiter>>,
         \A t \in Callers : /\ pc'[t] \in Serving <=> pc[t] \in Serving
                            /\ pc[t] \in Serving => numjobs'[t] = numjobs[t]
  PROVE  UNCHANGED Call!callVars
<1>1. CASE \E t \in Callers : pc[t] \in Serving
  <2>1. PICK t \in Callers : pc[t] \in Serving
    BY <1>1
  <2>2. Busy = t /\ Busy # Nobody
    BY <2>1, BusyServing
  <2>3. Busy' = t
    BY <2>1, BusyServingNext
  <2> QED
    BY <2>1, <2>2, <2>3 DEF Call!callVars
<1>2. CASE \A t \in Callers : pc[t] \notin Serving
  <2>1. Busy = Nobody /\ Busy' = Nobody
    BY <1>2, BusyNobody, BusyNobodyNext
  <2> QED
    BY <2>1 DEF Call!callVars
<1> QED
  BY <1>1, <1>2

\* A call starts, runs its jobs once each, and returns, as BlasCall says; the
\* steps in between are invisible.
LEMMA StepImplements ==
  ASSUME IInv, IInv', Next
  PROVE  [Call!Next]_(Call!callVars)
<1> USE DEF Goto, Step, processVars, poolVars, exitVars
<1>0. LockInv /\ LockInv'
  BY DEF IInv
<1>1. ASSUME NEW t \in Callers, Admit(t) PROVE Call!Start(t)
  <2>1. \A u \in Callers : pc[u] \notin Serving
    BY <1>0, <1>1, CallersAssumption DEF Admit, LockInv, Serving
  <2>2. pc'[t] \in Serving
    BY <1>1 DEF Admit, IInv, TypeOK, Serving, InCall, Published
  <2>3. Busy = Nobody /\ Busy' = t /\ t # Nobody
    BY <1>0, <2>1, <2>2, BusyNobody, BusyServingNext, CallersAssumption
  <2>4. numjobs' = numjobs /\ numjobs[t] \in 1 .. MaxJobs
    BY <1>1 DEF Admit, IInv, TypeOK, CallInv
  <2>5. exiter \in {Nobody, t} /\ UNCHANGED exiter
    BY <1>1 DEF Admit, IInv, ExitInv
  <2>6. ran' = [i \in 0 .. MaxJobs - 1 |-> 0]
    BY <1>1 DEF Admit
  <2> QED
    BY <2>3, <2>4, <2>5, <2>6 DEF Call!Start, Call!NoRun
<1>2. ASSUME NEW t \in Callers, RunInline(t) PROVE Call!Run(0)
  <2>1. pc[t] = "inline" /\ pc'[t] = "leave" /\ UNCHANGED <<numjobs, exiter>>
    BY <1>2 DEF RunInline, IInv, TypeOK
  <2>2. Busy = t /\ Busy' = t /\ t # Nobody
    BY <1>0, <2>1, BusyServing, BusyServingNext, CallersAssumption
    DEF Serving, InCall
  <2>3. numjobs[t] = 1 /\ ran[0] = 0
    BY <2>1, BoundsAssumption DEF IInv, CallInv, RanInv
  <2>4. ran' = [ran EXCEPT ![0] = 1]
    BY <1>2, <2>3 DEF RunInline
  <2> QED
    BY <2>1, <2>2, <2>3, <2>4 DEF Call!Run
<1>3. ASSUME NEW t \in Callers, EndJob0(t) PROVE Call!Run(0)
  <2>1. pc[t] = "run0" /\ pc'[t] = "poll" /\ UNCHANGED <<numjobs, exiter>>
    BY <1>3 DEF EndJob0, IInv, TypeOK
  <2>2. Busy = t /\ Busy' = t /\ t # Nobody
    BY <1>0, <2>1, BusyServing, BusyServingNext, CallersAssumption
    DEF Serving, InCall, Published
  <2>3. numjobs[t] >= 2 /\ numjobs[t] \in Int /\ ran[0] = 0
    BY <2>1 DEF IInv, TypeOK, CallInv, RanInv, Published
  <2>4. ran' = [ran EXCEPT ![0] = 1]
    BY <1>3, <2>3 DEF EndJob0
  <2> QED
    BY <2>1, <2>2, <2>3, <2>4 DEF Call!Run
<1>4. ASSUME NEW w \in Worker, EndJob(w) PROVE Call!Run(w)
  <2>1. Active(w) /\ ~JobOver(w) /\ UNCHANGED <<pc, numjobs, exiter>>
    BY <1>4 DEF EndJob, Active, JobOver
  <2>2. PICK t \in Callers : pc[t] \in Published
    BY <2>1, ActiveUnserved
  <2>3. pc[t] \in Serving /\ pc'[t] \in Serving
    BY <2>1, <2>2 DEF Serving, InCall, Published
  <2>4. Busy = t /\ Busy' = t /\ t # Nobody
    BY <1>0, <2>3, BusyServing, BusyServingNext, CallersAssumption
  <2>5. w < call.jobs /\ call.jobs = numjobs[t]
    BY <2>1, <2>2 DEF IInv, WorkerInv, CallInv
  <2>6. ran[w] = 0
    BY <2>1, <2>2, <2>5 DEF IInv, RanInv
  <2>7. ran' = [ran EXCEPT ![w] = 1]
    BY <1>4, <2>6 DEF EndJob
  <2> QED
    BY <2>1, <2>4, <2>5, <2>6, <2>7 DEF Call!Run
<1>5. ASSUME NEW t \in Callers, pc[t] \in Serving, pc'[t] = "idle",
             oneCall' = Nobody, UNCHANGED <<ran, exiter>>,
             \A i \in 0 .. numjobs[t] - 1 : ran[i] = 1
      PROVE  Call!Return
  <2>1. Busy = t /\ t # Nobody
    BY <1>0, <1>5, BusyServing, CallersAssumption
  <2>2. \A u \in Callers : pc'[u] \notin Serving
    BY <1>0, <1>5, CallersAssumption DEF LockInv, Serving
  <2>3. Busy' = Nobody
    BY <1>0, <2>2, BusyNobodyNext
  <2> QED
    BY <1>5, <2>1, <2>3 DEF Call!Return
<1>6. ASSUME NEW t \in Callers, LeaveInline(t) PROVE Call!Return
  <2>1. /\ pc[t] \in Serving /\ pc'[t] = "idle" /\ oneCall' = Nobody
        /\ UNCHANGED <<ran, exiter>>
    BY <1>6 DEF LeaveInline, IInv, TypeOK, Serving, InCall, Published
  <2>2. \A i \in 0 .. numjobs[t] - 1 : ran[i] = 1
    BY <1>6 DEF LeaveInline, IInv, CallInv, RanInv
  <2> QED
    BY <1>5, <2>1, <2>2
<1>7. ASSUME NEW t \in Callers, Return(t) PROVE Call!Return
  <2>1. /\ pc[t] \in {"poll", "doneLock", "doneWoken"} /\ pc[t] \in Serving
        /\ pc[t] \in Published /\ remaining = 0
    BY <1>7 DEF Return, Serving, InCall, Published
  <2>2. pc'[t] = "idle" /\ oneCall' = Nobody /\ UNCHANGED <<ran, exiter>>
    BY <1>7 DEF Return, IInv, TypeOK
  <2>3. \A u \in Callers : pc[u] # "publish"
    BY <2>1, OneInCall DEF IInv, InCall, Published
  <2>4. Unserved = {}
    BY <2>1, <2>3, WorkersFinite, FS_EmptySet DEF IInv, CountInv
  <2>5. call.jobs = numjobs[t]
    BY <2>1 DEF IInv, CallInv
  <2>6. ASSUME NEW w \in Worker, w < call.jobs PROVE ran[w] = 1
    <3>1. JobOver(w)
      BY <2>4, <2>6 DEF Unserved, JobOver, Active
    <3> QED
      BY <2>1, <2>6, <3>1 DEF IInv, RanInv
  <2>7. ran[0] = 1
    BY <2>1 DEF IInv, RanInv
  <2>8. \A i \in 0 .. numjobs[t] - 1 : i = 0 \/ (i \in Worker /\ i < call.jobs)
    BY <2>5, BoundsAssumption DEF IInv, TypeOK, Worker
  <2> QED
    BY <1>5, <2>1, <2>2, <2>6, <2>7, <2>8
<1>8. ASSUME NEW t \in Callers, AdmitOnlyThisThread(t) PROVE Call!Close(t)
  <2>1. \A u \in Callers : pc[u] \notin Serving
    BY <1>0, <1>8, CallersAssumption DEF AdmitOnlyThisThread, LockInv, Serving
  <2>2. \A u \in Callers : pc'[u] \notin Serving
    BY <1>8, <2>1 DEF AdmitOnlyThisThread, IInv, TypeOK, Serving, InCall, Published
  <2>3. Busy = Nobody /\ Busy' = Nobody
    BY <1>0, <2>1, <2>2, BusyNobody, BusyNobodyNext
  <2> QED
    BY <1>8, <2>3 DEF AdmitOnlyThisThread, Call!Close
<1>9. ASSUME NEW t \in Callers,
             Enter(t) \/ Park(t) \/ LockPool(t) \/ Spawn(t) \/ Prepare(t)
             \/ Publish(t) \/ NotifySleepers(t) \/ StartJob0(t)
             \/ StopPolling(t) \/ SleepOnDone(t)
      PROVE  UNCHANGED Call!callVars
  <2>1. UNCHANGED <<ran, exiter>>
    BY <1>9 DEF Enter, Park, LockPool, Spawn, Prepare, Publish, NotifySleepers,
       StartJob0, StopPolling, SleepOnDone
  <2>2. \A u \in Callers : /\ pc'[u] \in Serving <=> pc[u] \in Serving
                           /\ pc[u] \in Serving => numjobs'[u] = numjobs[u]
    BY <1>9 DEF Enter, Park, LockPool, Spawn, Prepare, Publish, NotifySleepers,
       StartJob0, StopPolling, SleepOnDone, IInv, TypeOK, Serving, InCall,
       Published
  <2> QED
    BY <1>0, <2>1, <2>2, Invisible
<1>10. ASSUME NEW t \in Callers,
              BeginFork(t) \/ ForkStep(t) \/ BeginExit(t) \/ Teardown(t)
       PROVE  UNCHANGED Call!callVars
  <2>1. UNCHANGED <<ran, exiter, numjobs>>
    BY <1>10 DEF BeginFork, ForkStep, ForkLockPool, ForkInParent, ForkInChild,
       BeginExit, Teardown
  <2>2. CASE ForkInChild(t)
    <3>1. \A u \in Callers : pc[u] \notin Serving /\ pc'[u] \notin Serving
      BY <1>0, <2>2 DEF ForkInChild, LockInv, Serving, InCall, Published
    <3> QED
      BY <1>0, <2>1, <3>1, Invisible
  <2>3. CASE ~ForkInChild(t)
    <3>1. \A u \in Callers : pc'[u] \in Serving <=> pc[u] \in Serving
      BY <1>10, <2>3 DEF BeginFork, ForkStep, ForkLockPool, ForkInParent,
         BeginExit, Teardown, IInv, TypeOK, Serving, InCall, Published
    <3> QED
      BY <1>0, <2>1, <3>1, Invisible
  <2> QED
    BY <2>2, <2>3
<1>11. ASSUME NEW w \in Worker,
              SeeCall(w) \/ GiveUpPolling(w) \/ Sleep(w) \/ Wake(w)
              \/ SleepAgain(w) \/ LoadCall(w) \/ TakeJob(w) \/ CountDown(w)
       PROVE  UNCHANGED Call!callVars
  <2>1. UNCHANGED <<ran, exiter, pc, numjobs>>
    BY <1>11 DEF SeeCall, GiveUpPolling, Sleep, Wake, SleepAgain, LoadCall,
       TakeJob, CountDown
  <2> QED
    BY <1>0, <2>1, Invisible
<1>12. ASSUME SpuriousWake \/ \E w \in Worker : SignalDone(w)
       PROVE  UNCHANGED Call!callVars
  <2>1. UNCHANGED <<ran, exiter, numjobs>>
    BY <1>12 DEF SpuriousWake, SignalDone
  <2>2. UNCHANGED pc \/ \E t \in Callers : Goto(t, "doneWait", "doneWoken")
    BY <1>12 DEF SpuriousWake, SignalDone
  <2>3. \A u \in Callers : pc'[u] \in Serving <=> pc[u] \in Serving
    BY <2>2 DEF IInv, TypeOK, Serving, InCall, Published
  <2> QED
    BY <1>0, <2>1, <2>3, Invisible
<1>13. 0 \in 0 .. MaxJobs - 1 /\ \A w \in Worker : w \in 0 .. MaxJobs - 1
  BY BoundsAssumption DEF Worker
<1> QED
  BY <1>1, <1>2, <1>3, <1>4, <1>6, <1>7, <1>8, <1>9, <1>10, <1>11, <1>12, <1>13
  DEF Next, CallerStep, WorkerStep, Call!Next

\* The pool does what the callback promises OpenBLAS: one call at a time, each
\* job exactly once, a return only with every job done, and after the exit
\* handler no call but the exiting thread's.
THEOREM PoolImplementsCall == Spec => ImplementsBlasCall
<1>1. Init => Call!Init
  <2> SUFFICES ASSUME Init PROVE Call!Init
    OBVIOUS
  <2>1. LockInv /\ \A t \in Callers : pc[t] \notin Serving
    BY InitInv DEF IInv, Init, Serving, InCall, Published
  <2>2. Busy = Nobody
    BY <2>1, BusyNobody
  <2> QED
    BY <2>2 DEF Init, Call!Init, Call!NoRun
<1>2. IInv /\ IInv' /\ [Next]_vars => [Call!Next]_(Call!callVars)
  <2> SUFFICES ASSUME IInv, IInv', [Next]_vars
               PROVE  [Call!Next]_(Call!callVars)
    OBVIOUS
  <2>1. CASE Next
    BY <2>1, StepImplements
  <2>2. CASE UNCHANGED vars
    <3>1. LockInv /\ LockInv' /\ UNCHANGED <<ran, exiter, pc, numjobs>>
      BY <2>2 DEF IInv, vars, processVars, exitVars
    <3> QED
      BY <3>1, Invisible
  <2> QED
    BY <2>1, <2>2
<1> QED
  BY <1>1, <1>2, Inductive, PTL DEF Spec, ImplementsBlasCall, Call!Spec

=============================================================================
