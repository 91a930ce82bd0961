------------------------------ MODULE BlasCall ------------------------------
(***************************************************************************)
(* What qarpx_openblas_threads promises OpenBLAS (blas_threads.h): calls   *)
(* run one at a time, each job of a call runs exactly once, the call       *)
(* returns with every job done, and once the process exits only the        *)
(* exiting thread's calls run.                                             *)
(***************************************************************************)
EXTENDS Integers

CONSTANTS Callers, MaxJobs, Nobody

VARIABLES
  busy,     \* the thread whose call is in progress
  wanted,   \* the job count of that call
  runs,     \* how often each of its jobs ran
  owner     \* the exiting thread, once there is one

callVars == <<busy, wanted, runs, owner>>

NoRun == [i \in 0 .. MaxJobs - 1 |-> 0]

Init == busy = Nobody /\ wanted = 0 /\ runs = NoRun /\ owner = Nobody

Start(t) ==
  /\ busy = Nobody /\ owner \in {Nobody, t}
  /\ busy' = t
  /\ wanted' \in 1 .. MaxJobs
  /\ runs' = NoRun
  /\ UNCHANGED owner

Run(i) ==
  /\ busy # Nobody /\ i < wanted /\ runs[i] = 0
  /\ runs' = [runs EXCEPT ![i] = 1]
  /\ UNCHANGED <<busy, wanted, owner>>

Return ==
  /\ busy # Nobody /\ \A i \in 0 .. wanted - 1 : runs[i] = 1
  /\ busy' = Nobody /\ wanted' = 0
  /\ UNCHANGED <<runs, owner>>

Close(t) ==
  /\ busy = Nobody
  /\ owner' = t
  /\ UNCHANGED <<busy, wanted, runs>>

Next ==
  \/ \E t \in Callers : Start(t) \/ Close(t)
  \/ \E i \in 0 .. MaxJobs - 1 : Run(i)
  \/ Return

Spec == Init /\ [][Next]_callVars

=============================================================================
