----------------------------- MODULE MCBlasPool -----------------------------
(***************************************************************************)
(* Instance of BlasPool for TLC: two application threads and up to three   *)
(* jobs, hence two workers.  Symmetry is not used, since a liveness        *)
(* property is checked with the others.                                    *)
(***************************************************************************)
EXTENDS BlasPool

=============================================================================
