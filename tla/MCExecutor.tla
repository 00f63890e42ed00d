----------------------------- MODULE MCExecutor ------------------------------
(* Instances of Executor for TLC. *)
EXTENDS Executor

CONSTANTS r1, r2, k1, h1, t1, t2, t3

MCSymmetry == Permutations(Runners) \cup Permutations(Tasks) \cup Permutations(Threads)
=============================================================================
