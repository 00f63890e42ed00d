------------------------------- MODULE MCTask -------------------------------
(* Instances of Task for TLC. *)
EXTENDS Task, TLC

CONSTANTS r1, r2, w1, w2, p1, p2

MCRunners == {r1, r2}
MCWakers  == {w1, w2}
MCParents == {p1, p2}

\* The three kinds of actors are interchangeable among themselves.
MCSymmetry == Permutations(Runners) \cup Permutations(Wakers) \cup Permutations(Parents)
=============================================================================
