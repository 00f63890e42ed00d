------------------------------- MODULE MCEvent -------------------------------
(* Instances of Event for TLC. *)
EXTENDS Event, TLC

CONSTANTS l1, l2, l3, n1

MCListeners == {l1, l2, l3}
MCSymmetry == Permutations(Listeners)
=============================================================================
