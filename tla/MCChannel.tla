------------------------------ MODULE MCChannel ------------------------------
\* The channel for TLC: the handles of a side are interchangeable.
EXTENDS Channel, TLC

MCSymmetry == Permutations(Senders) \cup Permutations(Receivers)
=============================================================================
