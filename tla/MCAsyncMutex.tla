---------------------------- MODULE MCAsyncMutex -----------------------------
(* Instances of AsyncMutex for TLC. *)
EXTENDS AsyncMutex

CONSTANTS t1, t2, t3, t4

MCLockers == {t1, t2, t3, t4}
=============================================================================
