---------------------------- MODULE MCWriteLock ----------------------------
(* Model values for WriteLock. *)
EXTENDS WriteLock

CONSTANTS t1, t2, t3

MCThreeThreads == {t1, t2, t3}

=============================================================================
