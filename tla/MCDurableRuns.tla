--------------------------- MODULE MCDurableRuns ---------------------------
(* DurableRuns on small instances: one root whose runs two workers fight for. *)
EXTENDS DurableRuns

CONSTANTS root1, w1, w2, roster, revised

MCRoots == {root1}
MCWorkers == {w1, w2}
MCIdentities == {roster, revised}
MCDays == {1}
MCDelays == {1}
=============================================================================
