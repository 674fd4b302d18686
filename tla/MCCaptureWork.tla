--------------------------- MODULE MCCaptureWork ---------------------------
(* CaptureWork on small instances: business days are three clock units long. *)
EXTENDS CaptureWork

CONSTANTS item1, w1, w2, frozen

MCItems == {item1}
MCWorkers == {w1, w2}
MCIdentities == {frozen}
MCDays == 0..2
MCDelays == {1, 2}
=============================================================================
