---------------------------- MODULE MCPaidDrain ----------------------------
(* Model values for PaidDrain. *)
EXTENDS PaidDrain

CONSTANTS integrated, tikhub

MCProfiles == {integrated, tikhub}
=============================================================================
