---------------------------- MODULE MCPaidFetch ----------------------------
(* PaidFetch on small instances: slots that ask for one and the same identity. *)
EXTENDS PaidFetch

CONSTANTS s1, s2, identity

TwoSlots == {s1, s2}
OneIdentity == {identity}
SharedIdentity == [s \in Slots |-> identity]

TwoAndOne == [s \in Slots |-> IF s = s1 THEN 2 ELSE 1]
=============================================================================
