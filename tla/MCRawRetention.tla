--------------------------- MODULE MCRawRetention ---------------------------
(* One body shared by three responses, for TLC. *)
EXTENDS RawRetention
CONSTANTS resp1, resp2, resp3
MCResponses == {resp1, resp2, resp3}
=============================================================================
