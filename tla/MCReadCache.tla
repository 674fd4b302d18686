---------------------------- MODULE MCReadCache ----------------------------
(* Model values for ReadCache. *)
EXTENDS ReadCache

CONSTANTS c1, c2, contents

MCClients == {c1, c2}
MCDomains == {contents}
=============================================================================
