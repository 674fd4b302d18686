-------------------------- MODULE MCMediaRetention --------------------------
(* Model values for MediaRetention. *)
EXTENDS MediaRetention

CONSTANT reader1

OneReader == {reader1}
MCMembers == 1..2

\* The pass of media_restore is that of media_retention without new purges.
MCJobs == {"media_archive", "media_retention"}
=============================================================================
