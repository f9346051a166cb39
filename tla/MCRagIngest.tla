---------------------------- MODULE MCRagIngest ----------------------------
(* A document whose name carries a UUID and one that gets one. *)
EXTENDS RagIngest

CONSTANTS appended, fresh

MCFiles == {appended, fresh}
MCTagged == {appended}
=============================================================================
