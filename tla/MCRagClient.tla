---------------------------- MODULE MCRagClient ----------------------------
(* Two runs that ask the shared runbooks. *)
EXTENDS RagClient

CONSTANTS run1, run2, runbooks

MCRuns == {run1, run2}
MCCollections == {runbooks}
MCRequests == MCRuns \X (1..MaxCalls) \X (1..Retries + 1)
=============================================================================
