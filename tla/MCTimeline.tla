----------------------------- MODULE MCTimeline -----------------------------
(* Clients are interchangeable. *)
EXTENDS Timeline, TLC

ClientSymmetry == Permutations(Clients)
=============================================================================
