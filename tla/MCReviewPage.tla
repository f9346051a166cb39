----------------------------- MODULE MCReviewPage -----------------------------
(* Two reviewers with a page each, or one alone.                             *)
EXTENDS ReviewPage, TLC

CONSTANTS anna, ben

MCPages == {anna, ben}
OnePage == {anna}
PageSymmetry == Permutations(MCPages)
=============================================================================
