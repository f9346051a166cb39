----------------------------- MODULE MCGateSlots -----------------------------
(* Two gates and four submissions: two that reuse one key and one with a key  *)
(* of its own race for the first gate; the one for the second carries no key  *)
(* (a curl without one).                                                      *)
EXTENDS GateSlots, TLC

CONSTANTS reviewGate, humanVerifyGate, s1, s2, s3, s4, k1, k2

MCGates == {reviewGate, humanVerifyGate}
MCSubmissions == {s1, s2, s3, s4}
MCTargetOf == (s1 :> reviewGate) @@ (s2 :> reviewGate) @@ (s3 :> reviewGate)
              @@ (s4 :> humanVerifyGate)
MCKeys == {k1, k2}
MCKeyOf == (s1 :> k1) @@ (s2 :> k1) @@ (s3 :> k2) @@ (s4 :> None)
=============================================================================
