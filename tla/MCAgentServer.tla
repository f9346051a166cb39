---------------------------- MODULE MCAgentServer ----------------------------
(* One gate; two posts, one of them with a key. *)
EXTENDS AgentServer, TLC

CONSTANTS reviewGate, p1, p2, k1

MCGates == {reviewGate}
MCSubmissions == {p1, p2}
MCPosted == {p1, p2}
MCTargetOf == [s \in MCSubmissions |-> reviewGate]
MCKeys == {k1}
MCKeyOf == (p1 :> k1) @@ (p2 :> None)
=============================================================================
