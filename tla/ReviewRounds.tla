----------------------------- MODULE ReviewRounds -----------------------------
(***************************************************************************)
(* What a review gate promises the workflow, without callbacks, keys or    *)
(* counters of resolved slots: the workflow asks one question at a time,   *)
(* the first answer that comes while it waits is the answer, an answer     *)
(* that came before the very first question of a gate is kept for it, and  *)
(* one that comes between later questions is dropped.                      *)
(***************************************************************************)
EXTENDS Naturals

CONSTANTS Gates, Submissions, TargetOf, None, MaxSlots

VARIABLES
  question,  \* the gate the workflow waits at, or None
  answer,    \* the answer it will continue with, or None
  early,     \* gate -> the one answer kept for the next question, or None
  rounds     \* gate -> questions asked

vars == <<question, answer, early, rounds>>

\* A new question.  Only the first of a gate can be answered in advance.
Ask(g) ==
  /\ question = None
  /\ rounds[g] < MaxSlots
  /\ question' = g
  /\ rounds' = [rounds EXCEPT ![g] = @ + 1]
  /\ answer' = IF rounds[g] = 0 THEN early[g] ELSE None
  /\ early' = [early EXCEPT ![g] = None]

Answer(s) ==
  /\ question = TargetOf[s]
  /\ answer = None
  /\ answer' = s
  /\ UNCHANGED <<question, early, rounds>>

KeepEarly(s) ==
  /\ ~(question = TargetOf[s] /\ answer = None)
  /\ early[TargetOf[s]] = None
  /\ early' = [early EXCEPT ![TargetOf[s]] = s]
  /\ UNCHANGED <<question, answer, rounds>>

Continue ==
  /\ answer # None
  /\ question' = None
  /\ answer' = None
  /\ UNCHANGED <<early, rounds>>

Init ==
  /\ question = None
  /\ answer = None
  /\ early = [g \in Gates |-> None]
  /\ rounds = [g \in Gates |-> 0]

Next ==
  \/ \E g \in Gates : Ask(g)
  \/ \E s \in Submissions : Answer(s) \/ KeepEarly(s)
  \/ Continue

Spec == Init /\ [][Next]_vars
=============================================================================
