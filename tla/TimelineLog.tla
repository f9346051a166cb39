----------------------------- MODULE TimelineLog ------------------------------
(***************************************************************************)
(* What the event bus promises of a run's timeline, whatever ring buffer,  *)
(* sockets and database lie between: there is one log, a reader sees some  *)
(* of its frames, each at most once and in the order of the log, and what  *)
(* is stored stays stored.                                                 *)
(***************************************************************************)
EXTENDS Naturals, Sequences

CONSTANTS Readers, MaxLength

VARIABLES
  length,   \* number of frames published
  read,     \* positions of the log each reader has seen, in order
  stored    \* positions of the log in the audit trail

vars == <<length, read, stored>>

Publish ==
  /\ length < MaxLength
  /\ length' = length + 1
  /\ UNCHANGED <<read, stored>>

Read(r) ==
  /\ \E i \in 1..length :
       /\ \A k \in 1..Len(read[r]) : read[r][k] < i
       /\ read' = [read EXCEPT ![r] = Append(@, i)]
  /\ UNCHANGED <<length, stored>>

StartOver(r) ==
  /\ read' = [read EXCEPT ![r] = <<>>]
  /\ UNCHANGED <<length, stored>>

Store ==
  /\ \E i \in 1..length : stored' = stored \union {i}
  /\ UNCHANGED <<length, read>>

Init ==
  /\ length = 0
  /\ read = [r \in Readers |-> <<>>]
  /\ stored = {}

Next == Publish \/ Store \/ \E r \in Readers : Read(r) \/ StartOver(r)

Spec == Init /\ [][Next]_vars

=============================================================================
