---------------------------- MODULE StreamMessage -----------------------------
(***************************************************************************)
(* streamMessage: a model call that runs through the circuit breaker and   *)
(* publishes its stream to the run's feed as it arrives.  The feed cannot  *)
(* be taken back, so what an attempt published decides whether the breaker *)
(* may try again.  A frame is named by its kind and by its attempt, or 0   *)
(* where streamMessage publishes outside the attempts.                     *)
(***************************************************************************)
EXTENDS CircuitBreaker, Sequences

CONSTANTS
  MaxEvents   \* bound: frames one attempt publishes

ASSUME StreamAssumption == MaxEvents \in Nat

DeltaKinds == {"text", "tool_input"}
Kinds == {"started", "tool_started", "tool_completed", "completed"} \union DeltaKinds
Frames == [kind : Kinds, attempt : 0..Attempts]

VARIABLES
  feed,     \* the frames each call has published
  emitted   \* deltaEmittedThisAttempt

streamVars == <<feed, emitted>>
allVars == <<vars, streamVars>>

Say(c, kind, a) == feed' = [feed EXCEPT ![c] = Append(@, [kind |-> kind, attempt |-> a])]

Count(c, kind, a) ==
  Len(SelectSeq(feed[c], LAMBDA f : f.kind = kind /\ f.attempt = a))

OpenTool(c) ==
  Count(c, "tool_started", attempt[c]) > Count(c, "tool_completed", attempt[c])

NewAttempt(c) == emitted' = [emitted EXCEPT ![c] = FALSE]

-----------------------------------------------------------------------------
\* llm.message.started is published before the breaker is asked, once.
Announce(c) ==
  /\ pc[c] = "idle" /\ feed[c] = <<>>
  /\ Say(c, "started", 0)
  /\ UNCHANGED <<vars, emitted>>

Announced(c) == feed[c] # <<>>

BeginCall(c) ==
  /\ Announced(c)
  /\ \/ Reject(c) /\ UNCHANGED streamVars
     \/ AdmitCancelled(c) /\ UNCHANGED streamVars
     \/ Admit(c) /\ NewAttempt(c) /\ UNCHANGED feed

Event(c) ==
  /\ pc[c] = "calling"
  /\ Len(SelectSeq(feed[c], LAMBDA f : f.attempt = attempt[c])) < MaxEvents
  /\ UNCHANGED vars

\* text and thinking alike
TextDelta(c) ==
  /\ Event(c) /\ ~OpenTool(c)
  /\ Say(c, "text", attempt[c])
  /\ emitted' = [emitted EXCEPT ![c] = TRUE]

ToolStarts(c) ==
  /\ Event(c) /\ ~OpenTool(c)
  /\ Say(c, "tool_started", attempt[c])
  /\ UNCHANGED emitted

\* A tool without arguments streams an empty input, which is not published.
ToolInputDelta(c) ==
  /\ Event(c) /\ OpenTool(c)
  /\ Say(c, "tool_input", attempt[c])
  /\ emitted' = [emitted EXCEPT ![c] = TRUE]

ToolCompletes(c) ==
  /\ Event(c) /\ OpenTool(c)
  /\ Say(c, "tool_completed", attempt[c])
  /\ UNCHANGED emitted

\* The stream breaks: an error after a delta is marked streamResumeNotSafe,
\* which makes it not retriable, whatever it was.
Unmarked(c, err) == err
Marked(c, err) == IF emitted[c] /\ err = "transient" THEN "unsafe" ELSE err

StreamBreaks(c) ==
  /\ \E err \in Errors \ {"unsafe"} : Fail(c, Marked(c, err))
  /\ UNCHANGED streamVars

AnnounceAgain(c) == Say(c, "started", 0)
SilentRetry(c) == UNCHANGED feed

RetryStream(c) ==
  /\ Retry(c)
  /\ NewAttempt(c)
  /\ SilentRetry(c)

\* llm.message.completed is published after the breaker, on success only.
StreamEnds(c) ==
  /\ ~OpenTool(c)
  /\ Succeed(c)
  /\ Say(c, "completed", 0)
  /\ UNCHANGED emitted

StreamInit ==
  /\ Init
  /\ feed = [c \in Calls |-> <<>>]
  /\ emitted = [c \in Calls |-> FALSE]

StreamNext ==
  \/ Tick /\ UNCHANGED streamVars
  \/ \E c \in Calls :
       \/ Announce(c) \/ BeginCall(c)
       \/ TextDelta(c) \/ ToolStarts(c) \/ ToolInputDelta(c) \/ ToolCompletes(c)
       \/ StreamBreaks(c) \/ RetryStream(c) \/ StreamEnds(c)
       \/ WaitAborted(c) /\ UNCHANGED streamVars
       \/ Cancel(c) /\ UNCHANGED streamVars
       \/ DeadlineFires(c) /\ UNCHANGED streamVars

StreamSpec == StreamInit /\ [][StreamNext]_allVars

-----------------------------------------------------------------------------
(* Properties.                                                             *)

StreamTypeOK ==
  /\ feed \in [Calls -> Seq(Frames)]
  /\ emitted \in [Calls -> BOOLEAN]

\* The reviewer never reads a text twice: all the deltas a call published come
\* from its last attempt, so on success they are the text it returned.
NoTextTwice ==
  \A c \in Calls : \A k \in 1..Len(feed[c]) :
    feed[c][k].kind \in DeltaKinds => feed[c][k].attempt = attempt[c]

\* The bubble of a message is bracketed: it starts once, before everything else,
\* and ends at most once, after everything else, exactly when the call succeeds.
Bracketed ==
  \A c \in Calls : \A k \in 1..Len(feed[c]) :
    /\ feed[c][k].kind = "started" <=> k = 1
    /\ feed[c][k].kind = "completed" => k = Len(feed[c]) /\ result[c] = "ok"
    /\ result[c] = "ok" => feed[c][Len(feed[c])].kind = "completed"

\* What streamMapper says the reviewer's interface shows, the truth: the tool
\* uses in the feed are those of the result.
FeedShowsTheResult ==
  \A c \in Calls : result[c] = "ok" =>
    \A k \in 1..Len(feed[c]) :
      feed[c][k].kind = "tool_completed" => feed[c][k].attempt = attempt[c]

=============================================================================
