----------------------------- MODULE ReviewApi -----------------------------
(***************************************************************************)
(* POST /runs/:id/review (http/runs.ts) in front of the gate register, for *)
(* one run. A submission sent over HTTP is decided by the bus in one step; *)
(* its handler then waits for the database, to store the run's review row  *)
(* or, after a conflict, to look it up, and answers. A submission sent over*)
(* the WebSocket is decided by the same call, stored nowhere and answered  *)
(* by nobody.                                                              *)
(***************************************************************************)
EXTENDS GateSlots

CONSTANT Posted      \* the submissions sent over HTTP

ASSUME PostedAssumption ==
  /\ Posted \subseteq Submissions
  /\ None \notin [key : Keys \cup {None}, decision : Submissions]

VARIABLES
  handlers,   \* handlers that wait for the database
  reviewRow,  \* the run's row of `reviews`, or None
  answer      \* history: the last answer that was sent, or None

apiVars == <<handlers, reviewRow, answer>>

\* carries: the decision that publishClientDecisionForStep returned, or the
\* existing one of its ConflictError.
Handlers == [post : Posted, copy : 1..MaxSends, waitsFor : {"insert", "select"},
             carries : Submissions]
Rows == [key : Keys \cup {None}, decision : Submissions]
Codes == {"accepted", "replay", "conflict", "error"}
Answers == [post : Posted, code : Codes, decision : Submissions \cup {None}]

ApiTypeOK ==
  /\ handlers \subseteq Handlers
  /\ reviewRow \in Rows \cup {None}
  /\ answer \in Answers \cup {None}

ApiInit == handlers = {} /\ reviewRow = None /\ answer = None

-----------------------------------------------------------------------------
\* What the bus returns, or throws, for a copy of s that arrives now.
Returned(s) ==
  LET g == TargetOf[s]
  IN  CASE Cached(s)   -> [waitsFor |-> "insert", carries |-> idempotencyMap[g][KeyOf[s]]]
        [] Accepts(s) /\ ~Cached(s) -> [waitsFor |-> "insert", carries |-> s]
        [] OTHER       -> [waitsFor |-> "select", carries |-> committedDecision[g]]

\* copies of s that arrived or were lost before
Copy(s) == sends[s] - inFlight[s] + 1

\* The existence check has come back: the run is there, the bus decides.
Receive(s) ==
  /\ Deliver(s)
  /\ handlers' = IF s \in Posted
                 THEN handlers \cup
                      {[post |-> s, copy |-> Copy(s), waitsFor |-> Returned(s).waitsFor,
                        carries |-> Returned(s).carries]}
                 ELSE handlers
  /\ UNCHANGED <<reviewRow, answer>>

Reply(h, code, decision) ==
  /\ handlers' = handlers \ {h}
  /\ answer' = [post |-> h.post, code |-> code, decision |-> decision]

InsertSwallowed(h) ==    \* mutant: an insert that failed is logged only
  /\ h.waitsFor = "insert"
  /\ \/ /\ reviewRow' = IF reviewRow = None
                        THEN [key |-> KeyOf[h.post], decision |-> h.carries]
                        ELSE reviewRow
     \/ UNCHANGED reviewRow
  /\ Reply(h, "accepted", h.carries)

\* onConflictDoNothing: the first row of the run stays.
StoreRow(h) ==
  /\ h.waitsFor = "insert"
  /\ reviewRow' = IF reviewRow = None
                  THEN [key |-> KeyOf[h.post], decision |-> h.carries]
                  ELSE reviewRow
  /\ Reply(h, "accepted", h.carries)

AnyRowReplays(h) == reviewRow # None    \* mutant: the key is not compared

IsReplay(h) ==
  /\ reviewRow # None
  /\ KeyOf[h.post] # None
  /\ reviewRow.key = KeyOf[h.post]

AnswerConflict(h) ==
  /\ h.waitsFor = "select"
  /\ IF IsReplay(h) THEN Reply(h, "replay", reviewRow.decision)
                    ELSE Reply(h, "conflict", h.carries)
  /\ UNCHANGED reviewRow

Settle(h) == StoreRow(h) \/ AnswerConflict(h)

\* The database fails the handler: 500, whatever the bus has decided.
AnswerError(h) ==
  /\ Reply(h, "error", None)
  /\ UNCHANGED reviewRow

=============================================================================
