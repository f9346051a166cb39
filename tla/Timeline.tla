------------------------------- MODULE Timeline -------------------------------
(***************************************************************************)
(* The timeline of one run: publish assigns the sequence number, keeps the *)
(* frame in the ring buffer, sends it to the subscribed sockets and starts *)
(* its insert into the events table, without waiting for it.  Clients      *)
(* connect, say hello, replay what the buffer still holds, lose their      *)
(* connection with whatever was on the wire, and come back.  Half a minute *)
(* after its end the run is disposed of; a reviewer may still decide then. *)
(***************************************************************************)
EXTENDS Integers, Sequences, SequencesExt, FiniteSets

CONSTANTS
  Clients,        \* the sockets of reviewers, one run's worth
  MaxBufferSize,  \* EventBusOptions.ringBufferSize
  Persisting,     \* onPersist is wired
  MaxFrames,      \* bound: frames published
  MaxConnects,    \* bound: connections of one client
  None

ASSUME TimelineAssumption ==
  /\ MaxBufferSize \in Nat \ {0}
  /\ Persisting \in BOOLEAN
  /\ MaxFrames \in Nat \ {0}
  /\ MaxConnects \in Nat

Types == {"step", "review.decided", "run.failed", "run.completed"}

\* id is the place in the log, epoch says whether the run was disposed of before
Frames == [id : 1..MaxFrames, epoch : {0, 1}, seq : 0..MaxFrames - 1, type : Types]

\* a transport frame has no sequence number and is neither kept nor stored
Resync == [type |-> "resync"]

VARIABLES
  known,          \* the bus holds a RunState
  nextSeq,
  ringBuffer,
  log,            \* history: every frame published
  finished,       \* run.completed was published
  disposed,       \* the dispose timer fired
  open,           \* the socket is open
  helloReceived,
  listeners,      \* registrations of the socket's listener with the emitter
  connects,       \* connections made so far
  wire,           \* frames sent and not received yet
  seen,           \* what the client keeps of the timeline
  told,           \* the client received a resync
  inserting,      \* inserts under way
  events          \* the events table, by sequence number

runVars == <<known, nextSeq, ringBuffer, log, finished, disposed>>
clientVars == <<open, helloReceived, listeners, connects, seen, told>>
storeVars == <<inserting, events>>
vars == <<runVars, clientVars, wire, storeVars>>

-----------------------------------------------------------------------------
(* publish                                                                 *)

PushToBuffer(buffer, f) ==
  IF Len(buffer) = MaxBufferSize THEN Append(Tail(buffer), f) ELSE Append(buffer, f)

\* emit calls every registered listener; sendFrame drops for a closed socket
FanOut(f) ==
  wire' = [c \in Clients |->
             IF open[c] THEN wire[c] \o [k \in 1..listeners[c] |-> f] ELSE wire[c]]

\* fire and forget: the insert is started, nobody awaits it
Persist(f) ==
  /\ inserting' = IF Persisting THEN inserting \union {f} ELSE inserting
  /\ UNCHANGED events

Emit(f) ==
  /\ known' = TRUE
  /\ ringBuffer' = PushToBuffer(ringBuffer, f)
  /\ log' = Append(log, f)
  /\ FanOut(f)
  /\ Persist(f)

NextFrame(type) ==
  [id |-> Len(log) + 1, epoch |-> IF disposed THEN 1 ELSE 0, seq |-> nextSeq, type |-> type]

Publish(type) ==
  /\ Len(log) < MaxFrames
  /\ Emit(NextFrame(type))
  /\ nextSeq' = nextSeq + 1

\* A frame that does not validate is replaced by a synthetic run.failed, which
\* takes the sequence number.
KeepSeq == UNCHANGED nextSeq
TakeSeq == nextSeq' = nextSeq + 1

PublishSyntheticFailure ==
  /\ Len(log) < MaxFrames
  /\ Emit(NextFrame("run.failed"))
  /\ TakeSeq

-----------------------------------------------------------------------------
(* Who publishes.                                                          *)

WorkflowPublishes ==
  /\ ~finished
  /\ Publish("step") \/ PublishSyntheticFailure
  /\ UNCHANGED <<finished, disposed, clientVars>>

\* publishClientDecisionForStep, from HTTP or from a socket, at any time
ReviewerDecides ==
  /\ Publish("review.decided")
  /\ UNCHANGED <<finished, disposed, clientVars>>

Finish ==
  /\ ~finished
  /\ Publish("run.completed")
  /\ finished' = TRUE
  /\ UNCHANGED <<disposed, clientVars>>

\* The timer set when the run ended: forget the run and every listener.
Dispose ==
  /\ finished /\ ~disposed
  /\ disposed' = TRUE
  /\ known' = FALSE /\ nextSeq' = 0 /\ ringBuffer' = <<>>
  /\ listeners' = [c \in Clients |-> 0]
  /\ UNCHANGED <<log, finished, open, helloReceived, connects, wire, seen, told,
                 storeVars>>

-----------------------------------------------------------------------------
(* openStream                                                              *)

\* The socket opens; a client that starts afresh has seen nothing.
Connect(c, fresh) ==
  /\ ~open[c] /\ connects[c] < MaxConnects
  /\ open' = [open EXCEPT ![c] = TRUE]
  /\ helloReceived' = [helloReceived EXCEPT ![c] = FALSE]
  /\ connects' = [connects EXCEPT ![c] = @ + 1]
  /\ IF fresh
     THEN /\ seen' = [seen EXCEPT ![c] = <<>>]
          /\ told' = [told EXCEPT ![c] = FALSE]
     ELSE UNCHANGED <<seen, told>>
  /\ UNCHANGED <<runVars, listeners, wire, storeVars>>

ResumeSeq(c) == IF seen[c] = <<>> THEN -1 ELSE Last(seen[c]).seq

DidBufferEvictBefore(resumeSeq) ==
  ringBuffer # <<>> /\ Head(ringBuffer).seq > resumeSeq + 1

\* ringBuffer.filter; a recursive function rather than SelectSeq, of which
\* nothing can be proved
FramesAfter(seq) ==
  LET kept[n \in 0..Len(ringBuffer)] ==
        IF n = 0 THEN <<>>
        ELSE IF ringBuffer[n].seq > seq THEN Append(kept[n - 1], ringBuffer[n])
             ELSE kept[n - 1]
  IN  kept[Len(ringBuffer)]

ReplayFrom(resumeSeq) == FramesAfter(resumeSeq - 1)
ReplaySkipping(resumeSeq) == FramesAfter(resumeSeq + 1)
Replay(resumeSeq) == FramesAfter(resumeSeq)

FirstHello(c) == ~helloReceived[c]

SubscribeLater(c) == listeners' = listeners
Subscribe(c) == listeners' = [listeners EXCEPT ![c] = @ + 1]

\* The resync goes to whoever is subscribed, then the backlog to this socket,
\* and only then it subscribes.  The heartbeats carry nothing and are left out.
Hello(c) ==
  /\ open[c] /\ FirstHello(c)
  /\ helloReceived' = [helloReceived EXCEPT ![c] = TRUE]
  /\ LET from == ResumeSeq(c)
         resync(d) == IF DidBufferEvictBefore(from) /\ open[d]
                      THEN [k \in 1..listeners[d] |-> Resync] ELSE <<>>
         backlog(d) == IF d = c THEN Replay(from) ELSE <<>>
     IN wire' = [d \in Clients |-> wire[d] \o resync(d) \o backlog(d)]
  /\ Subscribe(c)
  /\ UNCHANGED <<runVars, open, connects, seen, told, storeVars>>

Receive(c) ==
  /\ wire[c] # <<>>
  /\ wire' = [wire EXCEPT ![c] = Tail(@)]
  /\ IF Head(wire[c]) = Resync
     THEN told' = [told EXCEPT ![c] = TRUE] /\ UNCHANGED seen
     ELSE seen' = [seen EXCEPT ![c] = Append(@, Head(wire[c]))] /\ UNCHANGED told
  /\ UNCHANGED <<runVars, open, helloReceived, listeners, connects, storeVars>>

\* The connection ends, with what was on the wire; onClose unsubscribes once.
Drop(c) ==
  /\ open[c]
  /\ open' = [open EXCEPT ![c] = FALSE]
  /\ listeners' = [listeners EXCEPT ![c] = IF @ = 0 THEN 0 ELSE @ - 1]
  /\ wire' = [wire EXCEPT ![c] = <<>>]
  /\ UNCHANGED <<runVars, helloReceived, connects, seen, told, storeVars>>

-----------------------------------------------------------------------------
(* The persister: inserts run on a pool and end in any order.              *)

OnConflictDoNothing(f) == events[f.seq] = None

Insert(f) ==
  /\ inserting' = inserting \ {f}
  /\ events' = IF OnConflictDoNothing(f) THEN [events EXCEPT ![f.seq] = f] ELSE events
  /\ UNCHANGED <<runVars, clientVars, wire>>

\* logged and swallowed
InsertFails(f) ==
  /\ inserting' = inserting \ {f}
  /\ UNCHANGED <<runVars, clientVars, wire, events>>

-----------------------------------------------------------------------------
Init ==
  /\ known = FALSE /\ nextSeq = 0 /\ ringBuffer = <<>>
  /\ log = <<>> /\ finished = FALSE /\ disposed = FALSE
  /\ open = [c \in Clients |-> FALSE]
  /\ helloReceived = [c \in Clients |-> FALSE]
  /\ listeners = [c \in Clients |-> 0]
  /\ connects = [c \in Clients |-> 0]
  /\ wire = [c \in Clients |-> <<>>]
  /\ seen = [c \in Clients |-> <<>>]
  /\ told = [c \in Clients |-> FALSE]
  /\ inserting = {}
  /\ events = [s \in 0..MaxFrames - 1 |-> None]

Next ==
  \/ WorkflowPublishes \/ ReviewerDecides \/ Finish \/ Dispose
  \/ \E c \in Clients :
       \/ \E fresh \in BOOLEAN : Connect(c, fresh)
       \/ Hello(c) \/ Receive(c) \/ Drop(c)
  \/ \E f \in inserting : Insert(f) \/ InsertFails(f)

Spec == Init /\ [][Next]_vars

-----------------------------------------------------------------------------
(* Properties.                                                             *)

TypeOK ==
  /\ known \in BOOLEAN /\ finished \in BOOLEAN /\ disposed \in BOOLEAN
  /\ nextSeq \in 0..MaxFrames
  /\ ringBuffer \in Seq(Frames) /\ Len(ringBuffer) <= MaxBufferSize
  /\ log \in Seq(Frames)
  /\ open \in [Clients -> BOOLEAN]
  /\ helloReceived \in [Clients -> BOOLEAN]
  /\ listeners \in [Clients -> {0, 1}]
  /\ connects \in [Clients -> 0..MaxConnects]
  /\ wire \in [Clients -> Seq(Frames \union {Resync})]
  /\ seen \in [Clients -> Seq(Frames)]
  /\ told \in [Clients -> BOOLEAN]
  /\ inserting \subseteq Frames
  /\ events \in [0..MaxFrames - 1 -> Frames \union {None}]

\* a run forgotten by dispose that a late decision brought back
Reborn == \E i \in 1..Len(log) : log[i].epoch = 1

\* the client has the frame, or is about to receive it
Reaches(c, f) == f \in Range(seen[c]) \union Range(wire[c])

\* A client that said hello and is still subscribed has, or is about to
\* receive, the newest frame: nothing falls between the replay and the
\* subscription.
SubscriberIsCurrent ==
  \A c \in Clients :
    (open[c] /\ helloReceived[c] /\ known /\ ~Reborn) => log # <<>> /\ Reaches(c, Last(log))

\* what a client has of the timeline and what is on its way to it
Stream(c) == (Range(seen[c]) \union Range(wire[c])) \ {Resync}

\* the frames before f, of its epoch, that are not among those had
Missing(had, f) == {i \in 1..f.id - 1 : log[i].epoch = f.epoch /\ log[i] \notin had}

\* The i-th frame continues what is had: a frame of its epoch, or nothing.
Continues(had, i) ==
  \/ \A g \in had : g.id > i
  \/ \E g \in had : g.id < i /\ g.epoch = log[i].epoch

\* Over any number of lost connections and resumes, a client misses only frames
\* that the ring buffer had evicted.
GapsAreEvictions ==
  \A c \in Clients : \A f \in Stream(c) : \A i \in Missing(Stream(c), f) :
    Continues(Stream(c), i) => i <= Len(log) - MaxBufferSize

\* While the run was not brought back, a published frame whose insert is over
\* is in the audit trail under its own number or leaves that number free.
AuditGapsAreVisible ==
  ~Reborn =>
    \A i \in 1..Len(log) :
      log[i] \notin inserting => events[log[i].seq] \in {log[i], None}

\* Each client reads the log in order and at most once, and nothing stored is
\* ever replaced.
Log == INSTANCE TimelineLog WITH
  Readers <- Clients,
  MaxLength <- MaxFrames,
  length <- Len(log),
  read <- [c \in Clients |-> [k \in 1..Len(seen[c]) |-> seen[c][k].id]],
  stored <- {events[s].id : s \in {q \in 0..MaxFrames - 1 : events[q] # None}}

StreamsFollowTheLog == Log!Spec

\* What the envelope says of seq: monotonic per run.
SequenceIsMonotonic ==
  \A i \in 1..Len(log) - 1 : log[i].seq < log[i + 1].seq

\* What handleHello says of resync: it informs the client whose backlog has a
\* hole in it.
HolesAreAnnounced ==
  \A c \in Clients : \A f \in Range(seen[c]) :
    (f.epoch = 0 /\ Missing(Range(seen[c]), f) # {}) => told[c]

\* What the onPersist comment says: inserts are awaited and sequential.
StoredInSequence ==
  \A f \in inserting : \A s \in 0..MaxFrames - 1 :
    (events[s] # None /\ f.epoch = 0 /\ events[s].epoch = 0) => events[s].id < f.id

\* What publish says of an invalid frame: the run state is terminated.
FailureIsTheEnd ==
  \A i \in 1..Len(log) - 1 : log[i].type # "run.failed"

=============================================================================
