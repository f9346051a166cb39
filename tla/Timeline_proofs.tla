--------------------------- MODULE Timeline_proofs ---------------------------
(***************************************************************************)
(* Proofs about Timeline, for any clients, any buffer and any number of    *)
(* frames: what is stored is what was published, and each client's stream  *)
(* is a part of the log in order.                                          *)
(***************************************************************************)
EXTENDS Timeline, SequenceTheorems, WellFoundedInduction, TLAPS

USE TimelineAssumption DEF TimelineAssumption

-----------------------------------------------------------------------------
\* The counter counts what the run published since it was last forgotten.
LogInv ==
  /\ disposed \in BOOLEAN
  /\ log \in Seq(Frames) /\ Len(log) <= MaxFrames
  /\ nextSeq \in Nat /\ nextSeq <= Len(log)
  /\ ~disposed => nextSeq = Len(log)
  /\ \A i \in 1..Len(log) : log[i].epoch = 0 => log[i].seq = i - 1
  /\ ~disposed => ~Reborn

\* Only published frames are inserted. As long as no number was given twice,
\* the row of a number is the frame of that number.
StoreInv ==
  /\ \A f \in inserting : \E i \in 1..Len(log) : f = log[i]
  /\ events \in [0..MaxFrames - 1 -> Frames \union {None}]
  /\ ~Reborn =>
       \A s \in 0..MaxFrames - 1 :
         events[s] = None \/ (s + 1 \in 1..Len(log) /\ events[s] = log[s + 1])

AuditInv == LogInv /\ StoreInv

LEMMA FrameFields ==
  ASSUME NEW f \in Frames
  PROVE  f.epoch \in {0, 1} /\ f.seq \in 0..MaxFrames - 1
  BY DEF Frames

\* What every step but a publication leaves alone.
LEMMA LogUntouched ==
  ASSUME AuditInv, UNCHANGED <<nextSeq, log, disposed, inserting, events>>
  PROVE  AuditInv'
  BY DEF AuditInv, LogInv, StoreInv, Reborn

-----------------------------------------------------------------------------
(* publish                                                                 *)

LEMMA EmitKeeps ==
  ASSUME AuditInv, NEW type \in Types, Len(log) < MaxFrames,
         Emit(NextFrame(type)), nextSeq' = nextSeq + 1, UNCHANGED disposed
  PROVE  AuditInv'
  <1> DEFINE f == NextFrame(type)
  <1>1. /\ f \in Frames /\ f.seq = nextSeq /\ f.epoch = (IF disposed THEN 1 ELSE 0)
    BY DEF AuditInv, LogInv, NextFrame, Frames
  <1>2. log' = Append(log, f) /\ inserting' \subseteq inserting \union {f} /\ events' = events
    BY DEF Emit, Persist
  <1> HIDE DEF f
  <1>3. /\ log' \in Seq(Frames) /\ Len(log') = Len(log) + 1 /\ Len(log) \in Nat
        /\ \A i \in 1..Len(log) : log'[i] = log[i]
        /\ log'[Len(log')] = f
    BY <1>1, <1>2, AppendProperties DEF AuditInv, LogInv
  <1>4. Reborn => Reborn'
    BY <1>3 DEF Reborn
  <1>5. ~disposed => ~Reborn'
    BY <1>1, <1>3 DEF Reborn, AuditInv, LogInv
  <1>6. \A i \in 1..Len(log') : log'[i].epoch = 0 => log'[i].seq = i - 1
    <2> SUFFICES ASSUME NEW i \in 1..Len(log'), log'[i].epoch = 0
                 PROVE  log'[i].seq = i - 1
      OBVIOUS
    <2>1. CASE i \in 1..Len(log)
      BY <1>3, <2>1 DEF AuditInv, LogInv
    <2>2. CASE i = Len(log')
      BY <1>1, <1>3, <2>2 DEF AuditInv, LogInv
    <2> QED
      BY <1>3, <2>1, <2>2
  <1>7. LogInv'
    BY <1>3, <1>5, <1>6 DEF AuditInv, LogInv
  <1>8. \A g \in inserting' : \E i \in 1..Len(log') : g = log'[i]
    <2> SUFFICES ASSUME NEW g \in inserting'
                 PROVE  \E i \in 1..Len(log') : g = log'[i]
      OBVIOUS
    <2>1. CASE g = f
      BY <1>3, <2>1
    <2>2. CASE g \in inserting
      <3>1. PICK i \in 1..Len(log) : g = log[i]
        BY <2>2 DEF AuditInv, StoreInv
      <3> QED
        BY <1>3, <3>1
    <2> QED
      BY <1>2, <2>1, <2>2
  <1>9. ~Reborn' =>
          \A s \in 0..MaxFrames - 1 :
            events'[s] = None \/ (s + 1 \in 1..Len(log') /\ events'[s] = log'[s + 1])
    BY <1>2, <1>3, <1>4 DEF AuditInv, StoreInv
  <1> QED
    BY <1>2, <1>7, <1>8, <1>9 DEF AuditInv, StoreInv

LEMMA PublishKeeps ==
  ASSUME AuditInv, NEW type \in Types, Publish(type), UNCHANGED disposed
  PROVE  AuditInv'
  BY EmitKeeps DEF Publish

LEMMA DisposeKeeps ==
  ASSUME AuditInv, Dispose
  PROVE  AuditInv'
  <1>1. disposed' = TRUE /\ nextSeq' = 0 /\ UNCHANGED <<log, inserting, events>>
    BY DEF Dispose, storeVars
  <1>2. LogInv'
    BY <1>1 DEF AuditInv, LogInv
  <1> QED
    BY <1>1, <1>2 DEF AuditInv, StoreInv, Reborn

-----------------------------------------------------------------------------
(* The persister.                                                          *)

LEMMA InsertKeeps ==
  ASSUME AuditInv, NEW f \in inserting, Insert(f) \/ InsertFails(f)
  PROVE  AuditInv'
  <1>1. /\ inserting' \subseteq inserting /\ UNCHANGED <<nextSeq, log, disposed>>
        /\ \/ events' = events
           \/ events[f.seq] = None /\ events' = [events EXCEPT ![f.seq] = f]
    BY DEF Insert, InsertFails, runVars, OnConflictDoNothing
  <1>2. PICK i \in 1..Len(log) : f = log[i]
    BY DEF AuditInv, StoreInv
  <1>3. f \in Frames /\ f.seq \in 0..MaxFrames - 1
    <2>1. f \in Frames
      BY <1>2 DEF AuditInv, LogInv
    <2> QED
      BY <2>1, FrameFields
  <1>4. LogInv' /\ Reborn' = Reborn
    BY <1>1 DEF AuditInv, LogInv, Reborn
  <1>5. events' \in [0..MaxFrames - 1 -> Frames \union {None}]
    BY <1>1, <1>3 DEF AuditInv, StoreInv
  <1>6. ~Reborn => f.seq + 1 = i
    <2>1. ~Reborn => f.epoch = 0
      BY <1>2, <1>3, FrameFields DEF Reborn
    <2> QED
      BY <1>2, <1>3, <2>1 DEF AuditInv, LogInv
  <1>7. ~Reborn =>
          \A s \in 0..MaxFrames - 1 :
            events'[s] = None \/ (s + 1 \in 1..Len(log) /\ events'[s] = log[s + 1])
    <2> SUFFICES ASSUME ~Reborn, NEW s \in 0..MaxFrames - 1
                 PROVE  events'[s] = None \/ (s + 1 \in 1..Len(log) /\ events'[s] = log[s + 1])
      OBVIOUS
    <2>1. events[s] = None \/ (s + 1 \in 1..Len(log) /\ events[s] = log[s + 1])
      BY DEF AuditInv, StoreInv
    <2>2. CASE events'[s] = events[s]
      BY <2>1, <2>2
    <2>3. CASE s = f.seq /\ events'[s] = f
      BY <1>2, <1>3, <1>6, <2>3
    <2>4. events \in [0..MaxFrames - 1 -> Frames \union {None}]
      BY DEF AuditInv, StoreInv
    <2> QED
      BY <1>1, <1>3, <2>2, <2>3, <2>4
  <1> QED
    BY <1>1, <1>4, <1>5, <1>7 DEF AuditInv, StoreInv

-----------------------------------------------------------------------------
LEMMA AuditInitially == Init => AuditInv
  <1> SUFFICES ASSUME Init
               PROVE  AuditInv
    OBVIOUS
  <1>1. LogInv /\ ~Reborn
    <2>1. log = <<>> /\ nextSeq = 0 /\ disposed = FALSE
      BY DEF Init
    <2>2. log \in Seq(Frames) /\ Len(log) = 0
      BY <2>1, EmptySeq
    <2>3. \A i \in 1..Len(log) : FALSE
      BY <2>2
    <2>4. ~Reborn
      BY <2>3 DEF Reborn
    <2>5. /\ nextSeq = Len(log) /\ nextSeq \in Nat /\ nextSeq <= Len(log)
          /\ Len(log) <= MaxFrames
      BY <2>1, <2>2
    <2>6. \A i \in 1..Len(log) : log[i].epoch = 0 => log[i].seq = i - 1
      BY <2>3
    <2>7. disposed \in BOOLEAN
      BY <2>1
    <2> QED
      BY <2>2, <2>4, <2>5, <2>6, <2>7, Zenon DEF LogInv
  <1>2. events \in [0..MaxFrames - 1 -> Frames \union {None}]
    BY DEF Init
  <1> QED
    BY <1>1, <1>2 DEF Init, AuditInv, StoreInv

LEMMA AuditInductive == AuditInv /\ [Next]_vars => AuditInv'
  <1> SUFFICES ASSUME AuditInv, [Next]_vars
               PROVE  AuditInv'
    OBVIOUS
  <1>1. CASE WorkflowPublishes
    <2>1. \/ Publish("step")
          \/ Len(log) < MaxFrames /\ Emit(NextFrame("run.failed")) /\ nextSeq' = nextSeq + 1
      BY <1>1 DEF WorkflowPublishes, PublishSyntheticFailure, TakeSeq
    <2> QED
      BY <1>1, <2>1, PublishKeeps, EmitKeeps DEF WorkflowPublishes, Types
  <1>2. CASE ReviewerDecides
    BY <1>2, PublishKeeps DEF ReviewerDecides, Types
  <1>3. CASE Finish
    BY <1>3, PublishKeeps DEF Finish, Types
  <1>4. CASE Dispose
    BY <1>4, DisposeKeeps
  <1>5. ASSUME NEW c \in Clients, NEW fresh \in BOOLEAN,
               Connect(c, fresh) \/ Hello(c) \/ Receive(c) \/ Drop(c)
        PROVE  AuditInv'
    BY <1>5, LogUntouched DEF Connect, Hello, Receive, Drop, runVars, storeVars
  <1>6. ASSUME NEW f \in inserting, Insert(f) \/ InsertFails(f)
        PROVE  AuditInv'
    BY <1>6, InsertKeeps
  <1>7. CASE UNCHANGED vars
    BY <1>7, LogUntouched DEF vars, runVars, storeVars
  <1> QED
    BY <1>1, <1>2, <1>3, <1>4, <1>5, <1>6, <1>7 DEF Next

\* In whatever order the inserts end, and whichever fail, a row of the audit
\* trail is the frame that was published under its number, until a decision
\* brings a forgotten run back.
THEOREM RowsAreTheirFrames == Spec => []AuditGapsAreVisible
  <1>1. AuditInv => AuditGapsAreVisible
    <2> SUFFICES ASSUME AuditInv, ~Reborn, NEW i \in 1..Len(log)
                 PROVE  events[log[i].seq] \in {log[i], None}
      BY DEF AuditGapsAreVisible
    <2>1. log[i].epoch = 0 /\ log[i].seq \in 0..MaxFrames - 1
      <3>1. log[i] \in Frames
        BY DEF AuditInv, LogInv
      <3> QED
        BY <3>1, FrameFields DEF Reborn
    <2>2. log[i].seq + 1 = i
      BY <2>1 DEF AuditInv, LogInv
    <2> QED
      BY <2>1, <2>2 DEF AuditInv, StoreInv
  <1> QED
    BY <1>1, AuditInitially, AuditInductive, PTL DEF Spec

-----------------------------------------------------------------------------
(* filter on the ring buffer. What holds of no number or is passed on from *)
(* one to the next is shown by a smallest counterexample.                  *)

LEMMA SmallestOf ==
  ASSUME NEW S, S \subseteq Nat, S # {}
  PROVE  \E m \in S : \A k \in S : m <= k
  <1> DEFINE less == {ss \in Nat \X Nat : ss[1] < ss[2]}
  <1>1. IsWellFoundedOn(less, Nat)
    BY NatLessThanWellFounded DEF OpToRel
  <1> HIDE DEF less
  <1>2. PICK m \in S : \A k \in S : <<k, m>> \notin less
    BY <1>1, WFMin
  <1>3. ASSUME NEW k \in S
        PROVE  m <= k
    <2>1. <<k, m>> \notin less
      BY <1>2
    <2> QED
      BY <2>1 DEF less
  <1> QED
    BY <1>3

Increasing(s) == \A j, k \in 1..Len(s) : j < k => s[j].id < s[k].id

\* kept, up to the m-th frame of the buffer
KeptUpTo(f, m, seq) ==
  f = [n \in 0..m |->
         IF n = 0 THEN <<>>
         ELSE IF ringBuffer[n].seq > seq THEN Append(f[n - 1], ringBuffer[n])
              ELSE f[n - 1]]

LEMMA KeptExists ==
  ASSUME NEW N \in Nat, NEW seq
  PROVE  \E f : KeptUpTo(f, N, seq)
  <1> DEFINE without == {m \in Nat : ~ \E f : KeptUpTo(f, m, seq)}
  <1>1. 0 \notin without
    <2> DEFINE f == [n \in 0..0 |-> <<>>]
    <2>1. KeptUpTo(f, 0, seq)
      BY DEF KeptUpTo
    <2> QED
      BY <2>1
  <1>2. ASSUME NEW m \in Nat, m + 1 \in without
        PROVE  m \in without
    <2> SUFFICES ASSUME NEW g, KeptUpTo(g, m, seq)
                 PROVE  \E f : KeptUpTo(f, m + 1, seq)
      BY <1>2
    <2> DEFINE next == IF ringBuffer[m + 1].seq > seq THEN Append(g[m], ringBuffer[m + 1]) ELSE g[m]
               f == [n \in 0..m + 1 |-> IF n = m + 1 THEN next ELSE g[n]]
    <2>1. f[m + 1] = next /\ \A n \in 0..m : f[n] = g[n]
      OBVIOUS
    <2>2. \A n \in 0..m :
            g[n] = IF n = 0 THEN <<>>
                   ELSE IF ringBuffer[n].seq > seq THEN Append(g[n - 1], ringBuffer[n])
                        ELSE g[n - 1]
      BY DEF KeptUpTo
    <2>3. \A n \in 0..m + 1 :
            f[n] = IF n = 0 THEN <<>>
                   ELSE IF ringBuffer[n].seq > seq THEN Append(f[n - 1], ringBuffer[n])
                        ELSE f[n - 1]
      <3> TAKE n \in 0..m + 1
      <3>1. CASE n = m + 1
        <4>1. n # 0 /\ n - 1 = m /\ m \in 0..m
          BY <3>1
        <4> HIDE DEF f
        <4> QED
          BY <2>1, <3>1, <4>1
      <3>2. CASE n \in 0..m
        <4>1. n # 0 => n - 1 \in 0..m
          BY <3>2
        <4> HIDE DEF f
        <4> QED
          BY <2>1, <2>2, <3>2, <4>1
      <3> QED
        BY <3>1, <3>2
    <2>4. f = [n \in 0..m + 1 |-> f[n]]
      OBVIOUS
    <2> HIDE DEF f
    <2>5. KeptUpTo(f, m + 1, seq)
      BY <2>3, <2>4 DEF KeptUpTo
    <2> QED
      BY <2>5
  <1> HIDE DEF without
  <1>3. without = {}
    <2> SUFFICES ASSUME without # {}
                 PROVE  FALSE
      OBVIOUS
    <2>1. without \subseteq Nat
      BY DEF without
    <2>2. PICK m \in without : \A k \in without : m <= k
      BY <2>1, SmallestOf
    <2>3. m - 1 \in Nat /\ (m - 1) + 1 = m
      BY <1>1, <2>1
    <2>4. m - 1 \in without
      BY <1>2, <2>3
    <2> QED
      BY <2>1, <2>2, <2>4
  <1> QED
    BY <1>3 DEF without

\* What is kept of the first n frames.
PartOf(s, n, seq) ==
  /\ s \in Seq(Frames)
  /\ Increasing(s)
  /\ \A k \in 1..Len(s) : \E j \in 1..n : s[k] = ringBuffer[j] /\ ringBuffer[j].seq > seq
  /\ \A j \in 1..n : ringBuffer[j].seq > seq => \E k \in 1..Len(s) : s[k] = ringBuffer[j]

LEMMA PartsAreKept ==
  ASSUME NEW seq, NEW kept, ringBuffer \in Seq(Frames), Increasing(ringBuffer),
         KeptUpTo(kept, Len(ringBuffer), seq)
  PROVE  \A n \in 0..Len(ringBuffer) : PartOf(kept[n], n, seq)
  <1> DEFINE N == Len(ringBuffer)
  <1>1. N \in Nat
    OBVIOUS
  <1>2. KeptUpTo(kept, N, seq)
    OBVIOUS
  <1> HIDE DEF N
  <1> DEFINE wrong == {n \in 0..N : ~PartOf(kept[n], n, seq)}
  <1>4. 0 \notin wrong
    <2>1. kept[0] = <<>>
      BY <1>1, <1>2 DEF KeptUpTo
    <2>2. kept[0] \in Seq(Frames) /\ Len(kept[0]) = 0
      BY <2>1, EmptySeq
    <2> QED
      BY <2>2 DEF PartOf, Increasing
  <1>5. ASSUME NEW n \in 1..N, n \in wrong
        PROVE  n - 1 \in wrong
    <2> SUFFICES ASSUME PartOf(kept[n - 1], n - 1, seq)
                 PROVE  PartOf(kept[n], n, seq)
      BY <1>1, <1>5
    <2> DEFINE s == kept[n - 1]
    <2>1. kept[n] = IF ringBuffer[n].seq > seq THEN Append(s, ringBuffer[n]) ELSE s
      <3>1. n \in 0..N /\ n # 0
        BY <1>1
      <3>2. \A k \in 0..N :
              kept[k] = IF k = 0 THEN <<>>
                        ELSE IF ringBuffer[k].seq > seq THEN Append(kept[k - 1], ringBuffer[k])
                             ELSE kept[k - 1]
        BY <1>2 DEF KeptUpTo
      <3> QED
        BY <3>1, <3>2
    <2>2. s \in Seq(Frames) /\ Len(s) \in Nat /\ ringBuffer[n] \in Frames
      BY DEF PartOf, N
    <2>3. CASE ~(ringBuffer[n].seq > seq)
      <3>1. 1..n - 1 \subseteq 1..n /\ \A j \in 1..n : j = n \/ j \in 1..n - 1
        BY <1>1
      <3>2. \A j \in 1..n : ringBuffer[j].seq > seq => \E k \in 1..Len(s) : s[k] = ringBuffer[j]
        BY <2>3, <3>1 DEF PartOf
      <3> QED
        BY <2>1, <2>3, <3>1, <3>2 DEF PartOf
    <2>4. CASE ringBuffer[n].seq > seq
      <3> DEFINE t == Append(s, ringBuffer[n])
      <3>1. /\ kept[n] = t /\ t \in Seq(Frames) /\ Len(t) = Len(s) + 1
            /\ t[Len(s) + 1] = ringBuffer[n]
            /\ \A k \in 1..Len(s) : t[k] = s[k]
        BY <2>1, <2>2, <2>4, AppendProperties
      <3> HIDE DEF t
      <3>2. \A k \in 1..Len(s) : \E j \in 1..n - 1 : s[k] = ringBuffer[j] /\ ringBuffer[j].seq > seq
        BY DEF PartOf
      <3>3. \A k \in 1..Len(t) : \E j \in 1..n : t[k] = ringBuffer[j] /\ ringBuffer[j].seq > seq
        <4> SUFFICES ASSUME NEW k \in 1..Len(t)
                     PROVE  \E j \in 1..n : t[k] = ringBuffer[j] /\ ringBuffer[j].seq > seq
          OBVIOUS
        <4>1. CASE k \in 1..Len(s)
          <5>1. PICK j \in 1..n - 1 : s[k] = ringBuffer[j] /\ ringBuffer[j].seq > seq
            BY <3>2, <4>1
          <5>2. j \in 1..n
            BY <1>1
          <5> QED
            BY <3>1, <4>1, <5>1, <5>2
        <4>2. CASE k = Len(s) + 1
          <5>1. n \in 1..n
            BY <1>1
          <5> QED
            BY <2>4, <3>1, <4>2, <5>1
        <4> QED
          BY <2>2, <3>1, <4>1, <4>2
      <3>4. Increasing(t)
        <4> SUFFICES ASSUME NEW j \in 1..Len(t), NEW k \in 1..Len(t), j < k
                     PROVE  t[j].id < t[k].id
          BY DEF Increasing
        <4>1. j \in 1..Len(s)
          BY <2>2, <3>1
        <4>2. CASE k \in 1..Len(s)
          BY <3>1, <4>1, <4>2 DEF PartOf, Increasing
        <4>3. CASE k = Len(s) + 1
          <5>1. PICK i \in 1..n - 1 : s[j] = ringBuffer[i]
            BY <3>2, <4>1
          <5>2. i \in 1..Len(ringBuffer) /\ n \in 1..Len(ringBuffer) /\ i < n
            BY <1>1 DEF N
          <5> QED
            BY <3>1, <4>1, <4>3, <5>1, <5>2 DEF Increasing
        <4> QED
          BY <2>2, <3>1, <4>2, <4>3
      <3>5. \A j \in 1..n : ringBuffer[j].seq > seq => \E k \in 1..Len(t) : t[k] = ringBuffer[j]
        <4> SUFFICES ASSUME NEW j \in 1..n, ringBuffer[j].seq > seq
                     PROVE  \E k \in 1..Len(t) : t[k] = ringBuffer[j]
          OBVIOUS
        <4>1. CASE j = n
          <5>1. Len(s) + 1 \in 1..Len(t)
            BY <2>2, <3>1
          <5> QED
            BY <3>1, <4>1, <5>1
        <4>2. CASE j \in 1..n - 1
          <5>1. PICK k \in 1..Len(s) : s[k] = ringBuffer[j]
            BY <4>2 DEF PartOf
          <5>2. k \in 1..Len(t)
            BY <2>2, <3>1
          <5> QED
            BY <3>1, <5>1, <5>2
        <4> QED
          BY <1>1, <4>1, <4>2
      <3> QED
        BY <3>1, <3>3, <3>4, <3>5 DEF PartOf
    <2> QED
      BY <2>3, <2>4
  <1> HIDE DEF wrong
  <1>6. wrong = {}
    <2> SUFFICES ASSUME wrong # {}
                 PROVE  FALSE
      OBVIOUS
    <2>1. wrong \subseteq 0..N /\ wrong \subseteq Nat
      BY <1>1 DEF wrong
    <2>2. PICK n \in wrong : \A k \in wrong : n <= k
      BY <2>1, SmallestOf
    <2>3. n \in 1..N
      BY <1>1, <1>4, <2>1
    <2> QED
      BY <1>5, <2>1, <2>2, <2>3
  <1> QED
    BY <1>6 DEF wrong, N

LEMMA KeptIsPart ==
  ASSUME NEW seq, ringBuffer \in Seq(Frames), Increasing(ringBuffer)
  PROVE  PartOf(FramesAfter(seq), Len(ringBuffer), seq)
  <1> DEFINE N == Len(ringBuffer)
             kept == CHOOSE f : KeptUpTo(f, N, seq)
  <1>1. N \in Nat
    OBVIOUS
  <1>2. KeptUpTo(kept, N, seq)
    BY <1>1, KeptExists
  <1>3. FramesAfter(seq) = kept[N]
    BY DEF FramesAfter, KeptUpTo
  <1> HIDE DEF kept
  <1> QED
    BY <1>1, <1>2, <1>3, PartsAreKept

-----------------------------------------------------------------------------
(* The streams. Within an epoch, numbers grow with the places in the log;  *)
(* the buffer holds frames of the current epoch; what a client has, and    *)
(* what is on its way to it after that, are places of the log in order.    *)

Epoch == IF disposed THEN 1 ELSE 0

PlacesInv ==
  /\ \A i \in 1..Len(log) : log[i].id = i
  /\ \A i, j \in 1..Len(log) : i < j =>
       /\ log[i].epoch <= log[j].epoch
       /\ log[i].epoch = log[j].epoch => log[i].seq < log[j].seq
  /\ \A i \in 1..Len(log) :
       /\ log[i].epoch <= Epoch
       /\ log[i].epoch = Epoch => log[i].seq < nextSeq

Published(f) == f.id \in 1..Len(log) /\ f = log[f.id]

BufferInv ==
  /\ ringBuffer \in Seq(Frames)
  /\ Increasing(ringBuffer)
  /\ \A k \in 1..Len(ringBuffer) : Published(ringBuffer[k]) /\ ringBuffer[k].epoch = Epoch

Sent == Frames \union {Resync}

InOrder(s, w) ==
  /\ s \in Seq(Frames) /\ w \in Seq(Sent)
  /\ Increasing(s)
  /\ \A k \in 1..Len(s) : Published(s[k])
  /\ \A k \in 1..Len(w) : w[k] # Resync =>
       /\ Published(w[k])
       /\ \A j \in 1..Len(s) : s[j].id < w[k].id
       /\ \A j \in 1..k - 1 : w[j] # Resync => w[j].id < w[k].id

SocketInv ==
  /\ open \in [Clients -> BOOLEAN] /\ helloReceived \in [Clients -> BOOLEAN]
  /\ listeners \in [Clients -> {0, 1}]
  /\ DOMAIN wire = Clients /\ DOMAIN seen = Clients
  /\ wire = [c \in Clients |-> wire[c]] /\ seen = [c \in Clients |-> seen[c]]
  /\ \A c \in Clients : listeners[c] = 1 => open[c] /\ helloReceived[c]
  /\ \A c \in Clients : ~(open[c] /\ helloReceived[c]) => wire[c] = <<>>

OrderInv == \A c \in Clients : InOrder(seen[c], wire[c])

StreamsInv == PlacesInv /\ BufferInv /\ SocketInv /\ OrderInv

LEMMA ResyncIsNoFrame == Resync \notin Frames
  <1>1. \A f \in Frames : f.type \in Types
    BY DEF Frames
  <1>2. Resync.type \notin Types
    BY DEF Resync, Types
  <1> QED
    BY <1>1, <1>2

LEMMA FrameOfWire ==
  ASSUME NEW s, NEW w, InOrder(s, w), NEW k \in 1..Len(w), w[k] # Resync
  PROVE  w[k] \in Frames
  BY DEF InOrder, Sent

LEMMA EpochType ==
  AuditInv => Epoch \in {0, 1} /\ log \in Seq(Frames) /\ Len(log) \in Nat /\ nextSeq \in Nat
  BY DEF AuditInv, LogInv, Epoch

-----------------------------------------------------------------------------
(* Sequences that a step builds.                                           *)

LEMMA Copies ==
  ASSUME NEW n \in {0, 1}, NEW e, NEW S, e \in S
  PROVE  /\ [k \in 1..n |-> e] \in Seq(S)
         /\ Len([k \in 1..n |-> e]) = n
         /\ \A k \in 1..n : [j \in 1..n |-> e][k] = e
  OBVIOUS

\* Frames that are on the wire stay in order when resyncs are sent.
LEMMA ResyncsAreInOrder ==
  ASSUME NEW s, NEW w, InOrder(s, w), NEW g \in Seq({Resync})
  PROVE  InOrder(s, w \o g)
  <1>1. g \in Seq(Sent) /\ w \in Seq(Sent)
    <2>1. {Resync} \subseteq Sent
      BY DEF Sent
    <2> QED
      BY <2>1, SeqMonotonic DEF InOrder
  <1> DEFINE v == w \o g
  <1>2. /\ v \in Seq(Sent) /\ Len(v) = Len(w) + Len(g)
        /\ Len(w) \in Nat /\ Len(g) \in Nat
        /\ \A k \in 1..Len(w) + Len(g) : v[k] = IF k <= Len(w) THEN w[k] ELSE g[k - Len(w)]
    BY <1>1, ConcatProperties, LenProperties
  <1> HIDE DEF v
  <1>3. \A k \in 1..Len(v) : v[k] # Resync => k \in 1..Len(w) /\ v[k] = w[k]
    <2> SUFFICES ASSUME NEW k \in 1..Len(v), v[k] # Resync
                 PROVE  k \in 1..Len(w) /\ v[k] = w[k]
      OBVIOUS
    <2>1. CASE k <= Len(w)
      BY <1>2, <2>1
    <2>2. CASE ~(k <= Len(w))
      <3>1. k - Len(w) \in 1..Len(g)
        BY <1>2, <2>2
      <3>2. g[k - Len(w)] = Resync
        BY <3>1, ElementOfSeq
      <3> QED
        BY <1>2, <2>2, <3>2
    <2> QED
      BY <2>1, <2>2
  <1>4. \A k \in 1..Len(v) : v[k] # Resync =>
          /\ Published(v[k])
          /\ \A j \in 1..Len(s) : s[j].id < v[k].id
          /\ \A j \in 1..k - 1 : v[j] # Resync => v[j].id < v[k].id
    <2> SUFFICES ASSUME NEW k \in 1..Len(v), v[k] # Resync
                 PROVE  /\ Published(v[k])
                        /\ \A j \in 1..Len(s) : s[j].id < v[k].id
                        /\ \A j \in 1..k - 1 : v[j] # Resync => v[j].id < v[k].id
      OBVIOUS
    <2>1. k \in 1..Len(w) /\ v[k] = w[k]
      BY <1>3
    <2>2. \A j \in 1..k - 1 : j \in 1..Len(v) /\ j \in 1..Len(w)
      BY <1>2, <2>1
    <2> QED
      BY <1>3, <2>1, <2>2 DEF InOrder
  <1> QED
    BY <1>2, <1>4 DEF InOrder, v

\* A frame that is published now comes after all that were sent before.
LEMMA NewestIsInOrder ==
  ASSUME NEW s, NEW w, InOrder(s, w), log \in Seq(Frames), NEW f \in Frames,
         f.id = Len(log) + 1, log' = Append(log, f), NEW g \in Seq(Sent), Len(g) \in {0, 1},
         \A k \in 1..Len(g) : g[k] = f
  PROVE  InOrder(s, w)' /\ InOrder(s, w \o g)'
  <1>1. /\ log' \in Seq(Frames) /\ Len(log') = Len(log) + 1 /\ log'[Len(log) + 1] = f
        /\ \A i \in 1..Len(log) : log'[i] = log[i]
        /\ Len(log) \in Nat
    BY AppendProperties
  <1>2. \A e : Published(e) => Published(e)' /\ e.id < f.id
    BY <1>1 DEF Published
  <1>3. Published(f)'
    BY <1>1 DEF Published
  <1>4. InOrder(s, w)'
    BY <1>2 DEF InOrder, Increasing, Sent
  <1> DEFINE v == w \o g
  <1>5. /\ v \in Seq(Sent) /\ Len(v) = Len(w) + Len(g) /\ Len(w) \in Nat
        /\ \A k \in 1..Len(w) + Len(g) : v[k] = IF k <= Len(w) THEN w[k] ELSE g[k - Len(w)]
    BY ConcatProperties, LenProperties DEF InOrder
  <1> HIDE DEF v
  <1>6. \A k \in 1..Len(v) : (k \in 1..Len(w) /\ v[k] = w[k]) \/ (k = Len(w) + 1 /\ v[k] = f)
    <2> SUFFICES ASSUME NEW k \in 1..Len(v)
                 PROVE  (k \in 1..Len(w) /\ v[k] = w[k]) \/ (k = Len(w) + 1 /\ v[k] = f)
      OBVIOUS
    <2>1. CASE k <= Len(w)
      BY <1>5, <2>1
    <2>2. CASE ~(k <= Len(w))
      <3>1. k = Len(w) + 1 /\ 1 \in 1..Len(g) /\ k - Len(w) = 1
        BY <1>5, <2>2
      <3> QED
        BY <1>5, <2>2, <3>1
    <2> QED
      BY <2>1, <2>2
  <1>7. \A k \in 1..Len(v) : v[k] # Resync =>
          /\ Published(v[k])'
          /\ \A j \in 1..Len(s) : s[j].id < v[k].id
          /\ \A j \in 1..k - 1 : v[j] # Resync => v[j].id < v[k].id
    <2> SUFFICES ASSUME NEW k \in 1..Len(v), v[k] # Resync
                 PROVE  /\ Published(v[k])'
                        /\ \A j \in 1..Len(s) : s[j].id < v[k].id
                        /\ \A j \in 1..k - 1 : v[j] # Resync => v[j].id < v[k].id
      OBVIOUS
    <2>1. \A j \in 1..k - 1 : j \in 1..Len(w) /\ j \in 1..Len(v) /\ v[j] = w[j]
      <3> SUFFICES ASSUME NEW j \in 1..k - 1
                   PROVE  j \in 1..Len(w) /\ j \in 1..Len(v) /\ v[j] = w[j]
        OBVIOUS
      <3>1. j \in 1..Len(w) /\ j \in 1..Len(v)
        BY <1>5, <1>6
      <3> QED
        BY <1>6, <3>1, <1>5
    <2>2. CASE k \in 1..Len(w) /\ v[k] = w[k]
      <3> QED
        BY <1>2, <2>1, <2>2 DEF InOrder
    <2>3. CASE k = Len(w) + 1 /\ v[k] = f
      <3>1. \A j \in 1..k - 1 : w[j] # Resync => w[j].id < f.id
        BY <1>2, <2>1 DEF InOrder
      <3>2. \A j \in 1..Len(s) : s[j].id < f.id
        BY <1>2 DEF InOrder
      <3> QED
        BY <1>3, <2>1, <2>3, <3>1, <3>2
    <2> QED
      BY <1>6, <2>2, <2>3
  <1>8. InOrder(s, v)'
    BY <1>4, <1>5, <1>7 DEF InOrder
  <1> QED
    BY <1>4, <1>8 DEF v

\* A client takes a frame off the wire.
LEMMA ReceivedIsInOrder ==
  ASSUME NEW s, NEW w, InOrder(s, w), w # <<>>
  PROVE  /\ InOrder(s, Tail(w))
         /\ Head(w) # Resync =>
              /\ Head(w) \in Frames /\ Published(Head(w))
              /\ \A j \in 1..Len(s) : s[j].id < Head(w).id
              /\ InOrder(Append(s, Head(w)), Tail(w))
  <1> DEFINE t == Tail(w)
             h == Head(w)
  <1>1. /\ t \in Seq(Sent) /\ Len(t) = Len(w) - 1 /\ Len(w) \in Nat \ {0}
        /\ \A i \in 1..Len(t) : t[i] = w[i + 1]
        /\ h = w[1]
    BY HeadTailProperties, EmptySeq DEF InOrder
  <1>2. \A k \in 1..Len(t) : /\ k + 1 \in 1..Len(w)
                             /\ \A j \in 1..k - 1 : j \in 1..Len(t) /\ j + 1 \in 1..k
    BY <1>1
  <1> HIDE DEF t, h
  <1>3. \A k \in 1..Len(t) : t[k] # Resync =>
          /\ Published(t[k])
          /\ \A j \in 1..Len(s) : s[j].id < t[k].id
          /\ \A j \in 1..k - 1 : t[j] # Resync => t[j].id < t[k].id
    <2> SUFFICES ASSUME NEW k \in 1..Len(t), t[k] # Resync
                 PROVE  /\ Published(t[k])
                        /\ \A j \in 1..Len(s) : s[j].id < t[k].id
                        /\ \A j \in 1..k - 1 : t[j] # Resync => t[j].id < t[k].id
      OBVIOUS
    <2>1. k + 1 \in 1..Len(w) /\ t[k] = w[k + 1] /\ (k + 1) - 1 = k
      BY <1>1, <1>2
    <2>2. \A j \in 1..k - 1 : t[j] = w[j + 1] /\ j + 1 \in 1..k
      BY <1>1, <1>2
    <2> QED
      BY <2>1, <2>2 DEF InOrder
  <1>4. InOrder(s, t)
    BY <1>1, <1>3 DEF InOrder
  <1>5. ASSUME h # Resync
        PROVE  /\ h \in Frames /\ Published(h)
               /\ \A j \in 1..Len(s) : s[j].id < h.id
               /\ InOrder(Append(s, h), t)
    <2>1. 1 \in 1..Len(w)
      BY <1>1
    <2>2. h \in Frames /\ Published(h) /\ \A j \in 1..Len(s) : s[j].id < h.id
      BY <1>1, <1>5, <2>1, FrameOfWire DEF InOrder
    <2> DEFINE a == Append(s, h)
    <2>3. /\ a \in Seq(Frames) /\ Len(a) = Len(s) + 1 /\ a[Len(s) + 1] = h
          /\ Len(s) \in Nat /\ \A i \in 1..Len(s) : a[i] = s[i]
      BY <2>2, AppendProperties DEF InOrder
    <2> HIDE DEF a
    <2>4. \A k \in 1..Len(a) : (k \in 1..Len(s) /\ a[k] = s[k]) \/ (k = Len(s) + 1 /\ a[k] = h)
      BY <2>3
    <2>5. Increasing(a)
      <3> SUFFICES ASSUME NEW j \in 1..Len(a), NEW k \in 1..Len(a), j < k
                   PROVE  a[j].id < a[k].id
        BY DEF Increasing
      <3>1. j \in 1..Len(s) /\ a[j] = s[j]
        BY <2>3, <2>4
      <3> QED
        BY <2>2, <2>4, <3>1 DEF InOrder, Increasing
    <2>6. \A k \in 1..Len(a) : Published(a[k])
      BY <2>2, <2>4 DEF InOrder
    <2>7. \A k \in 1..Len(t) : t[k] # Resync => h.id < t[k].id
      <3> SUFFICES ASSUME NEW k \in 1..Len(t), t[k] # Resync
                   PROVE  h.id < t[k].id
        OBVIOUS
      <3>1. k + 1 \in 1..Len(w) /\ t[k] = w[k + 1] /\ 1 \in 1..(k + 1) - 1
        BY <1>1, <1>2
      <3> QED
        BY <1>1, <1>5, <3>1 DEF InOrder
    <2>8. \A k \in 1..Len(t) : t[k] # Resync => \A j \in 1..Len(a) : a[j].id < t[k].id
      BY <1>3, <2>4, <2>7
    <2>9. InOrder(a, t)
      BY <1>1, <1>3, <2>3, <2>5, <2>6, <2>8 DEF InOrder
    <2> QED
      BY <2>2, <2>9 DEF a
  <1> QED
    BY <1>4, <1>5 DEF t, h

\* What replay takes from the buffer comes after all the client has.
LEMMA BacklogIsLater ==
  ASSUME AuditInv, PlacesInv, BufferInv, NEW c \in Clients, InOrder(seen[c], <<>>)
  PROVE  InOrder(seen[c], Replay(ResumeSeq(c)))
  <1> DEFINE s == seen[c]
             from == ResumeSeq(c)
             b == Replay(from)
  <1>1. PartOf(b, Len(ringBuffer), from)
    BY KeptIsPart DEF Replay, BufferInv
  <1>2. b \in Seq(Frames) /\ Increasing(b) /\ Len(b) \in Nat
    BY <1>1, LenProperties DEF PartOf
  <1>3. \A k \in 1..Len(b) : /\ b[k] \in Frames /\ Published(b[k])
                             /\ b[k].epoch = Epoch /\ b[k].seq > from
    BY <1>1, <1>2 DEF PartOf, BufferInv
  <1> HIDE DEF b, from
  <1>4. \A k \in 1..Len(b) : \A j \in 1..Len(s) : s[j].id < b[k].id
    <2> SUFFICES ASSUME NEW k \in 1..Len(b), NEW j \in 1..Len(s)
                 PROVE  s[j].id < b[k].id
      OBVIOUS
    <2> DEFINE l == s[Len(s)]
               f == b[k]
    <2>1. s \in Seq(Frames) /\ Len(s) \in Nat /\ Len(s) \in 1..Len(s) /\ s # <<>>
      BY EmptySeq DEF InOrder
    <2>2. s[j] \in Frames /\ l \in Frames /\ s[j].id \in Nat /\ (s[j] = l \/ s[j].id < l.id)
      <3>1. j = Len(s) \/ j < Len(s)
        BY <2>1
      <3>2. s[j] = l \/ s[j].id < l.id
        BY <2>1, <3>1 DEF InOrder, Increasing
      <3>3. s[j] \in Frames /\ l \in Frames
        BY <2>1
      <3> QED
        BY <3>2, <3>3 DEF Frames
    <2>3. from = l.seq
      BY <2>1 DEF from, ResumeSeq, Last
    <2> HIDE DEF l, f
    <2>4. Published(l) /\ Published(f) /\ f.epoch = Epoch /\ f.seq > l.seq /\ f \in Frames
      BY <1>3, <2>1, <2>3 DEF InOrder, l, f
    <2>5. l.epoch <= Epoch
      BY <2>4 DEF PlacesInv, Published
    <2>6. /\ l.id \in Nat /\ f.id \in Nat /\ l.epoch \in {0, 1} /\ f.epoch \in {0, 1}
          /\ l.seq \in Nat /\ f.seq \in Nat
      BY <2>2, <2>4 DEF Frames
    <2>7. f.id # l.id
      BY <2>4, <2>6 DEF Published
    <2>8. ~(f.id < l.id)
      <3> SUFFICES ASSUME f.id < l.id
                   PROVE  FALSE
        OBVIOUS
      <3>1. f.epoch <= l.epoch /\ (f.epoch = l.epoch => f.seq < l.seq)
        BY <2>4 DEF PlacesInv, Published
      <3> QED
        BY <2>4, <2>5, <2>6, <3>1
    <2>9. l.id < f.id
      BY <2>6, <2>7, <2>8
    <2> QED
      BY <2>2, <2>6, <2>9 DEF f
  <1>5. b \in Seq(Sent)
    BY <1>2, SeqMonotonic DEF Sent
  <1>6. \A k \in 1..Len(b) : \A j \in 1..k - 1 : b[j].id < b[k].id
    <2> SUFFICES ASSUME NEW k \in 1..Len(b), NEW j \in 1..k - 1
                 PROVE  b[j].id < b[k].id
      OBVIOUS
    <2>1. j \in 1..Len(b) /\ j < k
      BY <1>2
    <2> QED
      BY <1>2, <2>1 DEF Increasing
  <1> QED
    BY <1>3, <1>4, <1>5, <1>6 DEF InOrder, b, from

-----------------------------------------------------------------------------
(* Every step keeps the streams in order.                                  *)

LEMMA NewFrame ==
  ASSUME AuditInv, NEW type \in Types, Len(log) < MaxFrames
  PROVE  LET f == NextFrame(type)
         IN  f \in Frames /\ f.id = Len(log) + 1 /\ f.epoch = Epoch /\ f.seq = nextSeq
  BY DEF AuditInv, LogInv, NextFrame, Frames, Epoch

\* The oldest frame goes, the newest comes last.
LEMMA PushKeepsOrder ==
  ASSUME NEW b \in Seq(Frames), Increasing(b), NEW f \in Frames,
         \A k \in 1..Len(b) : b[k].id < f.id
  PROVE  /\ PushToBuffer(b, f) \in Seq(Frames)
         /\ Increasing(PushToBuffer(b, f))
         /\ \A k \in 1..Len(PushToBuffer(b, f)) :
              \/ PushToBuffer(b, f)[k] = f
              \/ \E j \in 1..Len(b) : PushToBuffer(b, f)[k] = b[j]
  <1>1. ASSUME NEW s \in Seq(Frames), Increasing(s),
               \A k \in 1..Len(s) : \E j \in 1..Len(b) : s[k] = b[j]
        PROVE  /\ Append(s, f) \in Seq(Frames)
               /\ Increasing(Append(s, f))
               /\ \A k \in 1..Len(Append(s, f)) :
                    Append(s, f)[k] = f \/ \E j \in 1..Len(b) : Append(s, f)[k] = b[j]
    <2> DEFINE a == Append(s, f)
    <2>1. /\ a \in Seq(Frames) /\ Len(a) = Len(s) + 1 /\ a[Len(s) + 1] = f
          /\ Len(s) \in Nat /\ \A i \in 1..Len(s) : a[i] = s[i]
      BY AppendProperties
    <2> HIDE DEF a
    <2>2. \A k \in 1..Len(a) : (k \in 1..Len(s) /\ a[k] = s[k]) \/ (k = Len(s) + 1 /\ a[k] = f)
      BY <2>1
    <2>3. Increasing(a)
      <3> SUFFICES ASSUME NEW j \in 1..Len(a), NEW k \in 1..Len(a), j < k
                   PROVE  a[j].id < a[k].id
        BY DEF Increasing
      <3>1. j \in 1..Len(s) /\ a[j] = s[j]
        BY <2>1, <2>2
      <3>2. s[j].id < f.id
        BY <1>1, <3>1
      <3> QED
        BY <1>1, <2>2, <3>1, <3>2 DEF Increasing
    <2>4. \A k \in 1..Len(a) : a[k] = f \/ \E j \in 1..Len(b) : a[k] = b[j]
      BY <1>1, <2>2
    <2> QED
      BY <2>1, <2>3, <2>4 DEF a
  <1>2. CASE Len(b) = MaxBufferSize
    <2> DEFINE t == Tail(b)
    <2>1. b # <<>>
      BY <1>2, EmptySeq
    <2>2. /\ t \in Seq(Frames) /\ Len(t) = Len(b) - 1 /\ Len(b) \in Nat
          /\ \A i \in 1..Len(t) : t[i] = b[i + 1]
      BY <2>1, HeadTailProperties
    <2> HIDE DEF t
    <2>3. \A i \in 1..Len(t) : i + 1 \in 1..Len(b) /\ t[i] = b[i + 1]
      BY <2>2
    <2>4. Increasing(t)
      <3> SUFFICES ASSUME NEW j \in 1..Len(t), NEW k \in 1..Len(t), j < k
                   PROVE  t[j].id < t[k].id
        BY DEF Increasing
      <3>1. j + 1 \in 1..Len(b) /\ k + 1 \in 1..Len(b) /\ j + 1 < k + 1
        BY <2>3
      <3>2. b[j + 1].id < b[k + 1].id
        BY <3>1 DEF Increasing
      <3>3. t[j] = b[j + 1] /\ t[k] = b[k + 1]
        BY <2>3
      <3> QED
        BY <3>2, <3>3
    <2>5. \A k \in 1..Len(t) : \E j \in 1..Len(b) : t[k] = b[j]
      BY <2>3
    <2>6. PushToBuffer(b, f) = Append(t, f)
      BY <1>2 DEF PushToBuffer, t
    <2>7. /\ Append(t, f) \in Seq(Frames) /\ Increasing(Append(t, f))
          /\ \A k \in 1..Len(Append(t, f)) :
               Append(t, f)[k] = f \/ \E j \in 1..Len(b) : Append(t, f)[k] = b[j]
      BY <1>1, <2>2, <2>4, <2>5, Zenon
    <2> QED
      BY <2>6, <2>7, Zenon
  <1>3. CASE Len(b) # MaxBufferSize
    <2>1. PushToBuffer(b, f) = Append(b, f)
      BY <1>3 DEF PushToBuffer
    <2> QED
      BY <1>1, <2>1
  <1> QED
    BY <1>2, <1>3

LEMMA EmitKeepsStreams ==
  ASSUME AuditInv, StreamsInv, NEW type \in Types, Len(log) < MaxFrames,
         Emit(NextFrame(type)), nextSeq' = nextSeq + 1, UNCHANGED <<disposed, clientVars>>
  PROVE  StreamsInv'
  <1>1. PICK f \in Frames : /\ f = NextFrame(type) /\ f.id = Len(log) + 1
                            /\ f.epoch = Epoch /\ f.seq = nextSeq
    BY NewFrame
  <1>2. /\ log' = Append(log, f) /\ ringBuffer' = PushToBuffer(ringBuffer, f)
        /\ wire' = [c \in Clients |->
                      IF open[c] THEN wire[c] \o [k \in 1..listeners[c] |-> f] ELSE wire[c]]
        /\ UNCHANGED <<open, helloReceived, listeners, seen>> /\ Epoch' = Epoch
    BY <1>1 DEF Emit, FanOut, clientVars, Epoch
  <1>3. /\ log \in Seq(Frames) /\ Len(log) \in Nat /\ nextSeq \in Nat /\ Epoch \in {0, 1}
    BY EpochType
  <1>4. /\ log' \in Seq(Frames) /\ Len(log') = Len(log) + 1 /\ log'[Len(log) + 1] = f
        /\ \A i \in 1..Len(log) : log'[i] = log[i]
    BY <1>1, <1>2, <1>3, AppendProperties
  <1>5. \A i \in 1..Len(log') : i \in 1..Len(log) \/ i = Len(log) + 1
    BY <1>3, <1>4
  <1>6. \A e : Published(e) => Published(e)' /\ e.id < f.id
    BY <1>1, <1>3, <1>4 DEF Published
  <1>7. PlacesInv'
    <2>1. \A i \in 1..Len(log') : log'[i].id = i
      BY <1>1, <1>4, <1>5 DEF StreamsInv, PlacesInv
    <2>2. \A i \in 1..Len(log) : log[i].seq \in Nat /\ log[i].epoch \in {0, 1}
      <3> SUFFICES ASSUME NEW i \in 1..Len(log)
                   PROVE  log[i].seq \in Nat /\ log[i].epoch \in {0, 1}
        OBVIOUS
      <3>1. log[i] \in Frames
        BY <1>3
      <3> QED
        BY <3>1 DEF Frames
    <2>3. ASSUME NEW i \in 1..Len(log'), NEW j \in 1..Len(log'), i < j
          PROVE  /\ log'[i].epoch <= log'[j].epoch
                 /\ log'[i].epoch = log'[j].epoch => log'[i].seq < log'[j].seq
      <3>1. i \in 1..Len(log) /\ log'[i] = log[i]
        BY <1>3, <1>4, <2>3
      <3>2. CASE j \in 1..Len(log)
        BY <1>4, <2>3, <3>1, <3>2 DEF StreamsInv, PlacesInv
      <3>3. CASE j = Len(log) + 1
        BY <1>1, <1>4, <3>1, <3>3 DEF StreamsInv, PlacesInv
      <3> QED
        BY <1>5, <3>2, <3>3
    <2>4. ASSUME NEW i \in 1..Len(log')
          PROVE  /\ log'[i].epoch <= Epoch
                 /\ log'[i].epoch = Epoch => log'[i].seq < nextSeq'
      <3>1. CASE i \in 1..Len(log)
        BY <1>3, <1>4, <2>2, <3>1 DEF StreamsInv, PlacesInv
      <3>2. CASE i = Len(log) + 1
        BY <1>1, <1>3, <1>4, <3>2
      <3> QED
        BY <1>5, <3>1, <3>2
    <2> QED
      BY <1>2, <2>1, <2>3, <2>4 DEF PlacesInv
  <1>8. BufferInv'
    <2>0. PICK b, a : b = ringBuffer /\ a = PushToBuffer(ringBuffer, f)
      OBVIOUS
    <2>1. /\ b \in Seq(Frames) /\ Increasing(b)
          /\ \A k \in 1..Len(b) : Published(b[k]) /\ b[k].epoch = Epoch /\ b[k].id < f.id
      BY <1>6, <2>0 DEF StreamsInv, BufferInv
    <2>2. /\ a \in Seq(Frames) /\ Increasing(a)
          /\ \A k \in 1..Len(a) : a[k] = f \/ \E j \in 1..Len(b) : a[k] = b[j]
      BY <2>0, <2>1, PushKeepsOrder
    <2>3. Published(f)'
      BY <1>1, <1>3, <1>4 DEF Published
    <2>4. \A k \in 1..Len(a) : Published(a[k])' /\ a[k].epoch = Epoch
      BY <1>1, <1>6, <2>1, <2>2, <2>3
    <2>5. ringBuffer' = a
      BY <1>2, <2>0
    <2>6. Increasing(ringBuffer)'
      BY <2>2, <2>5 DEF Increasing
    <2>7. \A k \in 1..Len(ringBuffer') : Published(ringBuffer[k])' /\ ringBuffer'[k].epoch = Epoch'
      BY <1>2, <2>4, <2>5 DEF Published
    <2> QED
      BY <2>2, <2>5, <2>6, <2>7 DEF BufferInv
  <1>9. \A c \in Clients : /\ listeners[c] \in {0, 1}
                           /\ [k \in 1..listeners[c] |-> f] \in Seq(Sent)
                           /\ Len([k \in 1..listeners[c] |-> f]) = listeners[c]
                           /\ \A k \in 1..listeners[c] : [j \in 1..listeners[c] |-> f][k] = f
    BY <1>1, Copies DEF StreamsInv, SocketInv, Sent
  <1>10. SocketInv'
    <2>1. ASSUME NEW c \in Clients, ~(open[c] /\ helloReceived[c])
          PROVE  wire'[c] = <<>>
      <3>1. wire[c] = <<>> /\ listeners[c] = 0
        BY <2>1 DEF StreamsInv, SocketInv
      <3>2. [k \in 1..listeners[c] |-> f] = <<>>
        BY <1>9, <3>1, EmptySeq
      <3> QED
        BY <1>2, <3>1, <3>2
    <2>2. DOMAIN wire' = Clients /\ wire' = [c \in Clients |-> wire'[c]]
      BY <1>2
    <2> QED
      BY <1>2, <2>1, <2>2 DEF StreamsInv, SocketInv
  <1>11. OrderInv'
    <2> SUFFICES ASSUME NEW c \in Clients
                 PROVE  InOrder(seen[c], wire[c])'
      BY DEF OrderInv
    <2>1. PICK s, w, g : s = seen[c] /\ w = wire[c] /\ g = [k \in 1..listeners[c] |-> f]
      OBVIOUS
    <2>2. InOrder(s, w) /\ g \in Seq(Sent) /\ Len(g) \in {0, 1} /\ \A k \in 1..Len(g) : g[k] = f
      BY <1>9, <2>1 DEF StreamsInv, OrderInv
    <2>3. InOrder(s, w)' /\ InOrder(s, w \o g)'
      BY <1>1, <1>2, <1>3, <2>2, NewestIsInOrder
    <2>4. seen'[c] = s /\ wire'[c] \in {w, w \o g}
      BY <1>2, <2>1
    <2> QED
      BY <2>3, <2>4 DEF InOrder, Increasing, Published
  <1> QED
    BY <1>7, <1>8, <1>10, <1>11 DEF StreamsInv

\* What no publication can disturb is shown of the next streams and this log.
LEMMA SameLog ==
  ASSUME UNCHANGED <<log, nextSeq, ringBuffer, disposed>>, PlacesInv, BufferInv, SocketInv',
         \A c \in Clients : \E s, w : s = seen'[c] /\ w = wire'[c] /\ InOrder(s, w)
  PROVE  StreamsInv'
  <1>1. PlacesInv' /\ BufferInv'
    BY DEF PlacesInv, BufferInv, Increasing, Published, Epoch
  <1>2. ASSUME NEW c \in Clients
        PROVE  InOrder(seen[c], wire[c])'
    <2>1. PICK s, w : s = seen'[c] /\ w = wire'[c] /\ InOrder(s, w)
      OBVIOUS
    <2> QED
      BY <2>1 DEF InOrder, Increasing, Published
  <1> QED
    BY <1>1, <1>2 DEF StreamsInv, OrderInv

LEMMA DisposeKeepsStreams ==
  ASSUME AuditInv, StreamsInv, Dispose
  PROVE  StreamsInv'
  <1>1. /\ ~disposed /\ disposed' = TRUE /\ nextSeq' = 0 /\ ringBuffer' = <<>>
        /\ listeners' = [c \in Clients |-> 0]
        /\ UNCHANGED <<log, open, helloReceived, wire, seen>>
    BY DEF Dispose
  <1>2. \A i \in 1..Len(log) : log[i].epoch = 0
    <2> SUFFICES ASSUME NEW i \in 1..Len(log)
                 PROVE  log[i].epoch = 0
      OBVIOUS
    <2>1. log[i] \in Frames
      BY EpochType
    <2> QED
      BY <1>1, <2>1, FrameFields DEF AuditInv, LogInv, Reborn
  <1>3. PlacesInv'
    BY <1>1, <1>2 DEF StreamsInv, PlacesInv, Epoch
  <1>4. BufferInv'
    <2>1. <<>> \in Seq(Frames) /\ Len(<<>>) = 0
      BY EmptySeq
    <2>2. \A k \in 1..Len(ringBuffer') : FALSE
      BY <1>1, <2>1
    <2> QED
      BY <1>1, <2>1, <2>2 DEF BufferInv, Increasing
  <1>5. SocketInv'
    BY <1>1 DEF StreamsInv, SocketInv
  <1>6. OrderInv'
    BY <1>1 DEF StreamsInv, OrderInv, InOrder, Increasing, Published
  <1> QED
    BY <1>3, <1>4, <1>5, <1>6 DEF StreamsInv

LEMMA ConnectKeepsStreams ==
  ASSUME StreamsInv, NEW c \in Clients, NEW fresh \in BOOLEAN, Connect(c, fresh)
  PROVE  StreamsInv'
  <1>1. /\ ~open[c] /\ open' = [open EXCEPT ![c] = TRUE]
        /\ helloReceived' = [helloReceived EXCEPT ![c] = FALSE]
        /\ seen' = [seen EXCEPT ![c] = <<>>] \/ UNCHANGED seen
        /\ UNCHANGED <<log, nextSeq, ringBuffer, disposed, listeners, wire>>
    BY DEF Connect, runVars
  <1>2. SocketInv'
    BY <1>1 DEF StreamsInv, SocketInv
  <1>3. ASSUME NEW d \in Clients
        PROVE  \E s, w : s = seen'[d] /\ w = wire'[d] /\ InOrder(s, w)
    <2>1. InOrder(seen[d], wire[d]) /\ DOMAIN seen = Clients
      BY DEF StreamsInv, OrderInv, SocketInv
    <2>2. CASE seen'[d] = seen[d]
      BY <1>1, <2>1, <2>2
    <2>3. CASE d = c /\ seen'[d] = <<>>
      <3>1. wire[d] = <<>>
        BY <1>1, <2>3 DEF StreamsInv, SocketInv
      <3>2. InOrder(<<>>, <<>>)
        <4>1. <<>> \in Seq(Frames) /\ <<>> \in Seq(Sent) /\ Len(<<>>) = 0
          BY EmptySeq
        <4>2. \A k \in 1..Len(<<>>) : FALSE
          BY <4>1
        <4> QED
          BY <4>1, <4>2 DEF InOrder, Increasing
      <3> QED
        BY <1>1, <2>3, <3>1, <3>2
    <2> QED
      BY <1>1, <2>1, <2>2, <2>3
  <1> QED
    BY <1>1, <1>2, <1>3, SameLog DEF StreamsInv

LEMMA ReceiveKeepsStreams ==
  ASSUME StreamsInv, NEW c \in Clients, Receive(c)
  PROVE  StreamsInv'
  <1>1. /\ wire[c] # <<>> /\ wire' = [wire EXCEPT ![c] = Tail(@)]
        /\ IF Head(wire[c]) = Resync
           THEN UNCHANGED seen
           ELSE seen' = [seen EXCEPT ![c] = Append(@, Head(wire[c]))]
        /\ UNCHANGED <<log, nextSeq, ringBuffer, disposed, open, helloReceived, listeners>>
    BY DEF Receive, runVars
  <1>2. SocketInv'
    BY <1>1 DEF StreamsInv, SocketInv
  <1>3. ASSUME NEW d \in Clients
        PROVE  \E s, w : s = seen'[d] /\ w = wire'[d] /\ InOrder(s, w)
    <2>1. InOrder(seen[d], wire[d]) /\ DOMAIN seen = Clients /\ DOMAIN wire = Clients
      BY DEF StreamsInv, OrderInv, SocketInv
    <2>2. CASE d # c
      BY <1>1, <2>1, <2>2
    <2>3. CASE d = c
      <3>1. wire'[c] = Tail(wire[c])
        BY <1>1, <2>1
      <3>2. seen'[c] = IF Head(wire[c]) = Resync THEN seen[c]
                       ELSE Append(seen[c], Head(wire[c]))
        BY <1>1, <2>1
      <3>3. /\ InOrder(seen[c], Tail(wire[c]))
            /\ Head(wire[c]) # Resync => InOrder(Append(seen[c], Head(wire[c])), Tail(wire[c]))
        BY <1>1, <2>1, <2>3, ReceivedIsInOrder
      <3> QED
        BY <2>3, <3>1, <3>2, <3>3
    <2> QED
      BY <2>2, <2>3
  <1> QED
    BY <1>1, <1>2, <1>3, SameLog DEF StreamsInv

LEMMA DropKeepsStreams ==
  ASSUME StreamsInv, NEW c \in Clients, Drop(c)
  PROVE  StreamsInv'
  <1>1. /\ open' = [open EXCEPT ![c] = FALSE]
        /\ listeners' = [listeners EXCEPT ![c] = IF @ = 0 THEN 0 ELSE @ - 1]
        /\ wire' = [wire EXCEPT ![c] = <<>>]
        /\ UNCHANGED <<log, nextSeq, ringBuffer, disposed, helloReceived, seen>>
    BY DEF Drop, runVars
  <1>2. SocketInv'
    <2> USE DEF StreamsInv, SocketInv
    <2>1. open' \in [Clients -> BOOLEAN] /\ helloReceived' \in [Clients -> BOOLEAN]
      BY <1>1
    <2>2. \A d \in Clients : listeners'[d] = IF d = c THEN 0 ELSE listeners[d]
      BY <1>1
    <2>3. \A d \in Clients : listeners'[d] \in {0, 1}
      BY <2>2
    <2>4. listeners' = [d \in Clients |-> listeners'[d]]
      BY <1>1
    <2>5. listeners' \in [Clients -> {0, 1}]
      BY <2>3, <2>4
    <2>6. \A d \in Clients : listeners'[d] = 1 => open'[d] /\ helloReceived'[d]
      BY <1>1, <2>2
    <2>7. \A d \in Clients : ~(open'[d] /\ helloReceived'[d]) => wire'[d] = <<>>
      BY <1>1
    <2>8. DOMAIN wire' = Clients /\ wire' = [d \in Clients |-> wire'[d]]
      BY <1>1
    <2>9. DOMAIN seen' = Clients /\ seen' = [d \in Clients |-> seen'[d]]
      BY <1>1
    <2> QED
      BY <2>1, <2>5, <2>6, <2>7, <2>8, <2>9
  <1>3. ASSUME NEW d \in Clients
        PROVE  \E s, w : s = seen'[d] /\ w = wire'[d] /\ InOrder(s, w)
    <2>1. InOrder(seen[d], wire[d]) /\ DOMAIN wire = Clients
      BY DEF StreamsInv, OrderInv, SocketInv
    <2>2. CASE d # c
      BY <1>1, <2>1, <2>2
    <2>3. CASE d = c
      <3>1. InOrder(seen[c], <<>>)
        <4>1. <<>> \in Seq(Sent) /\ Len(<<>>) = 0
          BY EmptySeq
        <4>2. \A k \in 1..Len(<<>>) : FALSE
          BY <4>1
        <4> QED
          BY <2>1, <2>3, <4>1, <4>2 DEF InOrder
      <3> QED
        BY <1>1, <2>1, <2>3, <3>1
    <2> QED
      BY <2>2, <2>3
  <1> QED
    BY <1>1, <1>2, <1>3, SameLog DEF StreamsInv

\* Nothing is on the wire before hello, so the backlog is all that the client
\* is sent; the others are sent a resync at most.
LEMMA HelloSends ==
  ASSUME StreamsInv, NEW c \in Clients, Hello(c)
  PROVE  /\ listeners[c] = 0 /\ wire[c] = <<>>
         /\ DOMAIN wire' = Clients /\ wire'[c] = Replay(ResumeSeq(c))
         /\ wire' = [d \in Clients |-> wire'[d]]
         /\ \A d \in Clients \ {c} : \E resyncs \in Seq({Resync}) :
              /\ wire'[d] = wire[d] \o resyncs
              /\ listeners[d] = 0 => resyncs = <<>>
  <1> DEFINE backlog == Replay(ResumeSeq(c))
             sent == [d \in Clients |->
                        IF DidBufferEvictBefore(ResumeSeq(c)) /\ open[d]
                        THEN [k \in 1..listeners[d] |-> Resync] ELSE <<>>]
  <1>1. open[c] /\ ~helloReceived[c] /\ \A d \in Clients : listeners[d] \in {0, 1}
    BY DEF Hello, FirstHello, StreamsInv, SocketInv
  <1>2. listeners[c] = 0 /\ wire[c] = <<>>
    BY <1>1 DEF StreamsInv, SocketInv
  <1>3. wire' = [d \in Clients |-> (wire[d] \o sent[d]) \o (IF d = c THEN backlog ELSE <<>>)]
    BY DEF Hello
  <1>4. \A d \in Clients : sent[d] \in {<<>>, [k \in 1..listeners[d] |-> Resync]}
    OBVIOUS
  <1> HIDE DEF sent, backlog
  <1>5. ASSUME NEW d \in Clients
        PROVE  sent[d] \in Seq({Resync}) /\ (listeners[d] = 0 => sent[d] = <<>>)
    <2>1. [k \in 1..listeners[d] |-> Resync] \in Seq({Resync})
      BY <1>1, Copies
    <2>2. Len([k \in 1..listeners[d] |-> Resync]) = listeners[d]
      BY <1>1, Copies
    <2> QED
      BY <1>4, <2>1, <2>2, EmptySeq
  <1>6. wire'[c] = backlog
    <2>1. sent[c] = <<>>
      BY <1>2, <1>5
    <2>2. backlog \in Seq(Frames)
      BY KeptIsPart DEF backlog, Replay, StreamsInv, BufferInv, PartOf
    <2>3. wire'[c] = (<<>> \o <<>>) \o backlog
      BY <1>2, <1>3, <2>1
    <2> QED
      BY <2>2, <2>3
  <1>7. ASSUME NEW d \in Clients \ {c}
        PROVE  wire'[d] = wire[d] \o sent[d]
    <2>1. wire'[d] = (wire[d] \o sent[d]) \o <<>>
      BY <1>3
    <2>2. InOrder(seen[d], wire[d] \o sent[d])
      BY <1>5, ResyncsAreInOrder DEF StreamsInv, OrderInv
    <2>3. wire[d] \o sent[d] \in Seq(Sent)
      BY <2>2 DEF InOrder
    <2> QED
      BY <2>1, <2>3, ConcatEmptySeq
  <1>8. DOMAIN wire' = Clients /\ wire' = [d \in Clients |-> wire'[d]]
    BY <1>3
  <1> QED
    BY <1>2, <1>5, <1>6, <1>7, <1>8 DEF backlog

LEMMA HelloKeepsStreams ==
  ASSUME AuditInv, StreamsInv, NEW c \in Clients, Hello(c)
  PROVE  StreamsInv'
  <1>1. /\ open[c] /\ ~helloReceived[c]
        /\ helloReceived' = [helloReceived EXCEPT ![c] = TRUE]
        /\ listeners' = [listeners EXCEPT ![c] = @ + 1]
        /\ UNCHANGED <<log, nextSeq, ringBuffer, disposed, open, seen>>
    BY DEF Hello, FirstHello, Subscribe, runVars
  <1>2. SocketInv'
    <2>1. ASSUME NEW d \in Clients, ~(open'[d] /\ helloReceived'[d])
          PROVE  wire'[d] = <<>>
      <3>1. d # c /\ ~(open[d] /\ helloReceived[d])
        BY <1>1, <2>1 DEF StreamsInv, SocketInv
      <3>2. wire[d] = <<>> /\ listeners[d] = 0
        BY <3>1 DEF StreamsInv, SocketInv
      <3>3. <<>> \o <<>> = <<>>
        BY EmptySeq, ConcatEmptySeq
      <3> QED
        BY <3>1, <3>2, <3>3, HelloSends
    <2>2. DOMAIN wire' = Clients /\ wire' = [d \in Clients |-> wire'[d]]
      BY HelloSends
    <2>3. /\ helloReceived' \in [Clients -> BOOLEAN]
          /\ listeners' \in [Clients -> {0, 1}]
          /\ \A d \in Clients : listeners'[d] = 1 => open'[d] /\ helloReceived'[d]
      BY <1>1, HelloSends DEF StreamsInv, SocketInv
    <2>4. /\ open' \in [Clients -> BOOLEAN] /\ DOMAIN seen' = Clients
          /\ seen' = [d \in Clients |-> seen'[d]]
      BY <1>1 DEF StreamsInv, SocketInv
    <2> QED
      BY <2>1, <2>2, <2>3, <2>4 DEF SocketInv
  <1>3. ASSUME NEW d \in Clients
        PROVE  \E s, w : s = seen'[d] /\ w = wire'[d] /\ InOrder(s, w)
    <2>1. InOrder(seen[d], wire[d])
      BY DEF StreamsInv, OrderInv
    <2>2. CASE d = c
      <3>1. InOrder(seen[c], <<>>)
        BY <2>1, <2>2, HelloSends
      <3>2. InOrder(seen[c], Replay(ResumeSeq(c)))
        BY <3>1, BacklogIsLater DEF StreamsInv
      <3> QED
        BY <1>1, <2>2, <3>2, HelloSends
    <2>3. CASE d # c
      <3>1. PICK resyncs \in Seq({Resync}) : wire'[d] = wire[d] \o resyncs
        BY <2>3, HelloSends
      <3>2. InOrder(seen[d], wire[d] \o resyncs)
        BY <2>1, ResyncsAreInOrder
      <3> QED
        BY <1>1, <3>1, <3>2
    <2> QED
      BY <2>2, <2>3
  <1> QED
    BY <1>1, <1>2, <1>3, SameLog DEF StreamsInv

LEMMA StreamsInitially == Init => StreamsInv
  <1> SUFFICES ASSUME Init
               PROVE  StreamsInv
    OBVIOUS
  <1>1. /\ log = <<>> /\ ringBuffer = <<>>
        /\ open = [c \in Clients |-> FALSE] /\ helloReceived = [c \in Clients |-> FALSE]
        /\ listeners = [c \in Clients |-> 0]
        /\ wire = [c \in Clients |-> <<>>] /\ seen = [c \in Clients |-> <<>>]
    BY DEF Init
  <1>2. Len(<<>>) = 0 /\ <<>> \in Seq(Frames) /\ <<>> \in Seq(Sent)
    BY EmptySeq
  <1>3. \A k \in 1..Len(<<>>) : FALSE
    BY <1>2
  <1>4. PlacesInv /\ BufferInv
    BY <1>1, <1>2, <1>3 DEF PlacesInv, BufferInv, Increasing
  <1>5. SocketInv
    BY <1>1 DEF SocketInv
  <1>6. OrderInv
    BY <1>1, <1>2, <1>3 DEF OrderInv, InOrder, Increasing
  <1> QED
    BY <1>4, <1>5, <1>6 DEF StreamsInv

\* What a step that publishes does.
LEMMA Publications ==
  ASSUME WorkflowPublishes \/ ReviewerDecides \/ Finish
  PROVE  \E type \in Types :
           /\ Len(log) < MaxFrames /\ Emit(NextFrame(type)) /\ nextSeq' = nextSeq + 1
           /\ UNCHANGED <<disposed, clientVars>>
  <1>1. CASE WorkflowPublishes
    BY <1>1 DEF WorkflowPublishes, Publish, PublishSyntheticFailure, TakeSeq, Types
  <1>2. CASE ReviewerDecides
    BY <1>2 DEF ReviewerDecides, Publish, Types
  <1>3. CASE Finish
    BY <1>3 DEF Finish, Publish, Types
  <1> QED
    BY <1>1, <1>2, <1>3

LEMMA StreamsInductive == AuditInv /\ StreamsInv /\ [Next]_vars => StreamsInv'
  <1> SUFFICES ASSUME AuditInv, StreamsInv, [Next]_vars
               PROVE  StreamsInv'
    OBVIOUS
  <1>1. CASE WorkflowPublishes \/ ReviewerDecides \/ Finish
    BY <1>1, Publications, EmitKeepsStreams
  <1>2. CASE Dispose
    BY <1>2, DisposeKeepsStreams
  <1>3. ASSUME NEW c \in Clients, NEW fresh \in BOOLEAN,
               Connect(c, fresh) \/ Hello(c) \/ Receive(c) \/ Drop(c)
        PROVE  StreamsInv'
    BY <1>3, ConnectKeepsStreams, HelloKeepsStreams, ReceiveKeepsStreams, DropKeepsStreams
  <1>4. ASSUME UNCHANGED <<runVars, clientVars, wire>>
        PROVE  StreamsInv'
    BY <1>4 DEF runVars, clientVars, StreamsInv, PlacesInv, BufferInv, SocketInv, OrderInv,
                InOrder, Increasing, Published, Epoch
  <1>5. ASSUME NEW f \in inserting, Insert(f) \/ InsertFails(f)
        PROVE  StreamsInv'
    BY <1>4, <1>5 DEF Insert, InsertFails
  <1>6. CASE UNCHANGED vars
    BY <1>4, <1>6 DEF vars
  <1> QED
    BY <1>1, <1>2, <1>3, <1>5, <1>6 DEF Next

-----------------------------------------------------------------------------
(* The timeline implements the log. ReadNow and StoredNow are the mapping. *)

ReadNow == [c \in Clients |-> [k \in 1..Len(seen[c]) |-> seen[c][k].id]]
StoredNow == {events[s].id : s \in {q \in 0..MaxFrames - 1 : events[q] # None}}

LEMMA ReceiveReads ==
  ASSUME AuditInv, StreamsInv, NEW c \in Clients, Receive(c), Head(wire[c]) # Resync
  PROVE  /\ Head(wire[c]).id \in 1..Len(log)
         /\ \A k \in 1..Len(ReadNow[c]) : ReadNow[c][k] < Head(wire[c]).id
         /\ ReadNow' = [ReadNow EXCEPT ![c] = Append(@, Head(wire[c]).id)]
  <1> DEFINE s == seen[c]
             f == Head(wire[c])
             a == Append(s, f)
             old == [k \in 1..Len(s) |-> s[k].id]
             new == [k \in 1..Len(a) |-> a[k].id]
  <1>1. InOrder(s, wire[c]) /\ wire[c] # <<>>
    BY DEF Receive, StreamsInv, OrderInv
  <1>2. f \in Frames /\ Published(f) /\ \A k \in 1..Len(s) : s[k].id < f.id
    BY <1>1, ReceivedIsInOrder
  <1>3. s \in Seq(Frames) /\ Len(s) \in Nat
    BY <1>1 DEF InOrder
  <1>4. seen' = [seen EXCEPT ![c] = a] /\ DOMAIN seen = Clients
    BY DEF Receive, StreamsInv, SocketInv
  <1>5. ReadNow[c] = old
    BY DEF ReadNow
  <1> HIDE DEF f
  <1>6. /\ a \in Seq(Frames) /\ Len(a) = Len(s) + 1 /\ a[Len(s) + 1] = f
        /\ \A k \in 1..Len(s) : a[k] = s[k]
    BY <1>2, <1>3, AppendProperties
  <1>7. new = Append(old, f.id)
    <2>1. \A k \in 1..Len(s) : s[k].id \in Nat
      <3> SUFFICES ASSUME NEW k \in 1..Len(s)
                   PROVE  s[k].id \in Nat
        OBVIOUS
      <3>1. s[k] \in Frames
        BY <1>3
      <3> QED
        BY <3>1 DEF Frames
    <2>2. old \in Seq(Nat) /\ Len(old) = Len(s) /\ f.id \in Nat
      BY <1>2, <1>3, <2>1 DEF Frames
    <2> DEFINE b == Append(old, f.id)
    <2>3. /\ b \in Seq(Nat) /\ Len(b) = Len(s) + 1 /\ b[Len(s) + 1] = f.id
          /\ \A k \in 1..Len(s) : b[k] = old[k]
      BY <2>2, AppendProperties
    <2>4. \A k \in 1..Len(s) : b[k] = s[k].id
      BY <2>3
    <2> HIDE DEF a, b, old
    <2>5. new = [k \in 1..Len(s) + 1 |-> a[k].id]
      BY <1>6
    <2>6. \A k \in 1..Len(s) + 1 : b[k] = a[k].id
      <3> SUFFICES ASSUME NEW k \in 1..Len(s) + 1
                   PROVE  b[k] = a[k].id
        OBVIOUS
      <3>1. CASE k \in 1..Len(s)
        BY <1>6, <2>4, <3>1
      <3>2. CASE k = Len(s) + 1
        BY <1>6, <2>3, <3>2
      <3> QED
        BY <1>3, <3>1, <3>2
    <2>7. b = [k \in 1..Len(s) + 1 |-> b[k]]
      BY <2>3
    <2>8. b = new
      BY <2>5, <2>6, <2>7
    <2> QED
      BY <2>8 DEF b
  <1>8. ReadNow' = [ReadNow EXCEPT ![c] = new]
    <2>1. ReadNow' = [d \in Clients |-> [k \in 1..Len(seen'[d]) |-> seen'[d][k].id]]
      BY DEF ReadNow
    <2>2. \A d \in Clients : seen'[d] = IF d = c THEN a ELSE seen[d]
      BY <1>4
    <2> HIDE DEF a
    <2>3. \A d \in Clients : [k \in 1..Len(seen'[d]) |-> seen'[d][k].id] =
                             IF d = c THEN new ELSE ReadNow[d]
      BY <2>2 DEF ReadNow
    <2>4. ReadNow' = [d \in Clients |-> IF d = c THEN new ELSE ReadNow[d]]
      BY <2>1, <2>3
    <2> HIDE DEF new
    <2>5. DOMAIN ReadNow = Clients
      BY DEF ReadNow
    <2> QED
      BY <2>4, <2>5
  <1>9. f.id \in 1..Len(log)
    BY <1>2 DEF Published
  <1>10. \A k \in 1..Len(old) : old[k] < f.id
    BY <1>2, <1>3
  <1> HIDE DEF new, old
  <1> QED
    BY <1>5, <1>7, <1>8, <1>9, <1>10 DEF f

LEMMA InsertStores ==
  ASSUME AuditInv, StreamsInv, NEW f \in inserting, Insert(f)
  PROVE  StoredNow' = StoredNow \/ \E i \in 1..Len(log) : StoredNow' = StoredNow \union {i}
  <1>1. PICK i \in 1..Len(log) : f = log[i]
    BY DEF AuditInv, StoreInv
  <1>2. f \in Frames /\ f.id = i /\ f.seq \in 0..MaxFrames - 1
    <2>1. f \in Frames
      BY <1>1, EpochType
    <2> QED
      BY <1>1, <2>1, FrameFields DEF StreamsInv, PlacesInv
  <1>3. CASE events' = events
    BY <1>3 DEF StoredNow
  <1>4. CASE events[f.seq] = None /\ events' = [events EXCEPT ![f.seq] = f] /\ f # None
    <2>1. \A s \in 0..MaxFrames - 1 : events'[s] = IF s = f.seq THEN f ELSE events[s]
      BY <1>2, <1>4 DEF AuditInv, StoreInv
    <2>2. ASSUME NEW x
          PROVE  x \in StoredNow' <=> x \in StoredNow \/ x = i
      <3>1. x \in StoredNow' <=> \E s \in 0..MaxFrames - 1 : events'[s] # None /\ x = events'[s].id
        BY DEF StoredNow
      <3>2. x \in StoredNow <=> \E s \in 0..MaxFrames - 1 : events[s] # None /\ x = events[s].id
        BY DEF StoredNow
      <3> QED
        BY <1>2, <1>4, <2>1, <3>1, <3>2
    <2>3. StoredNow' = StoredNow \union {i}
      BY <2>2
    <2> QED
      BY <2>3
  <1>5. CASE events[f.seq] = None /\ events' = [events EXCEPT ![f.seq] = f] /\ f = None
    <2>1. events' = events
      BY <1>5 DEF AuditInv, StoreInv
    <2> QED
      BY <1>3, <2>1
  <1> QED
    BY <1>3, <1>4, <1>5 DEF Insert, OnConflictDoNothing

LEMMA LogSteps ==
  ASSUME AuditInv, StreamsInv, [Next]_vars
  PROVE  [Log!Next]_(Log!vars)
  <1>1. ASSUME UNCHANGED <<log, seen, events>>
        PROVE  UNCHANGED Log!vars
    BY <1>1 DEF Log!vars
  <1>2. CASE WorkflowPublishes \/ ReviewerDecides \/ Finish
    <2>1. PICK type \in Types : /\ Len(log) < MaxFrames /\ Emit(NextFrame(type))
                                /\ UNCHANGED clientVars
      BY <1>2, Publications
    <2>2. UNCHANGED <<seen, events>> /\ log' = Append(log, NextFrame(type))
      BY <2>1 DEF Emit, Persist, clientVars
    <2>3. Len(log') = Len(log) + 1
      BY <2>1, <2>2, NewFrame, EpochType, AppendProperties
    <2>4. Log!Publish
      BY <2>1, <2>2, <2>3 DEF Log!Publish
    <2> QED
      BY <2>4 DEF Log!Next
  <1>3. CASE Dispose
    BY <1>1, <1>3 DEF Dispose, storeVars
  <1>4. ASSUME NEW c \in Clients, NEW fresh \in BOOLEAN, Connect(c, fresh)
        PROVE  [Log!Next]_(Log!vars)
    <2>1. UNCHANGED <<log, events>> /\ (UNCHANGED seen \/ seen' = [seen EXCEPT ![c] = <<>>])
      BY <1>4 DEF Connect, runVars, storeVars
    <2>2. CASE seen' = [seen EXCEPT ![c] = <<>>]
      <3>1. \A d \in Clients : seen'[d] = IF d = c THEN <<>> ELSE seen[d]
        BY <2>2 DEF StreamsInv, SocketInv
      <3>2. [k \in 1..Len(<<>>) |-> <<>>[k].id] = <<>>
        BY EmptySeq
      <3>3. \A d \in Clients : [k \in 1..Len(seen'[d]) |-> seen'[d][k].id] =
                               IF d = c THEN <<>> ELSE ReadNow[d]
        BY <3>1, <3>2 DEF ReadNow
      <3>4. ReadNow' = [d \in Clients |-> [k \in 1..Len(seen'[d]) |-> seen'[d][k].id]]
        BY DEF ReadNow
      <3>5. ReadNow' = [ReadNow EXCEPT ![c] = <<>>]
        BY <3>3, <3>4 DEF ReadNow
      <3>6. Log!StartOver(c)
        BY <2>1, <3>5 DEF Log!StartOver, ReadNow
      <3> QED
        BY <3>6 DEF Log!Next
    <2> QED
      BY <1>1, <2>1, <2>2
  <1>5. ASSUME NEW c \in Clients, Hello(c) \/ Drop(c)
        PROVE  [Log!Next]_(Log!vars)
    BY <1>1, <1>5 DEF Hello, Drop, runVars, storeVars
  <1>6. ASSUME NEW c \in Clients, Receive(c)
        PROVE  [Log!Next]_(Log!vars)
    <2>1. UNCHANGED <<log, events>>
      BY <1>6 DEF Receive, runVars, storeVars
    <2>2. CASE Head(wire[c]) = Resync
      BY <1>1, <1>6, <2>1, <2>2 DEF Receive
    <2>3. CASE Head(wire[c]) # Resync
      <3>1. /\ Head(wire[c]).id \in 1..Len(log)
            /\ \A k \in 1..Len(ReadNow[c]) : ReadNow[c][k] < Head(wire[c]).id
            /\ ReadNow' = [ReadNow EXCEPT ![c] = Append(@, Head(wire[c]).id)]
        BY <1>6, <2>3, ReceiveReads
      <3>2. /\ \E i \in 1..Len(log) :
                 /\ \A k \in 1..Len(ReadNow[c]) : ReadNow[c][k] < i
                 /\ ReadNow' = [ReadNow EXCEPT ![c] = Append(ReadNow[c], i)]
            /\ UNCHANGED <<Len(log), StoredNow>>
        BY <2>1, <3>1 DEF StoredNow
      <3>3. Log!Read(c)
        BY <3>2 DEF Log!Read, ReadNow, StoredNow
      <3> QED
        BY <3>3 DEF Log!Next
    <2> QED
      BY <2>2, <2>3
  <1>7. ASSUME NEW f \in inserting, Insert(f)
        PROVE  [Log!Next]_(Log!vars)
    <2>1. UNCHANGED <<log, seen>>
      BY <1>7 DEF Insert, runVars, clientVars
    <2>2. StoredNow' = StoredNow \/ \E i \in 1..Len(log) : StoredNow' = StoredNow \union {i}
      BY <1>7, InsertStores
    <2>3. CASE StoredNow' = StoredNow
      BY <2>1, <2>3 DEF Log!vars, StoredNow
    <2>4. CASE \E i \in 1..Len(log) : StoredNow' = StoredNow \union {i}
      <3>1. Log!Store
        BY <2>1, <2>4 DEF Log!Store, StoredNow
      <3> QED
        BY <3>1 DEF Log!Next
    <2> QED
      BY <2>2, <2>3, <2>4
  <1>8. ASSUME NEW f \in inserting, InsertFails(f)
        PROVE  [Log!Next]_(Log!vars)
    BY <1>1, <1>8 DEF InsertFails, runVars, clientVars
  <1>9. CASE UNCHANGED vars
    BY <1>1, <1>9 DEF vars, runVars, clientVars, storeVars
  <1> QED
    BY <1>2, <1>3, <1>4, <1>5, <1>6, <1>7, <1>8, <1>9 DEF Next

\* However often clients lose their connection and resume, each reads the log
\* in order and at most once, and nothing stored is lost.
THEOREM TimelineImplementsTheLog == Spec => StreamsFollowTheLog
  <1>1. Init => Log!Init
    <2> SUFFICES ASSUME Init
                 PROVE  Log!Init
      OBVIOUS
    <2>1. Len(<<>>) = 0 /\ [k \in 1..Len(<<>>) |-> <<>>[k].id] = <<>>
      BY EmptySeq
    <2>2. ReadNow = [c \in Clients |-> <<>>]
      BY <2>1 DEF Init, ReadNow
    <2>3. StoredNow = {}
      BY DEF Init, StoredNow
    <2> QED
      BY <2>1, <2>2, <2>3 DEF Init, Log!Init, ReadNow, StoredNow
  <1>2. AuditInv /\ StreamsInv /\ [Next]_vars => [Log!Next]_(Log!vars)
    BY LogSteps
  <1> QED
    BY <1>1, <1>2, AuditInitially, AuditInductive, StreamsInitially, StreamsInductive, PTL
    DEF Spec, StreamsFollowTheLog, Log!Spec

-----------------------------------------------------------------------------
(* Subscribers are current. Until the run is disposed of, the buffer ends  *)
(* with the newest frame, whoever said hello listens, and a listener has   *)
(* that frame or is about to receive it.                                   *)

Newest == log[Len(log)]

NewestInv ==
  /\ known \in BOOLEAN
  /\ disposed /\ known => Reborn
  /\ known => Len(log) > 0
  /\ ~disposed /\ known => Len(ringBuffer) > 0 /\ ringBuffer[Len(ringBuffer)] = Newest

ListenersInv ==
  ~disposed => \A c \in Clients :
    /\ open[c] /\ helloReceived[c] => listeners[c] = 1
    /\ listeners[c] = 1 /\ known => Reaches(c, Newest)

CurrentInv == NewestInv /\ ListenersInv

LEMMA InRange ==
  ASSUME NEW S, NEW s \in Seq(S), NEW e
  PROVE  e \in Range(s) <=> \E k \in 1..Len(s) : s[k] = e
  BY RangeEquality

LEMMA RangeGrows ==
  ASSUME NEW S, NEW s \in Seq(S), NEW t \in Seq(S)
  PROVE  Range(s \o t) = Range(s) \union Range(t)
  BY RangeConcatenation

LEMMA StreamTypes ==
  ASSUME StreamsInv, NEW c \in Clients
  PROVE  seen[c] \in Seq(Sent) /\ wire[c] \in Seq(Sent) /\ seen[c] \in Seq(Frames)
  <1>1. seen[c] \in Seq(Frames) /\ wire[c] \in Seq(Sent)
    BY DEF StreamsInv, OrderInv, InOrder
  <1> QED
    BY <1>1, SeqMonotonic DEF Sent

\* A step that publishes nothing has only the streams to account for.
LEMMA NewestStays ==
  ASSUME NewestInv, UNCHANGED <<known, disposed, log, ringBuffer>>
  PROVE  NewestInv' /\ Newest' = Newest
  BY DEF NewestInv, Newest, Reborn

LEMMA EmitKeepsCurrent ==
  ASSUME AuditInv, StreamsInv, CurrentInv, NEW type \in Types, Len(log) < MaxFrames,
         Emit(NextFrame(type)), UNCHANGED <<disposed, clientVars>>
  PROVE  CurrentInv'
  <1>1. PICK f : f = NextFrame(type) /\ f \in Frames /\ f.epoch = Epoch
    BY NewFrame
  <1>2. /\ known' = TRUE /\ log' = Append(log, f) /\ ringBuffer' = PushToBuffer(ringBuffer, f)
        /\ wire' = [c \in Clients |->
                      IF open[c] THEN wire[c] \o [k \in 1..listeners[c] |-> f] ELSE wire[c]]
        /\ UNCHANGED <<open, helloReceived, listeners, seen>>
    BY <1>1 DEF Emit, FanOut, clientVars
  <1>3. log' \in Seq(Frames) /\ Len(log') = Len(log) + 1 /\ Newest' = f /\ Len(log) \in Nat
    <2>1. /\ log' \in Seq(Frames) /\ Len(log') = Len(log) + 1 /\ log'[Len(log) + 1] = f
          /\ Len(log) \in Nat
      BY <1>1, <1>2, EpochType, AppendProperties
    <2> QED
      BY <2>1 DEF Newest
  <1>4. Len(PushToBuffer(ringBuffer, f)) > 0
        /\ PushToBuffer(ringBuffer, f)[Len(PushToBuffer(ringBuffer, f))] = f
    <2>1. ASSUME NEW b \in Seq(Frames)
          PROVE  Len(Append(b, f)) > 0 /\ Append(b, f)[Len(Append(b, f))] = f
      <3>1. Len(Append(b, f)) = Len(b) + 1 /\ Append(b, f)[Len(b) + 1] = f /\ Len(b) \in Nat
        BY <1>1, AppendProperties
      <3> QED
        BY <3>1
    <2>2. ringBuffer \in Seq(Frames)
      BY DEF StreamsInv, BufferInv
    <2>3. Len(ringBuffer) = MaxBufferSize => Tail(ringBuffer) \in Seq(Frames)
      BY <2>2, HeadTailProperties, EmptySeq
    <2> QED
      BY <2>1, <2>2, <2>3 DEF PushToBuffer
  <1>5. disposed => Reborn'
    <2> SUFFICES ASSUME disposed
                 PROVE  Reborn'
      OBVIOUS
    <2>1. Newest'.epoch = 1
      BY <1>1, <1>3 DEF Epoch
    <2>2. Len(log') \in 1..Len(log')
      BY <1>3
    <2> QED
      BY <2>1, <2>2 DEF Reborn, Newest
  <1>6. NewestInv'
    BY <1>2, <1>3, <1>4, <1>5 DEF NewestInv
  <1>7. ASSUME NEW c \in Clients, listeners[c] = 1
        PROVE  f \in Range(wire'[c])
    <2> DEFINE sent == [k \in 1..listeners[c] |-> f]
    <2>1. sent \in Seq(Sent) /\ Len(sent) = 1 /\ sent[1] = f
      BY <1>1, <1>7, Copies DEF Sent
    <2>2. f \in Range(sent)
      <3> HIDE DEF sent
      <3>1. 1 \in 1..Len(sent)
        BY <2>1
      <3> QED
        BY <2>1, <3>1, InRange
    <2>3. wire'[c] = wire[c] \o sent
      BY <1>2, <1>7 DEF StreamsInv, SocketInv
    <2> QED
      BY <2>1, <2>2, <2>3, RangeGrows, StreamTypes
  <1>8. ListenersInv'
    BY <1>2, <1>3, <1>7 DEF CurrentInv, ListenersInv, Reaches
  <1> QED
    BY <1>6, <1>8 DEF CurrentInv

\* The backlog ends with the newest frame, unless the client has that already.
LEMMA BacklogIsCurrent ==
  ASSUME AuditInv, StreamsInv, NewestInv, known, ~disposed, NEW c \in Clients
  PROVE  Newest \in Range(seen[c]) \union Range(Replay(ResumeSeq(c)))
  <1> DEFINE s == seen[c]
             from == ResumeSeq(c)
             N == Len(ringBuffer)
             l == s[Len(s)]
  <1>1. /\ N \in Nat \ {0} /\ ringBuffer[N] = Newest /\ ringBuffer \in Seq(Frames)
        /\ Len(log) \in 1..Len(log) /\ Newest \in Frames /\ Newest.id = Len(log)
    <2>1. log \in Seq(Frames) /\ Len(log) \in Nat
      BY EpochType
    <2>2. Len(log) \in 1..Len(log)
      BY <2>1 DEF NewestInv
    <2>3. Newest \in Frames /\ Newest.id = Len(log)
      BY <2>1, <2>2 DEF Newest, StreamsInv, PlacesInv
    <2>4. N \in Nat \ {0} /\ ringBuffer[N] = Newest /\ ringBuffer \in Seq(Frames)
      BY DEF NewestInv, StreamsInv, BufferInv
    <2> QED
      BY <2>2, <2>3, <2>4
  <1>2. s \in Seq(Frames) /\ Len(s) \in Nat /\ \A k \in 1..Len(s) : Published(s[k])
    BY DEF StreamsInv, OrderInv, InOrder
  <1>3. CASE Newest.seq > from
    <2>1. PartOf(Replay(from), N, from)
      BY <1>1, KeptIsPart DEF Replay, StreamsInv, BufferInv
    <2>2. N \in 1..N
      BY <1>1
    <2> HIDE DEF from, N
    <2>3. Replay(from) \in Seq(Frames) /\ \E k \in 1..Len(Replay(from)) : Replay(from)[k] = Newest
      BY <1>1, <1>3, <2>1, <2>2 DEF PartOf
    <2> QED
      BY <2>3, InRange DEF from
  <1>4. CASE ~(Newest.seq > from)
    <2>1. Newest.seq \in Nat
      BY <1>1 DEF Frames
    <2>2. s # <<>>
      BY <1>4, <2>1 DEF ResumeSeq
    <2>3. Len(s) \in 1..Len(s) /\ from = l.seq
      BY <1>2, <2>2, EmptySeq DEF ResumeSeq, Last
    <2>4. l \in Frames /\ Published(l)
      BY <1>2, <2>3
    <2> HIDE DEF l, from, s
    <2>5. l.seq \in Nat /\ l.id \in 1..Len(log) /\ l = log[l.id]
      BY <2>4 DEF Frames, Published
    <2>6. \A i \in 1..Len(log) : log[i].seq = i - 1
      <3> SUFFICES ASSUME NEW i \in 1..Len(log)
                   PROVE  log[i].seq = i - 1
        OBVIOUS
      <3>1. log[i] \in Frames
        BY EpochType
      <3> QED
        BY <3>1, FrameFields DEF AuditInv, LogInv, Reborn
    <2>7. l.id = Len(log)
      BY <1>1, <1>4, <2>3, <2>5, <2>6 DEF Newest
    <2>8. l = Newest
      BY <2>5, <2>7 DEF Newest
    <2>9. Newest \in Range(s)
      BY <1>2, <2>3, <2>8, InRange DEF l
    <2> QED
      BY <2>9 DEF s
  <1> QED
    BY <1>3, <1>4

LEMMA HelloKeepsCurrent ==
  ASSUME AuditInv, StreamsInv, CurrentInv, NEW c \in Clients, Hello(c)
  PROVE  CurrentInv'
  <1>1. /\ helloReceived' = [helloReceived EXCEPT ![c] = TRUE]
        /\ listeners' = [listeners EXCEPT ![c] = @ + 1]
        /\ UNCHANGED <<known, disposed, log, ringBuffer, open, seen>>
    BY DEF Hello, Subscribe, runVars
  <1>2. NewestInv' /\ Newest' = Newest
    BY <1>1, NewestStays DEF CurrentInv
  <1>3. ASSUME ~disposed, NEW d \in Clients
        PROVE  /\ open'[d] /\ helloReceived'[d] => listeners'[d] = 1
               /\ listeners'[d] = 1 /\ known => Newest \in Range(seen[d]) \union Range(wire'[d])
    <2>1. CASE d = c
      <3>1. listeners'[c] = 1 /\ wire'[c] = Replay(ResumeSeq(c))
        BY <1>1, HelloSends DEF StreamsInv, SocketInv
      <3>2. known => Newest \in Range(seen[c]) \union Range(Replay(ResumeSeq(c)))
        BY <1>3, BacklogIsCurrent DEF CurrentInv
      <3> QED
        BY <2>1, <3>1, <3>2
    <2>2. CASE d # c
      <3>1. /\ open'[d] = open[d] /\ helloReceived'[d] = helloReceived[d]
            /\ listeners'[d] = listeners[d]
        BY <1>1, <2>2 DEF StreamsInv, SocketInv
      <3>2. PICK resyncs \in Seq({Resync}) : wire'[d] = wire[d] \o resyncs
        BY <2>2, HelloSends
      <3>3. resyncs \in Seq(Sent)
        BY <3>2, SeqMonotonic DEF Sent
      <3>4. Range(wire'[d]) = Range(wire[d]) \union Range(resyncs)
        BY <3>2, <3>3, RangeGrows, StreamTypes
      <3> QED
        BY <1>3, <3>1, <3>4 DEF CurrentInv, ListenersInv, Reaches
    <2> QED
      BY <2>1, <2>2
  <1> QED
    BY <1>1, <1>2, <1>3 DEF CurrentInv, ListenersInv, Reaches

LEMMA ReceiveKeepsCurrent ==
  ASSUME AuditInv, StreamsInv, CurrentInv, NEW c \in Clients, Receive(c)
  PROVE  CurrentInv'
  <1>1. /\ wire[c] # <<>> /\ wire' = [wire EXCEPT ![c] = Tail(@)]
        /\ IF Head(wire[c]) = Resync
           THEN UNCHANGED seen
           ELSE seen' = [seen EXCEPT ![c] = Append(@, Head(wire[c]))]
        /\ UNCHANGED <<known, disposed, log, ringBuffer, open, helloReceived, listeners>>
    BY DEF Receive, runVars
  <1>2. NewestInv' /\ Newest' = Newest
    BY <1>1, NewestStays DEF CurrentInv
  <1>3. DOMAIN wire = Clients /\ DOMAIN seen = Clients
    BY DEF StreamsInv, SocketInv
  <1>4. ASSUME NEW f \in Frames, f \in Range(seen[c]) \union Range(wire[c])
        PROVE  f \in Range(seen'[c]) \union Range(wire'[c])
    <2> DEFINE w == wire[c]
               h == Head(wire[c])
    <2>1. w \in Seq(Sent) /\ seen[c] \in Seq(Frames)
      BY StreamTypes
    <2>2. /\ Tail(w) \in Seq(Sent) /\ Len(Tail(w)) = Len(w) - 1 /\ h = w[1]
          /\ \A i \in 1..Len(Tail(w)) : Tail(w)[i] = w[i + 1]
          /\ Len(w) \in Nat \ {0}
      BY <1>1, <2>1, HeadTailProperties, EmptySeq
    <2>3. wire'[c] = Tail(w)
      BY <1>1, <1>3
    <2>4. f \in Range(w) => f = h \/ f \in Range(Tail(w))
      <3> SUFFICES ASSUME f \in Range(w), f # h
                   PROVE  f \in Range(Tail(w))
        OBVIOUS
      <3> HIDE DEF w, h
      <3>1. PICK k \in 1..Len(w) : w[k] = f
        BY <2>1, InRange
      <3>2. k - 1 \in 1..Len(Tail(w)) /\ (k - 1) + 1 = k
        BY <2>2, <3>1
      <3>3. Tail(w)[k - 1] = f
        BY <2>2, <3>1, <3>2
      <3> QED
        BY <2>2, <3>2, <3>3, InRange
    <2>5. CASE h = Resync
      BY <1>1, <1>4, <2>3, <2>4, <2>5, ResyncIsNoFrame
    <2>6. CASE h # Resync
      <3>1. seen'[c] = Append(seen[c], h)
        BY <1>1, <1>3, <2>6
      <3>2. h \in Frames
        BY <1>1, <2>6, ReceivedIsInOrder DEF StreamsInv, OrderInv
      <3>3. /\ seen'[c] \in Seq(Frames) /\ Len(seen'[c]) = Len(seen[c]) + 1
            /\ seen'[c][Len(seen[c]) + 1] = h /\ Len(seen[c]) \in Nat
            /\ \A k \in 1..Len(seen[c]) : seen'[c][k] = seen[c][k]
        BY <2>1, <3>1, <3>2, AppendProperties
      <3>4. h \in Range(seen'[c])
        BY <3>3, InRange
      <3>5. f \in Range(seen[c]) => f \in Range(seen'[c])
        BY <2>1, <3>3, InRange
      <3> QED
        BY <1>4, <2>3, <2>4, <3>4, <3>5
    <2> QED
      BY <2>5, <2>6
  <1>5. known => Newest \in Frames
    <2>1. log \in Seq(Frames) /\ Len(log) \in Nat
      BY EpochType
    <2> QED
      BY <2>1 DEF CurrentInv, NewestInv, Newest
  <1>6. \A d \in Clients \ {c} : seen'[d] = seen[d] /\ wire'[d] = wire[d]
    BY <1>1, <1>3
  <1>7. \A d \in Clients : known /\ Reaches(d, Newest) => Reaches(d, Newest)'
    BY <1>2, <1>4, <1>5, <1>6 DEF Reaches
  <1> QED
    BY <1>1, <1>2, <1>7 DEF CurrentInv, ListenersInv

LEMMA CurrentInductive == AuditInv /\ StreamsInv /\ CurrentInv /\ [Next]_vars => CurrentInv'
  <1> SUFFICES ASSUME AuditInv, StreamsInv, CurrentInv, [Next]_vars
               PROVE  CurrentInv'
    OBVIOUS
  <1>1. CASE WorkflowPublishes \/ ReviewerDecides \/ Finish
    BY <1>1, Publications, EmitKeepsCurrent
  <1>2. CASE Dispose
    BY <1>2 DEF Dispose, CurrentInv, NewestInv, ListenersInv, Newest
  <1>3. ASSUME NEW c \in Clients, NEW fresh \in BOOLEAN, Connect(c, fresh)
        PROVE  CurrentInv'
    <2>1. /\ ~open[c] /\ open' = [open EXCEPT ![c] = TRUE]
          /\ helloReceived' = [helloReceived EXCEPT ![c] = FALSE]
          /\ seen' = [seen EXCEPT ![c] = <<>>] \/ UNCHANGED seen
          /\ UNCHANGED <<known, disposed, log, ringBuffer, listeners, wire>>
      BY <1>3 DEF Connect, runVars
    <2>2. NewestInv' /\ Newest' = Newest
      BY <2>1, NewestStays DEF CurrentInv
    <2>3. listeners[c] # 1
      BY <2>1 DEF StreamsInv, SocketInv
    <2>4. ~helloReceived'[c] /\ \A d \in Clients \ {c} :
            open'[d] = open[d] /\ helloReceived'[d] = helloReceived[d] /\ seen'[d] = seen[d]
      BY <2>1 DEF StreamsInv, SocketInv
    <2> QED
      BY <2>1, <2>2, <2>3, <2>4 DEF CurrentInv, ListenersInv, Reaches
  <1>4. ASSUME NEW c \in Clients, Drop(c)
        PROVE  CurrentInv'
    <2>1. /\ open' = [open EXCEPT ![c] = FALSE]
          /\ listeners' = [listeners EXCEPT ![c] = IF @ = 0 THEN 0 ELSE @ - 1]
          /\ wire' = [wire EXCEPT ![c] = <<>>]
          /\ UNCHANGED <<known, disposed, log, ringBuffer, helloReceived, seen>>
      BY <1>4 DEF Drop, runVars
    <2>2. NewestInv' /\ Newest' = Newest
      BY <2>1, NewestStays DEF CurrentInv
    <2>3. ~open'[c] /\ listeners'[c] # 1
      BY <2>1 DEF StreamsInv, SocketInv
    <2>4. \A d \in Clients \ {c} :
            open'[d] = open[d] /\ listeners'[d] = listeners[d] /\ wire'[d] = wire[d]
      BY <2>1 DEF StreamsInv, SocketInv
    <2> QED
      BY <2>1, <2>2, <2>3, <2>4 DEF CurrentInv, ListenersInv, Reaches
  <1>5. ASSUME NEW c \in Clients, Hello(c) \/ Receive(c)
        PROVE  CurrentInv'
    BY <1>5, HelloKeepsCurrent, ReceiveKeepsCurrent
  <1>6. ASSUME UNCHANGED <<runVars, clientVars, wire>>
        PROVE  CurrentInv'
    BY <1>6, NewestStays DEF runVars, clientVars, CurrentInv, ListenersInv, Reaches
  <1>7. ASSUME NEW f \in inserting, Insert(f) \/ InsertFails(f)
        PROVE  CurrentInv'
    BY <1>6, <1>7 DEF Insert, InsertFails
  <1>8. CASE UNCHANGED vars
    BY <1>6, <1>8 DEF vars
  <1> QED
    BY <1>1, <1>2, <1>3, <1>4, <1>5, <1>7, <1>8 DEF Next

\* Nothing falls between the replay and the subscription: however the steps of
\* connecting clients and of publishers alternate, a client that said hello and
\* is still connected has, or is about to receive, the newest frame.
THEOREM SubscribersMissNothing == Spec => []SubscriberIsCurrent
  <1>1. Init => CurrentInv
    BY DEF Init, CurrentInv, NewestInv, ListenersInv
  <1>2. AuditInv /\ CurrentInv => SubscriberIsCurrent
    <2> SUFFICES ASSUME AuditInv, CurrentInv, NEW c \in Clients,
                        open[c], helloReceived[c], known, ~Reborn
                 PROVE  log # <<>> /\ Reaches(c, Last(log))
      BY DEF SubscriberIsCurrent
    <2>1. ~disposed /\ Len(log) > 0 /\ Reaches(c, Newest)
      BY DEF CurrentInv, NewestInv, ListenersInv, AuditInv, LogInv
    <2> QED
      BY <2>1, EmptySeq DEF Last, Newest
  <1> QED
    BY <1>1, <1>2, AuditInitially, AuditInductive, StreamsInitially, StreamsInductive,
       CurrentInductive, PTL DEF Spec

-----------------------------------------------------------------------------
(* Gaps are evictions. The buffer is the end of the log, and the whole     *)
(* epoch when it is not full; who listens has the newest frame if it has   *)
(* any of the epoch, and lacks all of them only when there are none.       *)

WindowInv ==
  /\ Len(ringBuffer) <= MaxBufferSize /\ Len(ringBuffer) <= Len(log)
  /\ \A k \in 1..Len(ringBuffer) : ringBuffer[k] = log[Len(log) - Len(ringBuffer) + k]
  /\ Len(ringBuffer) < MaxBufferSize =>
       \A i \in 1..Len(log) : log[i].epoch = Epoch => i > Len(log) - Len(ringBuffer)

Follows(had) ==
  /\ (\E g \in had : g.epoch = Epoch) => Newest \in had
  /\ had = {} => \A i \in 1..Len(log) : log[i].epoch # Epoch

OnlyEvicted(had) ==
  \A f \in had : \A i \in Missing(had, f) :
    Continues(had, i) => i <= Len(log) - MaxBufferSize

FollowInv == \A c \in Clients : listeners[c] = 1 => Follows(Stream(c))

GapsInv == WindowInv /\ FollowInv /\ \A c \in Clients : OnlyEvicted(Stream(c))

LEMMA InStream ==
  ASSUME StreamsInv, NEW c \in Clients
  PROVE  /\ \A g \in Stream(c) : g \in Frames /\ Published(g)
         /\ \A k \in 1..Len(seen[c]) : seen[c][k] \in Stream(c)
         /\ Stream(c) = Range(seen[c]) \union (Range(wire[c]) \ {Resync})
  <1> DEFINE s == seen[c]
             w == wire[c]
  <1>1. /\ s \in Seq(Frames) /\ w \in Seq(Sent)
        /\ \A k \in 1..Len(s) : Published(s[k])
        /\ \A k \in 1..Len(w) : w[k] # Resync => Published(w[k])
    BY DEF StreamsInv, OrderInv, InOrder
  <1>2. \A g \in Range(s) : g \in Frames /\ Published(g) /\ g # Resync
    <2> SUFFICES ASSUME NEW g \in Range(s)
                 PROVE  g \in Frames /\ Published(g) /\ g # Resync
      OBVIOUS
    <2>1. PICK k \in 1..Len(s) : s[k] = g
      BY <1>1, InRange
    <2>2. g \in Frames
      BY <1>1, <2>1
    <2> QED
      BY <1>1, <2>1, <2>2, ResyncIsNoFrame
  <1>3. \A g \in Range(w) : g # Resync => g \in Frames /\ Published(g)
    <2> SUFFICES ASSUME NEW g \in Range(w), g # Resync
                 PROVE  g \in Frames /\ Published(g)
      OBVIOUS
    <2>1. PICK k \in 1..Len(w) : w[k] = g
      BY <1>1, InRange
    <2>2. g \in Sent
      BY <1>1, <2>1
    <2> QED
      BY <1>1, <2>1, <2>2 DEF Sent
  <1>4. \A k \in 1..Len(s) : s[k] \in Range(s)
    BY <1>1, InRange
  <1> QED
    BY <1>2, <1>3, <1>4 DEF Stream

\* A gap in what a client has of a log that grew is the gap it was.
LEMMA OldGapsStay ==
  ASSUME AuditInv, PlacesInv, NEW f \in Frames, log' = Append(log, f),
         NEW had, \A g \in had : Published(g), OnlyEvicted(had)
  PROVE  /\ OnlyEvicted(had)'
         /\ \A g \in had : g.id < Len(log) + 1
         /\ \A g \in had : \A i \in 1..g.id - 1 : i \in 1..Len(log) /\ log'[i] = log[i]
  <1>1. /\ log' \in Seq(Frames) /\ Len(log') = Len(log) + 1 /\ Len(log) \in Nat
        /\ \A i \in 1..Len(log) : log'[i] = log[i]
    BY EpochType, AppendProperties
  <1>2. \A g \in had : g.id \in 1..Len(log)
    BY DEF Published
  <1>3. \A g \in had : g.id < Len(log) + 1 /\ \A i \in 1..g.id - 1 : i \in 1..Len(log)
    BY <1>1, <1>2
  <1>4. ASSUME NEW g \in had, NEW i \in Missing(had, g)', Continues(had, i)'
        PROVE  i <= Len(log') - MaxBufferSize
    <2>1. i \in 1..Len(log) /\ log'[i] = log[i]
      BY <1>1, <1>3, <1>4 DEF Missing
    <2>2. i \in Missing(had, g) /\ Continues(had, i)
      BY <1>4, <2>1 DEF Missing, Continues
    <2>3. i <= Len(log) - MaxBufferSize
      BY <2>2 DEF OnlyEvicted
    <2> QED
      BY <1>1, <2>1, <2>3
  <1>5. OnlyEvicted(had)'
    BY <1>4 DEF OnlyEvicted
  <1> QED
    BY <1>1, <1>3, <1>5

\* The frame that is published now leaves no gap behind it for a listener.
LEMMA NewestLeavesNoGap ==
  ASSUME AuditInv, PlacesInv, NEW f \in Frames, f.id = Len(log) + 1, f.epoch = Epoch,
         log' = Append(log, f), NEW had, \A g \in had : Published(g),
         OnlyEvicted(had), Follows(had), UNCHANGED disposed
  PROVE  OnlyEvicted(had \union {f})' /\ Follows(had \union {f})'
  <1> DEFINE new == had \union {f}
  <1>1. /\ log' \in Seq(Frames) /\ Len(log') = Len(log) + 1 /\ Len(log) \in Nat
        /\ \A i \in 1..Len(log) : log'[i] = log[i] /\ log[i].id = i
        /\ log'[Len(log')] = f /\ Epoch' = Epoch
    BY EpochType, AppendProperties DEF PlacesInv, Epoch
  <1>2. /\ OnlyEvicted(had)'
        /\ \A g \in had : g.id < f.id
        /\ \A g \in had : \A i \in 1..g.id - 1 : i \in 1..Len(log) /\ log'[i] = log[i]
    BY OldGapsStay
  <1>3. Follows(new)'
    BY <1>1 DEF Follows, Newest
  <1>4. ASSUME NEW g \in new, NEW i \in Missing(new, g)', Continues(new, i)'
        PROVE  i <= Len(log') - MaxBufferSize
    <2>1. i \in 1..g.id - 1 /\ log'[i].epoch = g.epoch /\ log'[i] \notin new
      BY <1>4 DEF Missing
    <2>2. i \in 1..Len(log) /\ log'[i] = log[i] /\ i < f.id
      BY <1>1, <1>2, <2>1
    <2>3. Continues(had, i)'
      BY <1>4, <2>2, <1>1 DEF Continues
    <2>4. CASE g \in had
      <3>1. i \in Missing(had, g)'
        BY <2>1 DEF Missing
      <3> QED
        BY <1>2, <2>3, <2>4, <3>1 DEF OnlyEvicted
    <2>5. CASE g = f
      <3>1. log[i].epoch = Epoch
        BY <2>1, <2>2, <2>5
      <3>2. \E h \in had : h.epoch = Epoch
        <4> SUFFICES ASSUME \A h \in had : h.epoch # Epoch
                     PROVE  FALSE
          OBVIOUS
        <4>1. \A h \in had : h.id > i
          BY <2>2, <2>3, <3>1 DEF Continues
        <4>2. ASSUME NEW h \in had
              PROVE  FALSE
          <5>1. h.id \in 1..Len(log) /\ h = log[h.id] /\ i < h.id
            BY <4>1, <4>2 DEF Published
          <5>2. h.epoch <= Epoch /\ log[i].epoch <= h.epoch
            BY <2>2, <5>1 DEF PlacesInv
          <5>3. h \in Frames
            BY <1>1, <5>1, EpochType
          <5>4. h.epoch = Epoch
            BY <3>1, <5>2, <5>3, FrameFields, EpochType
          <5> QED
            BY <5>4
        <4>3. had = {}
          BY <4>2
        <4> QED
          BY <2>2, <3>1, <4>3 DEF Follows
      <3>3. Newest \in had
        BY <3>2 DEF Follows
      <3>4. Newest = log[Len(log)] /\ Len(log) \in 1..Len(log) /\ Newest.id = Len(log)
        BY <1>1, <2>2 DEF Newest
      <3>5. i # Len(log)
        BY <2>1, <2>2, <3>3, <3>4
      <3>6. Newest.epoch = Epoch
        <4>1. PICK h \in had : h.epoch = Epoch
          BY <3>2
        <4>2. h.id \in 1..Len(log) /\ h = log[h.id]
          BY DEF Published
        <4>3. Newest \in Frames /\ Newest.epoch <= Epoch /\ (h.id < Len(log) => h.epoch <= Newest.epoch)
          BY <3>4, <4>2, EpochType DEF PlacesInv
        <4>4. h.id < Len(log) \/ h = Newest
          BY <1>1, <3>4, <4>2
        <4> QED
          BY <4>1, <4>3, <4>4, FrameFields, EpochType
      <3>7. PICK n : n = Newest
        OBVIOUS
      <3>8. i \in Missing(had, n)'
        BY <2>1, <2>2, <3>1, <3>4, <3>5, <3>6, <3>7 DEF Missing
      <3> QED
        BY <1>2, <2>3, <3>3, <3>7, <3>8 DEF OnlyEvicted
    <2> QED
      BY <2>4, <2>5
  <1>5. OnlyEvicted(new)'
    BY <1>4 DEF OnlyEvicted
  <1> QED
    BY <1>3, <1>5

LEMMA PushKeepsWindow ==
  ASSUME AuditInv, StreamsInv, WindowInv, NEW f \in Frames, f.epoch = Epoch,
         log' = Append(log, f), ringBuffer' = PushToBuffer(ringBuffer, f), UNCHANGED disposed
  PROVE  WindowInv'
  <1> DEFINE b == ringBuffer
             n == Len(ringBuffer)
  <1>1. /\ log' \in Seq(Frames) /\ Len(log') = Len(log) + 1 /\ Len(log) \in Nat
        /\ \A i \in 1..Len(log) : log'[i] = log[i]
        /\ log'[Len(log) + 1] = f /\ Epoch' = Epoch
    BY EpochType, AppendProperties DEF Epoch
  <1>2. b \in Seq(Frames) /\ n \in Nat /\ n <= MaxBufferSize /\ n <= Len(log)
    BY DEF StreamsInv, BufferInv, WindowInv
  <1>3. \A k \in 1..n : b[k] = log[Len(log) - n + k]
    BY DEF WindowInv
  <1>4. CASE n = MaxBufferSize
    <2> DEFINE t == Tail(b)
               new == Append(t, f)
    <2>1. t \in Seq(Frames) /\ Len(t) = n - 1 /\ \A k \in 1..n - 1 : t[k] = b[k + 1]
      BY <1>2, <1>4, HeadTailProperties, EmptySeq
    <2> HIDE DEF t
    <2>2. /\ ringBuffer' = new /\ Len(new) = n /\ new[n] = f
          /\ \A k \in 1..n - 1 : new[k] = b[k + 1]
      <3>1. ringBuffer' = new
        BY <1>4 DEF PushToBuffer, t
      <3>2. Len(new) = Len(t) + 1 /\ new[Len(t) + 1] = f /\ \A k \in 1..Len(t) : new[k] = t[k]
        BY <2>1, AppendProperties
      <3> QED
        BY <1>2, <2>1, <3>1, <3>2
    <2> HIDE DEF new
    <2>3. \A k \in 1..n : new[k] = log'[Len(log') - n + k]
      <3> SUFFICES ASSUME NEW k \in 1..n
                   PROVE  new[k] = log'[Len(log') - n + k]
        OBVIOUS
      <3>1. CASE k = n
        BY <1>1, <1>2, <2>2, <3>1
      <3>2. CASE k \in 1..n - 1
        <4>1. k + 1 \in 1..n /\ Len(log) - n + (k + 1) \in 1..Len(log)
              /\ Len(log') - n + k = Len(log) - n + (k + 1)
          BY <1>1, <1>2, <3>2
        <4>2. new[k] = log[Len(log) - n + (k + 1)]
          BY <1>3, <2>2, <3>2, <4>1
        <4> HIDE DEF n
        <4> QED
          BY <1>1, <4>1, <4>2
      <3> QED
        BY <1>2, <3>1, <3>2
    <2>4. Len(ringBuffer') = n
          /\ \A k \in 1..Len(ringBuffer') : ringBuffer'[k] = log'[Len(log') - Len(ringBuffer') + k]
      BY <2>2, <2>3
    <2>5. /\ Len(ringBuffer') <= MaxBufferSize /\ Len(ringBuffer') <= Len(log')
          /\ ~(Len(ringBuffer') < MaxBufferSize)
      BY <1>1, <1>2, <1>4, <2>4
    <2> QED
      BY <2>4, <2>5, Zenon DEF WindowInv
  <1>5. CASE n # MaxBufferSize
    <2> DEFINE new == Append(b, f)
    <2>1. /\ ringBuffer' = new /\ Len(new) = n + 1 /\ new[n + 1] = f
          /\ \A k \in 1..n : new[k] = b[k]
      BY <1>2, <1>5, AppendProperties DEF PushToBuffer
    <2> HIDE DEF new
    <2>2. \A k \in 1..n + 1 : new[k] = log'[Len(log') - (n + 1) + k]
      <3> SUFFICES ASSUME NEW k \in 1..n + 1
                   PROVE  new[k] = log'[Len(log') - (n + 1) + k]
        OBVIOUS
      <3>1. CASE k = n + 1
        BY <1>1, <1>2, <2>1, <3>1
      <3>2. CASE k \in 1..n
        <4>1. Len(log) - n + k \in 1..Len(log)
              /\ Len(log') - (n + 1) + k = Len(log) - n + k
          BY <1>1, <1>2, <3>2
        <4>2. new[k] = log[Len(log) - n + k]
          BY <1>3, <2>1, <3>2
        <4> HIDE DEF n
        <4> QED
          BY <1>1, <4>1, <4>2
      <3> QED
        BY <1>2, <3>1, <3>2
    <2>3. \A i \in 1..Len(log') : log'[i].epoch = Epoch => i > Len(log') - (n + 1)
      <3>1. \A i \in 1..Len(log) : log[i].epoch = Epoch => i > Len(log) - n
        BY <1>2, <1>5 DEF WindowInv
      <3> SUFFICES ASSUME NEW i \in 1..Len(log'), log'[i].epoch = Epoch
                   PROVE  i > Len(log') - (n + 1)
        OBVIOUS
      <3> HIDE DEF n
      <3>2. CASE i \in 1..Len(log)
        BY <1>1, <1>2, <3>1, <3>2
      <3>3. CASE i = Len(log) + 1
        BY <1>1, <1>2, <3>3
      <3> QED
        BY <1>1, <3>2, <3>3
    <2>4. Len(ringBuffer') = n + 1
          /\ \A k \in 1..Len(ringBuffer') : ringBuffer'[k] = log'[Len(log') - Len(ringBuffer') + k]
      <3>1. ringBuffer' = new /\ Len(ringBuffer') = n + 1
        BY <2>1
      <3> HIDE DEF n
      <3> QED
        BY <2>2, <3>1, Zenon
    <2>5. Len(ringBuffer') <= MaxBufferSize /\ Len(ringBuffer') <= Len(log')
      BY <1>1, <1>2, <1>5, <2>4
    <2>6. \A i \in 1..Len(log') : log'[i].epoch = Epoch' => i > Len(log') - Len(ringBuffer')
      BY <1>1, <2>3, <2>4
    <2> QED
      BY <2>4, <2>5, <2>6, Zenon DEF WindowInv
  <1> QED
    BY <1>4, <1>5

LEMMA EmitKeepsGaps ==
  ASSUME AuditInv, StreamsInv, GapsInv, NEW type \in Types, Len(log) < MaxFrames,
         Emit(NextFrame(type)), UNCHANGED <<disposed, clientVars>>
  PROVE  GapsInv'
  <1>1. PICK f : f = NextFrame(type) /\ f \in Frames /\ f.epoch = Epoch /\ f.id = Len(log) + 1
    BY NewFrame DEF NextFrame
  <1>2. /\ log' = Append(log, f) /\ ringBuffer' = PushToBuffer(ringBuffer, f)
        /\ wire' = [c \in Clients |->
                      IF open[c] THEN wire[c] \o [k \in 1..listeners[c] |-> f] ELSE wire[c]]
        /\ UNCHANGED <<listeners, seen>>
    BY <1>1 DEF Emit, FanOut, clientVars
  <1>3. WindowInv'
    BY <1>1, <1>2, PushKeepsWindow DEF GapsInv
  <1>4. ASSUME NEW c \in Clients
        PROVE  OnlyEvicted(Stream(c))' /\ (listeners'[c] = 1 => Follows(Stream(c))')
    <2> DEFINE had == Stream(c)
               sent == [k \in 1..listeners[c] |-> f]
    <2>1. /\ listeners[c] \in {0, 1} /\ (listeners[c] = 1 => open[c])
          /\ wire[c] \in Seq(Sent)
          /\ Stream(c) = Range(seen[c]) \union (Range(wire[c]) \ {Resync})
          /\ \A g \in had : Published(g)
      BY StreamTypes, InStream DEF StreamsInv, SocketInv
    <2>2. sent \in Seq(Sent) /\ Len(sent) = listeners[c] /\ \A k \in 1..listeners[c] : sent[k] = f
      BY <1>1, <2>1, Copies DEF Sent
    <2>3. wire'[c] = IF open[c] THEN wire[c] \o sent ELSE wire[c]
      BY <1>2
    <2> HIDE DEF sent
    <2>4. OnlyEvicted(had)
      BY DEF GapsInv
    <2>5. CASE listeners[c] = 0
      <3>1. wire'[c] = wire[c]
        BY <2>1, <2>2, <2>3, <2>5, EmptySeq, ConcatEmptySeq
      <3>2. Stream(c)' = had
        BY <1>2, <3>1 DEF Stream
      <3>3. PICK old : old = had
        OBVIOUS
      <3>4. OnlyEvicted(old)'
        BY <1>1, <1>2, <2>1, <2>4, <3>3, OldGapsStay DEF StreamsInv
      <3>5. OnlyEvicted(Stream(c))'
        BY <3>2, <3>3, <3>4 DEF OnlyEvicted, Missing, Continues
      <3> QED
        BY <1>2, <2>5, <3>5
    <2>6. CASE listeners[c] = 1
      <3>1. Range(wire'[c]) = Range(wire[c]) \union Range(sent)
        BY <2>1, <2>2, <2>3, <2>6, RangeGrows
      <3>2. Range(sent) = {f}
        <4>1. \A e : e \in Range(sent) <=> e = f
          BY <2>2, <2>6, InRange
        <4> QED
          BY <4>1
      <3>3. Stream(c)' = had \union {f}
        BY <1>1, <1>2, <2>1, <3>1, <3>2, ResyncIsNoFrame DEF Stream
      <3>4. PICK new : new = had \union {f}
        OBVIOUS
      <3>5. Follows(had)
        BY <2>6 DEF GapsInv, FollowInv
      <3>6. PICK old : old = had
        OBVIOUS
      <3>7. OnlyEvicted(old \union {f})' /\ Follows(old \union {f})'
        BY <1>1, <1>2, <2>1, <2>4, <3>5, <3>6, NewestLeavesNoGap DEF StreamsInv
      <3> QED
        BY <3>3, <3>6, <3>7 DEF OnlyEvicted, Follows, Missing, Continues
    <2> QED
      BY <2>1, <2>5, <2>6
  <1> QED
    BY <1>3, <1>4 DEF GapsInv, FollowInv

\* What comes later fills no gap in what came before.
LEMMA EarlierPart ==
  ASSUME StreamsInv, NEW had, NEW part \in SUBSET had, OnlyEvicted(had),
         \A g \in had : Published(g),
         \A f \in part : \A g \in had \ part : f.id < g.id
  PROVE  OnlyEvicted(part)
  <1> SUFFICES ASSUME NEW f \in part, NEW i \in Missing(part, f), Continues(part, i)
               PROVE  i <= Len(log) - MaxBufferSize
    BY DEF OnlyEvicted
  <1>1. i \in 1..f.id - 1 /\ log[i].epoch = f.epoch /\ log[i] \notin part
    BY DEF Missing
  <1>2. f.id \in 1..Len(log) /\ i \in 1..Len(log) /\ i < f.id
    BY <1>1 DEF Published
  <1>3. log[i].id = i
    BY <1>2 DEF StreamsInv, PlacesInv
  <1>4. log[i] \notin had
    BY <1>1, <1>2, <1>3
  <1>5. i \in Missing(had, f)
    BY <1>1, <1>4 DEF Missing
  <1>6. \A g \in had \ part : f.id < g.id
    OBVIOUS
  <1>7. Continues(had, i)
    <2>1. CASE \A g \in part : g.id > i
      <3>1. ASSUME NEW g \in had \ part
            PROVE  g.id > i
        BY <1>2, <1>6 DEF Published
      <3> QED
        BY <1>2, <2>1, <3>1 DEF Continues
    <2>2. CASE \E g \in part : g.id < i /\ g.epoch = log[i].epoch
      BY <2>2 DEF Continues
    <2> QED
      BY <2>1, <2>2 DEF Continues
  <1> QED
    BY <1>5, <1>7 DEF OnlyEvicted

\* Of the current epoch, what is not in the buffer was evicted.
LEMMA InWindow ==
  ASSUME AuditInv, StreamsInv, WindowInv, NEW i \in 1..Len(log), log[i].epoch = Epoch
  PROVE  /\ i <= Len(log) - MaxBufferSize \/ \E j \in 1..Len(ringBuffer) : ringBuffer[j] = log[i]
         /\ Newest \in Frames /\ Newest = log[Len(log)] /\ Newest.epoch = Epoch
         /\ \E j \in 1..Len(ringBuffer) : ringBuffer[j] = Newest
  <1> DEFINE n == Len(ringBuffer)
  <1>1. /\ n \in Nat /\ n <= MaxBufferSize /\ n <= Len(log) /\ Len(log) \in Nat
        /\ \A k \in 1..n : ringBuffer[k] = log[Len(log) - n + k]
        /\ n < MaxBufferSize => \A k \in 1..Len(log) : log[k].epoch = Epoch => k > Len(log) - n
    BY EpochType DEF WindowInv, StreamsInv, BufferInv
  <1>2. ASSUME NEW k \in 1..Len(log), log[k].epoch = Epoch, k > Len(log) - MaxBufferSize
        PROVE  \E j \in 1..n : ringBuffer[j] = log[k]
    <2> HIDE DEF n
    <2>1. k > Len(log) - n
      BY <1>1, <1>2
    <2>2. k - (Len(log) - n) \in 1..n /\ Len(log) - n + (k - (Len(log) - n)) = k
      BY <1>1, <2>1
    <2>3. ringBuffer[k - (Len(log) - n)] = log[k]
      BY <1>1, <2>2
    <2> QED
      BY <2>2, <2>3
  <1>3. Len(log) \in 1..Len(log) /\ Len(log) > Len(log) - MaxBufferSize
    BY <1>1
  <1>4. Newest \in Frames /\ Newest = log[Len(log)] /\ log[Len(log)].epoch = Epoch
    <2>1. Newest = log[Len(log)] /\ Newest \in Frames
      BY <1>3, EpochType DEF Newest
    <2>2. Newest.epoch <= Epoch /\ (i < Len(log) => Epoch <= Newest.epoch)
      BY <1>3, <2>1 DEF StreamsInv, PlacesInv
    <2>3. i < Len(log) \/ i = Len(log)
      BY <1>1
    <2> QED
      BY <2>1, <2>2, <2>3, FrameFields, EpochType
  <1>5. i <= Len(log) - MaxBufferSize \/ i > Len(log) - MaxBufferSize
    BY <1>1
  <1> QED
    BY <1>2, <1>3, <1>4, <1>5

\* The backlog leaves no gap that the buffer could have filled.
LEMMA BacklogLeavesNoGap ==
  ASSUME AuditInv, StreamsInv, WindowInv, NEW c \in Clients, InOrder(seen[c], <<>>),
         OnlyEvicted(Range(seen[c]))
  PROVE  /\ OnlyEvicted(Range(seen[c]) \union Range(Replay(ResumeSeq(c))))
         /\ Follows(Range(seen[c]) \union Range(Replay(ResumeSeq(c))))
  <1> DEFINE s == seen[c]
             from == ResumeSeq(c)
             b == Replay(from)
             had == Range(s)
             new == had \union Range(b)
             l == s[Len(s)]
  <1>1. PartOf(b, Len(ringBuffer), from)
    BY KeptIsPart DEF Replay, StreamsInv, BufferInv
  <1>2. InOrder(s, b)
    BY BacklogIsLater DEF StreamsInv
  <1>3. s \in Seq(Frames) /\ b \in Seq(Frames) /\ Len(s) \in Nat
    BY <1>1, <1>2 DEF PartOf, InOrder
  <1>4. \A g \in had : g \in Frames /\ Published(g) /\ \E k \in 1..Len(s) : s[k] = g
    <2> SUFFICES ASSUME NEW g \in had
                 PROVE  g \in Frames /\ Published(g) /\ \E k \in 1..Len(s) : s[k] = g
      OBVIOUS
    <2>1. PICK k \in 1..Len(s) : s[k] = g
      BY <1>3, InRange
    <2>2. g \in Frames
      BY <1>3, <2>1
    <2> QED
      BY <1>2, <2>1, <2>2 DEF InOrder
  <1>5. \A g \in Range(b) : /\ g \in Frames /\ Published(g) /\ g.epoch = Epoch /\ g.seq > from
                            /\ \A h \in had : h.id < g.id
    <2> SUFFICES ASSUME NEW g \in Range(b)
                 PROVE  /\ g \in Frames /\ Published(g) /\ g.epoch = Epoch /\ g.seq > from
                        /\ \A h \in had : h.id < g.id
      OBVIOUS
    <2> HIDE DEF b, from
    <2>1. PICK k \in 1..Len(b) : b[k] = g
      BY <1>3, InRange
    <2>2. g \in Frames
      BY <1>3, <2>1
    <2>3. Published(g) /\ g.epoch = Epoch /\ g.seq > from
      BY <1>1, <2>1 DEF PartOf, StreamsInv, BufferInv
    <2>4. \A j \in 1..Len(s) : s[j].id < g.id
      BY <1>2, <2>1, <2>2, ResyncIsNoFrame DEF InOrder
    <2> QED
      BY <1>4, <2>2, <2>3, <2>4
  <1>6. \A j \in 1..Len(ringBuffer) : ringBuffer[j].seq > from => ringBuffer[j] \in Range(b)
    <2> HIDE DEF b, from
    <2> SUFFICES ASSUME NEW j \in 1..Len(ringBuffer), ringBuffer[j].seq > from
                 PROVE  ringBuffer[j] \in Range(b)
      OBVIOUS
    <2>1. \E k \in 1..Len(b) : b[k] = ringBuffer[j]
      BY <1>1 DEF PartOf
    <2> QED
      BY <1>3, <2>1, InRange
  <1>7. \/ had = {} /\ from = -1
        \/ l \in had /\ from = l.seq /\ \A g \in had : g = l \/ g.id < l.id
    <2>1. CASE s = <<>>
      <3>1. \A g : g \notin had
        BY <1>4, <2>1, EmptySeq
      <3> QED
        BY <2>1, <3>1 DEF ResumeSeq
    <2>2. CASE s # <<>>
      <3>1. Len(s) \in 1..Len(s) /\ from = l.seq
        BY <1>3, <2>2, EmptySeq DEF ResumeSeq, Last
      <3>2. l \in had
        BY <1>3, <3>1, InRange
      <3>3. ASSUME NEW g \in had
            PROVE  g = l \/ g.id < l.id
        <4>1. PICK k \in 1..Len(s) : s[k] = g
          BY <1>4
        <4>2. k = Len(s) \/ k < Len(s)
          BY <1>3
        <4> QED
          BY <1>2, <3>1, <4>1, <4>2 DEF InOrder, Increasing
      <3> QED
        BY <3>1, <3>2, <3>3
    <2> QED
      BY <2>1, <2>2
  <1>8. /\ from \in Int /\ Len(log) \in Nat
        /\ \A i \in 1..Len(log) : log[i] \in Frames /\ log[i].id = i /\ log[i].epoch <= Epoch
        /\ \A i, j \in 1..Len(log) : i < j =>
             /\ log[i].epoch <= log[j].epoch
             /\ log[i].epoch = log[j].epoch => log[i].seq < log[j].seq
    <2>1. from \in Int
      BY <1>4, <1>7 DEF Frames
    <2> QED
      BY <2>1, EpochType DEF StreamsInv, PlacesInv
  <1> HIDE DEF b, had, from, l
  <1>9. \A f \in Frames : f.seq \in Nat /\ f.epoch \in {0, 1}
    BY DEF Frames
  \* the last frame seen, if a frame of the epoch is not to be sent
  <1>10. ASSUME NEW i \in 1..Len(log), log[i].epoch = Epoch, log[i].seq <= from,
                NEW g \in new, g.epoch = Epoch, g.id \in 1..Len(log), g = log[g.id], g.id <= i
         PROVE  l \in had /\ Published(l) /\ l.epoch = Epoch /\ l.id >= i
    <2>1. g.seq <= log[i].seq
      BY <1>8, <1>9, <1>10
    <2>2. g \in had
      BY <1>5, <1>8, <1>9, <1>10, <2>1
    <2>3. l \in had /\ from = l.seq /\ (g = l \/ g.id < l.id)
      BY <1>7, <2>2
    <2>4. Published(l) /\ l \in Frames /\ l.id \in 1..Len(log) /\ l = log[l.id]
      BY <1>4, <2>3 DEF Published
    <2>5. l.epoch = Epoch
      BY <1>8, <1>9, <1>10, <2>3, <2>4, EpochType
    <2>6. ~(l.id < i)
      BY <1>8, <1>9, <1>10, <2>3, <2>4, <2>5
    <2> QED
      BY <1>8, <2>3, <2>4, <2>5, <2>6
  <1>11. ASSUME NEW f \in new, NEW i \in Missing(new, f), Continues(new, i)
         PROVE  i <= Len(log) - MaxBufferSize
    <2>1. i \in 1..f.id - 1 /\ log[i].epoch = f.epoch /\ log[i] \notin new
      BY <1>11 DEF Missing
    <2>2. \A g \in new : Published(g) /\ g.id \in 1..Len(log) /\ g = log[g.id]
      BY <1>4, <1>5 DEF Published
    <2>3. i \in 1..Len(log) /\ i < f.id
      BY <2>1, <2>2, <1>8
    <2>4. CASE f \in had
      <3>1. i \in Missing(had, f)
        BY <2>1 DEF Missing
      <3>2. \A g \in Range(b) : f.id < g.id
        BY <1>5, <2>4
      <3>3. Continues(had, i)
        <4>1. CASE \A g \in new : g.id > i
          BY <4>1 DEF Continues
        <4>2. CASE \E g \in new : g.id < i /\ g.epoch = log[i].epoch
          <5>1. PICK g \in new : g.id < i /\ g.epoch = log[i].epoch
            BY <4>2
          <5>2. g \notin Range(b)
            BY <1>8, <2>2, <2>3, <3>2, <5>1
          <5> QED
            BY <5>1, <5>2 DEF Continues
        <4> QED
          BY <1>11, <4>1, <4>2 DEF Continues
      <3> QED
        BY <2>4, <3>1, <3>3 DEF OnlyEvicted, had
    <2>5. CASE f \in Range(b)
      <3> SUFFICES ASSUME ~(i <= Len(log) - MaxBufferSize)
                   PROVE  FALSE
        OBVIOUS
      <3>1. log[i].epoch = Epoch
        BY <1>5, <2>1, <2>5
      <3>2. PICK j \in 1..Len(ringBuffer) : ringBuffer[j] = log[i]
        BY <2>3, <3>1, InWindow
      <3>3. log[i].seq <= from
        BY <1>6, <1>8, <1>9, <2>1, <2>3, <3>2
      <3>4. l \in had /\ Published(l) /\ l.epoch = Epoch /\ l.id > i /\ Continues(had, i)
        <4>1. CASE \A g \in new : g.id > i
          <5>1. l \in had /\ Published(l) /\ l.id > i
            BY <1>4, <1>7, <1>8, <1>9, <2>3, <3>3, <4>1
          <5>2. l.id \in 1..Len(log) /\ l = log[l.id]
            BY <5>1 DEF Published
          <5>3. l.epoch = Epoch
            BY <1>8, <1>9, <2>3, <3>1, <5>1, <5>2, EpochType
          <5> QED
            BY <4>1, <5>1, <5>3 DEF Continues
        <4>2. CASE \E g \in new : g.id < i /\ g.epoch = log[i].epoch
          <5>1. PICK g \in new : g.id < i /\ g.epoch = log[i].epoch
            BY <4>2
          <5>2. g.id \in 1..Len(log) /\ g = log[g.id] /\ g.id <= i
            BY <1>8, <2>2, <2>3, <5>1
          <5>3. l \in had /\ Published(l) /\ l.epoch = Epoch /\ l.id >= i
            BY <1>10, <2>3, <3>1, <3>3, <5>1, <5>2
          <5>4. l.id # i
            BY <2>1, <5>3 DEF Published
          <5>5. g \in had
            <6>1. g.seq < log[i].seq
              BY <1>8, <2>3, <5>1, <5>2
            <6> QED
              BY <1>5, <1>8, <1>9, <2>3, <3>3, <5>2, <6>1
          <5>6. Continues(had, i)
            BY <5>1, <5>5 DEF Continues
          <5>7. l.id > i
            BY <2>3, <5>3, <5>4 DEF Published
          <5> QED
            BY <5>3, <5>6, <5>7
        <4> QED
          BY <1>11, <4>1, <4>2 DEF Continues
      <3>5. l.id \in 1..Len(log)
        BY <3>4 DEF Published
      <3>6. i \in Missing(had, l)
        BY <2>1, <2>3, <3>1, <3>4, <3>5 DEF Missing
      <3> QED
        BY <3>4, <3>6 DEF OnlyEvicted, had
    <2> QED
      BY <2>4, <2>5
  <1>12. ASSUME NEW i \in 1..Len(log), log[i].epoch = Epoch,
                new = {} \/ \E g \in new : g.epoch = Epoch
         PROVE  Newest \in new
    <2>1. /\ Newest \in Frames /\ Newest = log[Len(log)] /\ Newest.epoch = Epoch
          /\ \E j \in 1..Len(ringBuffer) : ringBuffer[j] = Newest
      BY <1>12, InWindow
    <2>2. CASE Newest.seq > from
      BY <1>6, <2>1, <2>2
    <2>3. CASE ~(Newest.seq > from)
      <3>1. Newest.seq <= from /\ Newest.seq \in Nat /\ Len(log) \in 1..Len(log)
        BY <1>8, <1>9, <2>1, <2>3
      <3>2. new # {}
        BY <1>7, <3>1
      <3>3. PICK g \in new : g.epoch = Epoch
        BY <1>12, <3>2
      <3>4. g.id \in 1..Len(log) /\ g = log[g.id] /\ g.id <= Len(log)
        BY <1>4, <1>5 DEF Published
      <3>5. l \in had /\ Published(l) /\ l.id >= Len(log)
        BY <1>10, <2>1, <3>1, <3>3, <3>4
      <3>6. l = Newest
        BY <1>8, <2>1, <3>5 DEF Published
      <3> QED
        BY <3>5, <3>6
    <2> QED
      BY <2>2, <2>3
  <1>13. OnlyEvicted(new)
    BY <1>11 DEF OnlyEvicted
  <1>14. Follows(new)
    <2>1. ASSUME NEW g \in new, g.epoch = Epoch
          PROVE  Newest \in new
      <3>1. g.id \in 1..Len(log) /\ g = log[g.id]
        BY <1>4, <1>5 DEF Published
      <3> QED
        BY <1>12, <2>1, <3>1
    <2>2. new = {} => \A i \in 1..Len(log) : log[i].epoch # Epoch
      BY <1>12
    <2> QED
      BY <2>1, <2>2 DEF Follows
  <1> QED
    BY <1>13, <1>14 DEF b, had, from

LEMMA StreamStays ==
  ASSUME NEW c \in Clients, UNCHANGED <<log, disposed>>, Stream(c)' = Stream(c)
  PROVE  OnlyEvicted(Stream(c))' = OnlyEvicted(Stream(c)) /\ Follows(Stream(c))' = Follows(Stream(c))
  BY DEF OnlyEvicted, Follows, Missing, Continues, Newest, Epoch

LEMMA HelloKeepsGaps ==
  ASSUME AuditInv, StreamsInv, GapsInv, NEW c \in Clients, Hello(c)
  PROVE  GapsInv'
  <1>1. /\ listeners' = [listeners EXCEPT ![c] = @ + 1]
        /\ UNCHANGED <<log, ringBuffer, disposed, seen>>
    BY DEF Hello, Subscribe, runVars
  <1>2. WindowInv'
    BY <1>1 DEF GapsInv, WindowInv, Epoch
  <1>3. OnlyEvicted(Stream(c))' /\ Follows(Stream(c))'
    <2>1. wire[c] = <<>> /\ wire'[c] = Replay(ResumeSeq(c))
      BY HelloSends
    <2>2. InOrder(seen[c], <<>>)
      BY <2>1 DEF StreamsInv, OrderInv
    <2>3. Stream(c) = Range(seen[c])
      <3>1. \A g : g \notin Range(<<>>)
        <4>1. <<>> \in Seq(Frames) /\ Len(<<>>) = 0
          BY EmptySeq
        <4>2. \A g : g \in Range(<<>>) <=> \E k \in 1..Len(<<>>) : <<>>[k] = g
          BY <4>1, InRange
        <4> QED
          BY <4>1, <4>2
      <3> QED
        BY <2>1, <3>1, InStream
    <2>4. PICK new : new = Range(seen[c]) \union Range(Replay(ResumeSeq(c)))
      OBVIOUS
    <2>5. OnlyEvicted(new) /\ Follows(new)
      BY <2>2, <2>3, <2>4, BacklogLeavesNoGap DEF GapsInv
    <2>6. Stream(c)' = new
      <3>1. PartOf(Replay(ResumeSeq(c)), Len(ringBuffer), ResumeSeq(c))
        BY KeptIsPart DEF Replay, StreamsInv, BufferInv
      <3>2. \A g \in Range(Replay(ResumeSeq(c))) : g # Resync
        <4>1. Replay(ResumeSeq(c)) \in Seq(Frames)
          BY <3>1 DEF PartOf
        <4>2. PICK b \in Seq(Frames) : b = Replay(ResumeSeq(c))
          BY <4>1
        <4>3. \A g \in Range(b) : \E k \in 1..Len(b) : b[k] = g
          BY InRange
        <4> QED
          BY <4>2, <4>3, ResyncIsNoFrame
      <3>3. \A g \in Range(seen[c]) : g # Resync
        BY <2>3 DEF Stream
      <3> QED
        BY <1>1, <2>1, <2>4, <3>2, <3>3 DEF Stream
    <2> QED
      BY <1>1, <2>5, <2>6 DEF OnlyEvicted, Follows, Missing, Continues, Newest, Epoch
  <1>4. ASSUME NEW d \in Clients \ {c}
        PROVE  Stream(d)' = Stream(d) /\ listeners'[d] = listeners[d]
    <2>1. PICK resyncs \in Seq({Resync}) : wire'[d] = wire[d] \o resyncs
      BY HelloSends
    <2>2. resyncs \in Seq(Sent)
      BY <2>1, SeqMonotonic DEF Sent
    <2>3. Range(wire'[d]) = Range(wire[d]) \union Range(resyncs)
      BY <2>1, <2>2, RangeGrows, StreamTypes
    <2>4. \A g \in Range(resyncs) : g = Resync
      BY InRange
    <2> QED
      BY <1>1, <2>3, <2>4 DEF Stream, StreamsInv, SocketInv
  <1> QED
    BY <1>1, <1>2, <1>3, <1>4, StreamStays DEF GapsInv, FollowInv

LEMMA ReceiveKeepsStream ==
  ASSUME StreamsInv, NEW c \in Clients, Receive(c), NEW d \in Clients
  PROVE  Stream(d)' = Stream(d)
  <1>1. /\ wire[c] # <<>> /\ wire' = [wire EXCEPT ![c] = Tail(@)]
        /\ IF Head(wire[c]) = Resync
           THEN UNCHANGED seen
           ELSE seen' = [seen EXCEPT ![c] = Append(@, Head(wire[c]))]
    BY DEF Receive
  <1>2. DOMAIN wire = Clients /\ DOMAIN seen = Clients
    BY DEF StreamsInv, SocketInv
  <1>3. CASE d # c
    BY <1>1, <1>2, <1>3 DEF Stream
  <1>4. CASE d = c
    <2> DEFINE w == wire[c]
               h == Head(w)
    <2>1. w \in Seq(Sent) /\ w # <<>> /\ seen[c] \in Seq(Frames)
      BY <1>1, StreamTypes
    <2>2. Range(w) = {h} \union Range(Tail(w))
      <3>1. /\ Tail(w) \in Seq(Sent) /\ Len(Tail(w)) = Len(w) - 1 /\ h = w[1]
            /\ \A i \in 1..Len(Tail(w)) : Tail(w)[i] = w[i + 1]
            /\ Len(w) \in Nat \ {0}
        BY <2>1, HeadTailProperties, EmptySeq
      <3>2. \A e : e \in Range(w) <=> e = h \/ e \in Range(Tail(w))
        <4> HIDE DEF w, h
        <4> TAKE e
        <4>1. e \in Range(w) <=> \E k \in 1..Len(w) : w[k] = e
          BY <2>1, InRange
        <4>2. e \in Range(Tail(w)) <=> \E k \in 1..Len(w) - 1 : w[k + 1] = e
          <5>1. PICK t \in Seq(Sent) : t = Tail(w)
            BY <3>1
          <5>2. e \in Range(t) <=> \E k \in 1..Len(t) : t[k] = e
            BY InRange
          <5> QED
            BY <3>1, <5>1, <5>2
        <4>3. (\E k \in 1..Len(w) : w[k] = e) <=> w[1] = e \/ \E k \in 1..Len(w) - 1 : w[k + 1] = e
          <5>1. ASSUME NEW k \in 1..Len(w), w[k] = e, k # 1
                PROVE  \E j \in 1..Len(w) - 1 : w[j + 1] = e
            <6>1. k - 1 \in 1..Len(w) - 1 /\ (k - 1) + 1 = k
              BY <3>1, <5>1
            <6> QED
              BY <5>1, <6>1
          <5>2. \A k \in 1..Len(w) - 1 : k + 1 \in 1..Len(w)
            BY <3>1
          <5>3. 1 \in 1..Len(w)
            BY <3>1
          <5> QED
            BY <5>1, <5>2, <5>3
        <4> QED
          BY <3>1, <4>1, <4>2, <4>3
      <3> QED
        BY <3>2
    <2>3. wire'[c] = Tail(w)
      BY <1>1, <1>2
    <2>4. CASE h = Resync
      BY <1>1, <1>4, <2>2, <2>3, <2>4 DEF Stream
    <2>5. CASE h # Resync
      <3>1. seen'[c] = Append(seen[c], h)
        BY <1>1, <1>2, <2>5
      <3>2. h \in Frames
        BY <1>1, <2>5, ReceivedIsInOrder DEF StreamsInv, OrderInv
      <3>3. /\ Append(seen[c], h) \in Seq(Frames) /\ Len(Append(seen[c], h)) = Len(seen[c]) + 1
            /\ Append(seen[c], h)[Len(seen[c]) + 1] = h
            /\ \A k \in 1..Len(seen[c]) : Append(seen[c], h)[k] = seen[c][k]
            /\ Len(seen[c]) \in Nat
        BY <2>1, <3>2, AppendProperties
      <3>4. PICK s, a : s = seen[c] /\ a = Append(seen[c], h)
        OBVIOUS
      <3>5. \A e : e \in Range(a) <=> e = h \/ e \in Range(s)
        <4> HIDE DEF h
        <4> TAKE e
        <4>1. e \in Range(a) <=> \E k \in 1..Len(s) + 1 : a[k] = e
          <5>1. a \in Seq(Frames) /\ Len(a) = Len(s) + 1
            BY <3>3, <3>4
          <5>2. e \in Range(a) <=> \E k \in 1..Len(a) : a[k] = e
            BY <5>1, InRange
          <5> QED
            BY <5>1, <5>2
        <4>2. e \in Range(s) <=> \E k \in 1..Len(s) : s[k] = e
          BY <2>1, <3>4, InRange
        <4>3. Len(s) + 1 \in 1..Len(s) + 1
              /\ \A k \in 1..Len(s) + 1 : k = Len(s) + 1 \/ k \in 1..Len(s)
          BY <3>3, <3>4
        <4>4. a[Len(s) + 1] = h /\ \A k \in 1..Len(s) : a[k] = s[k] /\ k \in 1..Len(s) + 1
          BY <3>3, <3>4
        <4> QED
          BY <4>1, <4>2, <4>3, <4>4
      <3>6. Range(seen'[c]) = Range(seen[c]) \union {h}
        BY <3>1, <3>4, <3>5
      <3> HIDE DEF h
      <3> QED
        BY <1>4, <2>2, <2>3, <2>5, <3>6 DEF Stream
    <2> QED
      BY <2>4, <2>5
  <1> QED
    BY <1>3, <1>4

LEMMA ConnectOrDropKeepsGaps ==
  ASSUME StreamsInv, GapsInv, NEW c \in Clients,
         Drop(c) \/ \E fresh \in BOOLEAN : Connect(c, fresh)
  PROVE  GapsInv'
  <1>1. /\ wire'[c] = <<>> /\ listeners'[c] # 1
        /\ seen'[c] = seen[c] \/ seen'[c] = <<>>
        /\ \A d \in Clients \ {c} :
             wire'[d] = wire[d] /\ seen'[d] = seen[d] /\ listeners'[d] = listeners[d]
        /\ UNCHANGED <<log, ringBuffer, disposed>>
    <2>1. CASE Drop(c)
      BY <2>1 DEF Drop, runVars, StreamsInv, SocketInv
    <2>2. ASSUME NEW fresh \in BOOLEAN, Connect(c, fresh)
          PROVE  /\ wire'[c] = <<>> /\ listeners'[c] # 1
                 /\ seen'[c] = seen[c] \/ seen'[c] = <<>>
                 /\ \A d \in Clients \ {c} :
                      wire'[d] = wire[d] /\ seen'[d] = seen[d] /\ listeners'[d] = listeners[d]
                 /\ UNCHANGED <<log, ringBuffer, disposed>>
      <3>1. wire[c] = <<>> /\ listeners[c] # 1
        BY <2>2 DEF Connect, StreamsInv, SocketInv
      <3> QED
        BY <2>2, <3>1 DEF Connect, runVars, StreamsInv, SocketInv
    <2> QED
      BY <2>1, <2>2
  <1>2. WindowInv'
    BY <1>1 DEF GapsInv, WindowInv, Epoch
  <1>3. PICK part : part = Range(seen'[c])
    OBVIOUS
  <1>4. Stream(c)' = part
    <2>1. <<>> \in Seq(Frames) /\ Len(<<>>) = 0
      BY EmptySeq
    <2>2. \A g : g \in Range(<<>>) <=> \E k \in 1..Len(<<>>) : <<>>[k] = g
      BY <2>1, InRange
    <2>3. Range(<<>>) = {}
      BY <2>1, <2>2
    <2>4. \A g \in part : g # Resync
      <3>1. \A g \in Range(seen[c]) : \E k \in 1..Len(seen[c]) : seen[c][k] = g
        BY StreamTypes, InRange
      <3>2. \A g \in Range(seen[c]) : g # Resync
        BY <3>1, StreamTypes, ResyncIsNoFrame
      <3> QED
        BY <1>1, <1>3, <2>3, <3>2
    <2> QED
      BY <1>1, <1>3, <2>3, <2>4 DEF Stream
  <1>5. OnlyEvicted(part)
    <2>1. CASE seen'[c] = seen[c]
      <3>1. part \in SUBSET Stream(c) /\ \A g \in Stream(c) \ part : g \in Range(wire[c]) /\ g # Resync
        BY <1>3, <2>1, InStream
      <3>2. \A g \in Stream(c) : Published(g)
        BY InStream
      <3>3. ASSUME NEW f \in part, NEW g \in Stream(c) \ part
            PROVE  f.id < g.id
        <4>1. PICK j \in 1..Len(seen[c]) : seen[c][j] = f
          BY <1>3, <2>1, StreamTypes, InRange
        <4>2. PICK k \in 1..Len(wire[c]) : wire[c][k] = g
          BY <3>1, StreamTypes, InRange
        <4>3. g # Resync
          BY <3>1
        <4> QED
          BY <4>1, <4>2, <4>3 DEF StreamsInv, OrderInv, InOrder
      <3>4. PICK had : had = Stream(c)
        OBVIOUS
      <3>5. OnlyEvicted(had)
        BY <3>4 DEF GapsInv
      <3> QED
        BY <3>1, <3>2, <3>3, <3>4, <3>5, EarlierPart
    <2>2. CASE seen'[c] = <<>>
      <3>1. <<>> \in Seq(Frames) /\ Len(<<>>) = 0
        BY EmptySeq
      <3>2. \A g : g \in Range(<<>>) <=> \E k \in 1..Len(<<>>) : <<>>[k] = g
        BY <3>1, InRange
      <3>3. part = {}
        BY <1>3, <2>2, <3>1, <3>2
      <3> QED
        BY <3>3 DEF OnlyEvicted
    <2> QED
      BY <1>1, <2>1, <2>2
  <1>6. OnlyEvicted(Stream(c))'
    BY <1>1, <1>4, <1>5 DEF OnlyEvicted, Missing, Continues
  <1>7. \A d \in Clients \ {c} : Stream(d)' = Stream(d)
    BY <1>1 DEF Stream
  <1> QED
    BY <1>1, <1>2, <1>6, <1>7, StreamStays DEF GapsInv, FollowInv

LEMMA GapsInductive == AuditInv /\ StreamsInv /\ GapsInv /\ [Next]_vars => GapsInv'
  <1> SUFFICES ASSUME AuditInv, StreamsInv, GapsInv, [Next]_vars
               PROVE  GapsInv'
    OBVIOUS
  <1>1. CASE WorkflowPublishes \/ ReviewerDecides \/ Finish
    BY <1>1, Publications, EmitKeepsGaps
  <1>2. CASE Dispose
    <2>1. /\ ~disposed /\ disposed' = TRUE /\ ringBuffer' = <<>>
          /\ listeners' = [c \in Clients |-> 0] /\ UNCHANGED <<log, wire, seen>>
      BY <1>2 DEF Dispose
    <2>2. WindowInv'
      <3>1. \A i \in 1..Len(log) : log[i].epoch <= 0
        BY <2>1 DEF StreamsInv, PlacesInv, Epoch
      <3>2. \A i \in 1..Len(log) : log[i].epoch # 1
        BY <3>1
      <3>3. Len(<<>>) = 0 /\ Len(log) \in Nat
        BY EmptySeq, EpochType
      <3> QED
        BY <2>1, <3>2, <3>3 DEF WindowInv, Epoch
    <2>3. \A c \in Clients : OnlyEvicted(Stream(c))'
      <3> SUFFICES ASSUME NEW c \in Clients
                   PROVE  OnlyEvicted(Stream(c))'
        OBVIOUS
      <3>1. Stream(c)' = Stream(c) /\ OnlyEvicted(Stream(c))
        BY <2>1 DEF Stream, GapsInv
      <3> QED
        BY <2>1, <3>1 DEF OnlyEvicted, Missing, Continues
    <2> QED
      BY <2>1, <2>2, <2>3 DEF GapsInv, FollowInv
  <1>3. ASSUME NEW c \in Clients, Drop(c) \/ \E fresh \in BOOLEAN : Connect(c, fresh)
        PROVE  GapsInv'
    BY <1>3, ConnectOrDropKeepsGaps
  <1>4. ASSUME NEW c \in Clients, Hello(c)
        PROVE  GapsInv'
    BY <1>4, HelloKeepsGaps
  <1>5. ASSUME UNCHANGED <<log, ringBuffer, disposed, listeners>>,
               \A c \in Clients : Stream(c)' = Stream(c)
        PROVE  GapsInv'
    <2>1. WindowInv'
      BY <1>5 DEF GapsInv, WindowInv, Epoch
    <2> QED
      BY <1>5, <2>1, StreamStays DEF GapsInv, FollowInv
  <1>6. ASSUME NEW c \in Clients, Receive(c)
        PROVE  GapsInv'
    <2>1. UNCHANGED <<log, ringBuffer, disposed, listeners>>
      BY <1>6 DEF Receive, runVars
    <2>2. \A d \in Clients : Stream(d)' = Stream(d)
      BY <1>6, ReceiveKeepsStream
    <2> QED
      BY <1>5, <2>1, <2>2
  <1>7. ASSUME UNCHANGED <<runVars, clientVars, wire>>
        PROVE  GapsInv'
    BY <1>5, <1>7 DEF runVars, clientVars, Stream
  <1>8. ASSUME NEW f \in inserting, Insert(f) \/ InsertFails(f)
        PROVE  GapsInv'
    BY <1>7, <1>8 DEF Insert, InsertFails
  <1>9. CASE UNCHANGED vars
    BY <1>7, <1>9 DEF vars
  <1> QED
    BY <1>1, <1>2, <1>3, <1>4, <1>6, <1>8, <1>9 DEF Next

\* However often a client loses its connection and resumes, and whatever was on
\* the wire when it did, the frames it lacks between two it has of an epoch, or
\* before its first, are frames that the ring buffer had evicted.
THEOREM MissedWasEvicted == Spec => []GapsAreEvictions
  <1>1. Init => GapsInv
    <2> SUFFICES ASSUME Init
                 PROVE  GapsInv
      OBVIOUS
    <2>1. /\ log = <<>> /\ ringBuffer = <<>> /\ Len(<<>>) = 0
          /\ listeners = [c \in Clients |-> 0]
          /\ wire = [c \in Clients |-> <<>>] /\ seen = [c \in Clients |-> <<>>]
      BY EmptySeq DEF Init
    <2>2. <<>> \in Seq(Frames) /\ \A k \in 1..Len(<<>>) : FALSE
      BY <2>1, EmptySeq
    <2>3. \A g : g \in Range(<<>>) <=> \E k \in 1..Len(<<>>) : <<>>[k] = g
      BY <2>2, InRange
    <2>4. \A c \in Clients : Stream(c) = {}
      BY <2>1, <2>2, <2>3 DEF Stream
    <2>5. WindowInv
      BY <2>1, <2>2 DEF WindowInv
    <2> QED
      BY <2>1, <2>4, <2>5 DEF GapsInv, FollowInv, OnlyEvicted
  <1>2. GapsInv => GapsAreEvictions
    BY DEF GapsInv, OnlyEvicted, GapsAreEvictions
  <1> QED
    BY <1>1, <1>2, AuditInitially, AuditInductive, StreamsInitially, StreamsInductive,
       GapsInductive, PTL DEF Spec

-----------------------------------------------------------------------------
(* What is left of the types: the client's counters, and the ring buffer's *)
(* size.                                                                   *)

RestOK ==
  /\ known \in BOOLEAN /\ finished \in BOOLEAN
  /\ Len(ringBuffer) <= MaxBufferSize
  /\ connects \in [Clients -> 0..MaxConnects]
  /\ told \in [Clients -> BOOLEAN]

LEMMA BufferStaysShort ==
  ASSUME StreamsInv, Len(ringBuffer) <= MaxBufferSize, NEW f \in Frames
  PROVE  Len(PushToBuffer(ringBuffer, f)) <= MaxBufferSize
  <1>1. ringBuffer \in Seq(Frames) /\ Len(ringBuffer) \in Nat
    BY DEF StreamsInv, BufferInv
  <1>2. CASE Len(ringBuffer) = MaxBufferSize
    <2>1. ringBuffer # <<>>
      BY <1>1, <1>2, EmptySeq
    <2>2. Tail(ringBuffer) \in Seq(Frames) /\ Len(Tail(ringBuffer)) = Len(ringBuffer) - 1
      BY <1>1, <2>1, HeadTailProperties
    <2>3. Len(Append(Tail(ringBuffer), f)) = Len(ringBuffer)
      BY <1>1, <2>2, AppendProperties
    <2> QED
      BY <1>2, <2>3 DEF PushToBuffer
  <1>3. CASE Len(ringBuffer) # MaxBufferSize
    <2>1. Len(Append(ringBuffer, f)) = Len(ringBuffer) + 1
      BY <1>1, AppendProperties
    <2> QED
      BY <1>1, <1>3, <2>1 DEF PushToBuffer
  <1> QED
    BY <1>2, <1>3

LEMMA RestPreserved ==
  ASSUME AuditInv, StreamsInv, RestOK, [Next]_vars
  PROVE  RestOK'
  <1> USE DEF RestOK
  <1>1. CASE WorkflowPublishes \/ ReviewerDecides \/ Finish
    <2>1. /\ Len(log) < MaxFrames
          /\ \E type \in Types : Emit(NextFrame(type))
          /\ UNCHANGED clientVars
          /\ finished' = finished \/ finished' = TRUE
      BY <1>1 DEF WorkflowPublishes, ReviewerDecides, Finish, Publish,
                  PublishSyntheticFailure, Types
    <2>2. PICK type \in Types : Emit(NextFrame(type))
      BY <2>1
    <2>3. NextFrame(type) \in Frames
      BY <2>1, NewFrame
    <2>4. Len(ringBuffer') <= MaxBufferSize /\ known' = TRUE
      BY <2>2, <2>3, BufferStaysShort DEF Emit
    <2> QED
      BY <2>1, <2>4 DEF clientVars
  <1>2. CASE Dispose
    <2>1. ringBuffer' = <<>> /\ known' = FALSE /\ UNCHANGED <<finished, connects, told>>
      BY <1>2 DEF Dispose
    <2>2. Len(ringBuffer') <= MaxBufferSize
      <3>1. Len(ringBuffer') = 0
        BY <2>1, EmptySeq
      <3>2. 0 <= MaxBufferSize
        BY TimelineAssumption
      <3> QED
        BY <3>1, <3>2
    <2> QED
      BY <2>1, <2>2
  <1>3. ASSUME NEW c \in Clients, NEW fresh \in BOOLEAN, Connect(c, fresh)
        PROVE  RestOK'
    <2>1. /\ UNCHANGED <<known, finished, ringBuffer>>
          /\ connects[c] < MaxConnects
          /\ connects' = [connects EXCEPT ![c] = connects[c] + 1]
          /\ told' = told \/ told' = [told EXCEPT ![c] = FALSE]
      BY <1>3 DEF Connect, runVars
    <2>2. connects' \in [Clients -> 0..MaxConnects]
      <3>1. connects[c] + 1 \in 0..MaxConnects
        BY <2>1, TimelineAssumption
      <3> QED
        BY <2>1, <3>1
    <2>3. told' \in [Clients -> BOOLEAN]
      BY <2>1
    <2> QED
      BY <2>1, <2>2, <2>3
  <1>4. ASSUME NEW c \in Clients, Hello(c) \/ Drop(c)
        PROVE  RestOK'
    BY <1>4 DEF Hello, Drop, runVars
  <1>5. ASSUME NEW c \in Clients, Receive(c)
        PROVE  RestOK'
    <2>1. /\ UNCHANGED <<known, finished, ringBuffer, connects>>
          /\ told' = told \/ told' = [told EXCEPT ![c] = TRUE]
      BY <1>5 DEF Receive, runVars
    <2> QED
      BY <2>1
  <1>6. CASE (\E f \in inserting : Insert(f) \/ InsertFails(f)) \/ UNCHANGED vars
    BY <1>6 DEF Insert, InsertFails, vars, runVars, clientVars
  <1> QED
    BY <1>1, <1>2, <1>3, <1>4, <1>5, <1>6 DEF Next

\* The bus, the sockets and the persister keep their types: the ring buffer
\* never outgrows its size, a socket never registers twice, and whatever is on
\* a wire, with a client or in the table is a frame that can be published.
THEOREM TimelineTypeCorrect == Spec => []TypeOK
  <1>1. Init => RestOK
    <2> SUFFICES ASSUME Init
                 PROVE  RestOK
      OBVIOUS
    <2>1. Len(ringBuffer) <= MaxBufferSize
      <3>1. Len(ringBuffer) = 0
        BY EmptySeq DEF Init
      <3>2. 0 <= MaxBufferSize
        BY TimelineAssumption
      <3> QED
        BY <3>1, <3>2
    <2>2. /\ known = FALSE /\ finished = FALSE /\ connects = [c \in Clients |-> 0]
          /\ told = [c \in Clients |-> FALSE]
      BY DEF Init
    <2>3. connects \in [Clients -> 0..MaxConnects]
      BY <2>2, TimelineAssumption
    <2> QED
      BY <2>1, <2>2, <2>3 DEF RestOK
  <1>2. AuditInv /\ StreamsInv /\ RestOK => TypeOK
    <2> SUFFICES ASSUME AuditInv, StreamsInv, RestOK
                 PROVE  TypeOK
      OBVIOUS
    <2>1. nextSeq \in 0..MaxFrames /\ log \in Seq(Frames) /\ disposed \in BOOLEAN
      BY DEF AuditInv, LogInv
    <2>2. inserting \subseteq Frames /\ events \in [0..MaxFrames - 1 -> Frames \union {None}]
      BY <2>1 DEF AuditInv, StoreInv
    <2>3. ringBuffer \in Seq(Frames)
      BY DEF StreamsInv, BufferInv
    <2>4. wire \in [Clients -> Seq(Frames \union {Resync})]
      BY StreamTypes DEF StreamsInv, SocketInv, Sent
    <2>5. seen \in [Clients -> Seq(Frames)]
      BY StreamTypes DEF StreamsInv, SocketInv
    <2> QED
      BY <2>1, <2>2, <2>3, <2>4, <2>5 DEF StreamsInv, SocketInv, RestOK, TypeOK
  <1> QED
    BY <1>1, <1>2, RestPreserved, AuditInitially, AuditInductive, StreamsInitially,
       StreamsInductive, PTL DEF Spec
=============================================================================
