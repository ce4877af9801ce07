--------------------------- MODULE UsbServiceProofs ---------------------------
(***************************************************************************)
(* The USB service, for every capacity of its queues and every request:    *)
(* they stay within their bounds, no message is lost or sent twice, the    *)
(* records of a capture arrive without a gap, and its last sample is kept. *)
(*                                                                         *)
(* The transport's part of the invariant says at which point the transfer  *)
(* of the message at the head is; the trace's part, that what the host has *)
(* seen, what is queued and what is in the trace follow each other.        *)
(***************************************************************************)
EXTENDS UsbService, SequenceTheorems, TLAPS

-----------------------------------------------------------------------------
(* Types.                                                                   *)

Parts == [request : Nat, document : DOMAIN Documents, at : {1, 2}]

Framers == [line : Seq(Parts), discarding : BOOLEAN]

Transmitters == [queue : Seq(Messages), active : BOOLEAN, done : BOOLEAN, sending : BOOLEAN]

-----------------------------------------------------------------------------
(* The transmission of the message at the head.                             *)

\* It is being sent, or sent, or the task is about to take it off the queue.
Pipeline ==
  /\ tx.done \/ tx.sending => tx.active
  /\ tx.active => tx.queue # <<>>
  /\ tx.done => heard.head /\ ~tx.sending
  /\ completed /\ tx.active => heard.head /\ ~tx.done /\ ~tx.sending
  /\ link = "DETACHED" => ~tx.active
  /\ heard.head => tx.queue # <<>>
  \* What the host has already is sent again only after a reconnect.
  /\ tx.sending /\ heard.head => heard.fresh
  /\ ~tx.active /\ heard.head /\ link = "CONFIGURED" => heard.fresh

TransmitSide ==
  /\ link \in {"DETACHED", "CONFIGURED"}
  /\ tx \in Transmitters /\ Len(tx.queue) <= TransmitDepth
  /\ completed \in BOOLEAN /\ heard \in [head : BOOLEAN, fresh : BOOLEAN]
  /\ Pipeline

-----------------------------------------------------------------------------
(* What the host sends, and the rest of the service.                        *)

ReceiveSide ==
  /\ ring \in Seq(Parts) /\ Len(ring) < RingCapacity /\ overflow \in BOOLEAN
  /\ framer \in Framers /\ Len(framer.line) <= LineCapacity
  /\ lines \in Seq(Seq(Parts)) /\ Len(lines) <= LineDepth

TaskSide ==
  /\ step \in Steps /\ device \in {"RUNNING", "LOADER"} /\ handoff \in BOOLEAN
  /\ log \in 0 .. LogCapacity /\ mode \in Gate!Modes
  /\ sent \in [count : Nat, within : DOMAIN Documents \cup {Whole}]

-----------------------------------------------------------------------------
(* The trace.                                                               *)

\* A level is whatever the request names; of the records only the number counts.
IsTrace(t) ==
  /\ DOMAIN t = {"level", "capture", "produced", "pending", "observed", "previous", "armedSeen"}
  /\ t.capture \in Nat /\ t.produced \in Nat /\ t.pending \in Seq(Nat)

\* The number of the first record that is still in the trace.
First(t) == t.produced - Len(t.pending) + 1

\* A capture that goes on has room for the sample that ends it.
RoomForTheLast(t) ==
  /\ Len(t.pending) <= t.produced /\ Len(t.pending) <= TraceCapacity
  /\ Capturing(t) => Len(t.pending) < TraceCapacity

\* A place in the stream of records: a capture and the number that comes next.
Place(capture, next) == [capture |-> capture, next |-> next]
Marks == [capture : Nat, next : Nat]
End(batch) == Place(batch.capture, batch.first + batch.count)
Reached(t) == Place(t.capture, First(t))

NotAfter(p, r) == p.capture <= r.capture /\ (p.capture = r.capture => p.next <= r.next)

Batches(q) == {i \in DOMAIN q : q[i].kind = "records"}

\* The places go forward: what the host has seen (s), the batches of the queue
\* (q), and where the trace is (p).
InOrder(q, s, p) ==
  /\ s.next >= 1 /\ p.next >= 1 /\ NotAfter(s, p)
  /\ \A i \in Batches(q) :
       End(q[i]).next >= 1 /\ NotAfter(s, End(q[i])) /\ NotAfter(End(q[i]), p)
  /\ \A i, j \in Batches(q) : i < j => NotAfter(End(q[i]), End(q[j]))

\* The host has the n-th record of a capture, or it is in one of the first k messages.
IsDelivered(q, s, capture, n, k) ==
  \/ capture = s.capture /\ n < s.next
  \/ \E j \in Batches(q) : /\ j <= k /\ q[j].capture = capture
                           /\ q[j].first <= n /\ n < q[j].first + q[j].count

\* Every record before a batch is delivered by then, and so is every one that has
\* left the trace.
NoGap(q, s, p) ==
  /\ \A i \in Batches(q) : \A n \in 1 .. q[i].first - 1 :
       IsDelivered(q, s, q[i].capture, n, i - 1)
  /\ \A n \in 1 .. p.next - 1 : IsDelivered(q, s, p.capture, n, Len(q))

Follows(q, s, p) == InOrder(q, s, p) /\ NoGap(q, s, p)

\* A message for the first "count" records of a trace, or for none of them.
TakesFirst(message, count, t) ==
  IF message.kind = "records"
  THEN message.capture = t.capture /\ message.first = First(t) /\ message.count = count
  ELSE count = 0

\* The response that waits is for the first records, and the host has the head
\* of the queue when the transport says so.
StreamSide ==
  /\ IsTrace(trace) /\ RoomForTheLast(trace)
  /\ response \in Messages /\ discard \in 0 .. Len(trace.pending)
  /\ TakesFirst(response, discard, trace)
  /\ seen \in Marks /\ Follows(tx.queue, seen, Reached(trace))
  /\ heard.head /\ 1 \in Batches(tx.queue) => seen = End(tx.queue[1])

IInv == ReceiveSide /\ TransmitSide /\ TaskSide /\ StreamSide

-----------------------------------------------------------------------------
(* The operators on the trace.                                              *)

LEMMA StartedIsTrace ==
  ASSUME NEW t, IsTrace(t), NEW level
  PROVE  LET s == StartedTrace(t, level)
         IN /\ IsTrace(s) /\ s.capture = t.capture + 1 /\ s.pending = <<>>
            /\ First(s) = 1 /\ RoomForTheLast(s)
<1> DEFINE s == StartedTrace(t, level)
<1>1. /\ DOMAIN s = {"level", "capture", "produced", "pending", "observed", "previous", "armedSeen"}
      /\ s.capture = t.capture + 1 /\ s.produced = 0 /\ s.pending = <<>>
  BY DEF StartedTrace, IdleTrace
<1>2. Len(s.pending) = 0 /\ <<>> \in Seq(Nat)
  BY <1>1
<1> HIDE DEF s
<1>3. IsTrace(s) /\ First(s) = 1
  BY <1>1, <1>2 DEF IsTrace, First
<1>4. RoomForTheLast(s)
  BY <1>1, <1>2, TraceAssumption DEF RoomForTheLast
<1> QED BY <1>1, <1>3, <1>4 DEF s

LEMMA StoppedIsTrace ==
  ASSUME NEW t, IsTrace(t), RoomForTheLast(t)
  PROVE  LET s == StoppedTrace(t)
         IN /\ IsTrace(s) /\ s.capture = t.capture /\ s.pending = t.pending
            /\ First(s) = First(t) /\ RoomForTheLast(s) /\ ~Capturing(s)
<1> DEFINE s == StoppedTrace(t)
<1>1. /\ DOMAIN s = DOMAIN t /\ s.capture = t.capture /\ s.produced = t.produced
      /\ s.pending = t.pending /\ s.level = "OFF"
  BY DEF StoppedTrace, IsTrace
<1> HIDE DEF s
<1>2. IsTrace(s) /\ First(s) = First(t) /\ RoomForTheLast(s) /\ ~Capturing(s)
  BY <1>1 DEF IsTrace, First, RoomForTheLast, Capturing
<1> QED BY <1>1, <1>2 DEF s

\* The first "count" records go.
LEMMA DiscardedIsTrace ==
  ASSUME NEW t, IsTrace(t), RoomForTheLast(t), NEW count \in 0 .. Len(t.pending)
  PROVE  LET s == DiscardedTrace(t, count)
         IN /\ IsTrace(s) /\ s.capture = t.capture /\ Len(s.pending) = Len(t.pending) - count
            /\ First(s) = First(t) + count /\ RoomForTheLast(s)
<1> DEFINE s == DiscardedTrace(t, count)
           rest == SubSeq(t.pending, count + 1, Len(t.pending))
<1>1. t.pending \in Seq(Nat) /\ Len(t.pending) \in Nat /\ t.produced \in Nat
  BY DEF IsTrace
<1>2. rest \in Seq(Nat) /\ Len(rest) = Len(t.pending) - count
  BY <1>1
<1>3. s = [t EXCEPT !.pending = rest]
  BY <1>1 DEF DiscardedTrace
<1> HIDE DEF s, rest
<1>4. /\ DOMAIN s = DOMAIN t /\ s.capture = t.capture /\ s.produced = t.produced
      /\ s.pending = rest /\ s.level = t.level
  BY <1>3 DEF IsTrace
<1>5. IsTrace(s)
  BY <1>2, <1>4 DEF IsTrace
<1>6. First(s) = First(t) + count /\ RoomForTheLast(s)
  BY <1>1, <1>2, <1>4, TraceAssumption DEF First, RoomForTheLast, Capturing
<1> QED BY <1>2, <1>4, <1>5, <1>6 DEF s

\* A record may be kept; the one that ends the capture is.
LEMMA RecordedIsTrace ==
  ASSUME NEW t, IsTrace(t), RoomForTheLast(t), NEW now, NEW changed \in BOOLEAN,
         NEW due \in BOOLEAN
  PROVE  LET s == RecordedTrace(t, now, changed, due)
         IN /\ IsTrace(s) /\ s.capture = t.capture /\ First(s) = First(t) /\ RoomForTheLast(s)
            /\ Len(s.pending) >= Len(t.pending)
            /\ Capturing(t) /\ ~Capturing(s) => s.produced = t.produced + 1
<1> DEFINE s == RecordedTrace(t, now, changed, due)
           observed == Observed(t, now)
           terminal == IsTerminal(observed, now)
           kept == IF Len(t.pending) >= Places(terminal) THEN observed
                   ELSE [observed EXCEPT !.produced = @ + 1,
                                         !.pending = Append(@, observed.produced + 1)]
<1>1. /\ DOMAIN observed = DOMAIN t /\ observed.capture = t.capture /\ observed.level = t.level
      /\ observed.produced = t.produced /\ observed.pending = t.pending
  BY DEF Observed, IsTrace
<1>2. IsTrace(observed)
  BY <1>1 DEF IsTrace
<1>3. \/ s = t /\ ~Capturing(t)
      \/ s = observed
      \/ s = StoppedTrace(kept) /\ terminal
      \/ s = kept /\ ~terminal
  BY <1>1 DEF RecordedTrace
<1>4. /\ t.pending \in Seq(Nat) /\ Len(t.pending) \in Nat /\ t.produced \in Nat
      /\ t.capture \in Nat /\ TraceCapacity \in Nat \ {0}
  BY TraceAssumption DEF IsTrace
<1>5. Places(terminal) = IF terminal THEN TraceCapacity ELSE TraceCapacity - 1
  BY DEF Places
<1> HIDE DEF s, observed, terminal
<1> DEFINE more == [observed EXCEPT !.produced = @ + 1,
                                    !.pending = Append(@, observed.produced + 1)]
<1>6. /\ DOMAIN more = DOMAIN t /\ more.capture = t.capture /\ more.level = t.level
      /\ more.produced = t.produced + 1 /\ more.pending = Append(t.pending, t.produced + 1)
  BY <1>1, <1>2 DEF IsTrace
<1>7. more.pending \in Seq(Nat) /\ Len(more.pending) = Len(t.pending) + 1
  <2>1. t.produced + 1 \in Nat
    BY <1>4
  <2> HIDE DEF more
  <2> QED BY <1>4, <1>6, <2>1, AppendProperties
<1> HIDE DEF more
<1>8. IsTrace(more) /\ First(more) = First(t)
  BY <1>4, <1>6, <1>7 DEF IsTrace, First
<1>9. CASE s = t /\ ~Capturing(t)
  BY <1>4, <1>9 DEF s
<1>10. CASE s = observed
  BY <1>1, <1>2, <1>4, <1>10 DEF First, RoomForTheLast, Capturing, s
<1>11. CASE s = kept /\ ~terminal
  <2>1. CASE Len(t.pending) >= TraceCapacity - 1
    <3>1. s = observed
      BY <1>5, <1>11, <2>1
    <3> QED BY <1>10, <3>1
  <2>2. CASE ~(Len(t.pending) >= TraceCapacity - 1)
    <3>1. s = more
      BY <1>5, <1>11, <2>2 DEF more
    <3>2. RoomForTheLast(more) /\ (Capturing(more) <=> Capturing(t))
      BY <1>4, <1>6, <1>7, <2>2 DEF RoomForTheLast, Capturing
    <3> QED BY <1>4, <1>6, <1>7, <1>8, <3>1, <3>2 DEF s
  <2> QED BY <2>1, <2>2
<1>12. CASE s = StoppedTrace(kept) /\ terminal
  <2>1. CASE Len(t.pending) >= TraceCapacity
    <3>1. kept = observed
      BY <1>5, <1>12, <2>1
    <3>2. RoomForTheLast(observed) /\ First(observed) = First(t) /\ ~Capturing(t)
      BY <1>1, <1>4, <2>1 DEF RoomForTheLast, Capturing, First
    <3>3. /\ IsTrace(s) /\ s.capture = observed.capture /\ s.pending = observed.pending
          /\ First(s) = First(observed) /\ RoomForTheLast(s)
      BY <1>2, <1>12, <3>1, <3>2, StoppedIsTrace
    <3> QED BY <1>1, <1>4, <3>2, <3>3 DEF s
  <2>2. CASE ~(Len(t.pending) >= TraceCapacity)
    <3>1. kept = more
      BY <1>5, <1>12, <2>2 DEF more
    <3>2. s = [more EXCEPT !.level = "OFF"]
      BY <1>12, <3>1 DEF StoppedTrace
    <3>3. /\ DOMAIN s = DOMAIN t /\ s.capture = t.capture /\ s.produced = t.produced + 1
          /\ s.pending = more.pending /\ s.level = "OFF"
      BY <1>6, <3>2 DEF IsTrace
    <3>4. IsTrace(s) /\ First(s) = First(t) /\ RoomForTheLast(s)
      BY <1>4, <1>6, <1>7, <1>8, <2>2, <3>3 DEF IsTrace, First, RoomForTheLast, Capturing
    <3> QED BY <1>4, <1>7, <3>3, <3>4 DEF s
  <2> QED BY <2>1, <2>2
<1> QED BY <1>3, <1>9, <1>10, <1>11, <1>12

-----------------------------------------------------------------------------
(* The stream of records.                                                   *)

LEMMA ReachedIsMark ==
  ASSUME NEW t, IsTrace(t), RoomForTheLast(t)
  PROVE  Reached(t) \in Marks /\ First(t) \in Nat
<1>1. /\ t.capture \in Nat /\ t.produced \in Nat /\ Len(t.pending) \in Nat
      /\ Len(t.pending) <= t.produced
  BY DEF IsTrace, RoomForTheLast
<1> QED BY <1>1 DEF Reached, Place, Marks, First

LEMMA EndIsMark ==
  ASSUME NEW m \in Messages
  PROVE  /\ m.capture \in Nat /\ m.first \in Nat /\ m.count \in Nat
         /\ End(m).capture = m.capture /\ End(m).next = m.first + m.count /\ End(m) \in Marks
<1>1. m.capture \in Nat /\ m.first \in Nat /\ m.count \in Nat
  BY DEF Messages
<1> QED BY <1>1 DEF End, Place, Marks

LEMMA EndsAreMarks ==
  ASSUME NEW q \in Seq(Messages)
  PROVE  \A i \in Batches(q) :
           /\ i \in 1 .. Len(q) /\ q[i] \in Messages /\ End(q[i]) \in Marks
           /\ End(q[i]).capture \in Nat /\ End(q[i]).next \in Nat
<1> SUFFICES ASSUME NEW i \in Batches(q)
             PROVE  /\ i \in 1 .. Len(q) /\ q[i] \in Messages /\ End(q[i]) \in Marks
                    /\ End(q[i]).capture \in Nat /\ End(q[i]).next \in Nat
  OBVIOUS
<1>1. i \in 1 .. Len(q) /\ q[i] \in Messages
  BY DEF Batches
<1>2. End(q[i]) \in Marks
  BY <1>1, EndIsMark
<1> QED BY <1>1, <1>2 DEF Marks

\* A new capture is after everything.
LEMMA NewCaptureFollows ==
  ASSUME NEW q \in Seq(Messages), NEW s \in Marks, NEW p \in Marks, Follows(q, s, p)
  PROVE  Follows(q, s, Place(p.capture + 1, 1))
<1> DEFINE r == Place(p.capture + 1, 1)
<1>1. r.capture = p.capture + 1 /\ r.next = 1
  BY DEF Place
<1>2. s.capture \in Nat /\ p.capture \in Nat
      /\ \A i \in Batches(q) : End(q[i]).capture \in Nat
  BY EndsAreMarks DEF Marks
<1> HIDE DEF r
<1>3. InOrder(q, s, r)
  BY <1>1, <1>2 DEF Follows, InOrder, NotAfter
<1>4. NoGap(q, s, r)
  BY <1>1 DEF Follows, NoGap
<1> QED BY <1>3, <1>4 DEF Follows, r

\* What is in a queue after one more message.
LEMMA AppendedBatches ==
  ASSUME NEW q \in Seq(Messages), NEW m \in Messages
  PROVE  LET a == Append(q, m)
         IN /\ a \in Seq(Messages) /\ Len(a) = Len(q) + 1 /\ a[Len(q) + 1] = m
            /\ \A i \in Batches(q) : i \in 1 .. Len(q) /\ a[i] = q[i]
            /\ Batches(a) = Batches(q) \cup (IF m.kind = "records" THEN {Len(q) + 1} ELSE {})
<1> DEFINE a == Append(q, m)
<1>1. /\ a \in Seq(Messages) /\ Len(a) = Len(q) + 1 /\ a[Len(q) + 1] = m
      /\ \A i \in 1 .. Len(q) : a[i] = q[i]
      /\ DOMAIN q = 1 .. Len(q) /\ DOMAIN a = 1 .. Len(q) + 1 /\ Len(q) \in Nat
  BY AppendProperties
<1> HIDE DEF a
<1>2. \A i \in Batches(q) : i \in 1 .. Len(q) /\ a[i] = q[i]
  BY <1>1 DEF Batches
<1>3. Batches(a) = Batches(q) \cup (IF m.kind = "records" THEN {Len(q) + 1} ELSE {})
  <2>1. \A i \in 1 .. Len(q) + 1 : i \in 1 .. Len(q) \/ i = Len(q) + 1
    BY <1>1
  <2> QED BY <1>1, <2>1 DEF Batches
<1> QED BY <1>1, <1>2, <1>3 DEF a

\* What is delivered stays so when a message is added.
LEMMA DeliveredStays ==
  ASSUME NEW q \in Seq(Messages), NEW m \in Messages, NEW s, NEW capture, NEW n,
         NEW k \in Nat, NEW l \in Nat, k <= l, IsDelivered(q, s, capture, n, k)
  PROVE  IsDelivered(Append(q, m), s, capture, n, l)
<1> DEFINE a == Append(q, m)
<1>1. \A i \in Batches(q) : i \in 1 .. Len(q) /\ a[i] = q[i] /\ i \in Batches(a)
  BY AppendedBatches
<1>2. \A i \in Batches(q) : i <= k => i <= l
  BY <1>1
<1> HIDE DEF a
<1>3. IsDelivered(a, s, capture, n, l)
  BY <1>1, <1>2 DEF IsDelivered
<1> QED BY <1>3 DEF a

\* Another message than a batch.
LEMMA OtherFollows ==
  ASSUME NEW q \in Seq(Messages), NEW s \in Marks, NEW p \in Marks, Follows(q, s, p),
         NEW m \in Messages, m.kind # "records"
  PROVE  Follows(Append(q, m), s, p)
<1> DEFINE a == Append(q, m)
<1>1. /\ Batches(a) = Batches(q) /\ Len(a) = Len(q) + 1 /\ Len(q) \in Nat
      /\ \A i \in Batches(q) : i \in 1 .. Len(q) /\ a[i] = q[i]
  <2>1. Batches(a) = Batches(q) \cup {}
    BY AppendedBatches
  <2>2. Batches(a) = Batches(q)
    BY <2>1
  <2> HIDE DEF a
  <2>3. Len(q) \in Nat
    BY LenProperties
  <2> QED BY <2>2, <2>3, AppendedBatches DEF a
<1>2. ASSUME NEW capture, NEW n, NEW k \in Nat, NEW l \in Nat, k <= l,
             IsDelivered(q, s, capture, n, k)
      PROVE  IsDelivered(a, s, capture, n, l)
  BY <1>2, DeliveredStays
<1> HIDE DEF a
<1>3. InOrder(a, s, p)
  BY <1>1 DEF Follows, InOrder
<1>4. NoGap(a, s, p)
  <2>1. \A i \in Batches(a) : i - 1 \in Nat /\ i - 1 <= i - 1
    BY <1>1
  <2>2. \A i \in Batches(a) : \A n \in 1 .. a[i].first - 1 :
          IsDelivered(a, s, a[i].capture, n, i - 1)
    BY <1>1, <1>2, <2>1 DEF Follows, NoGap
  <2>3. \A n \in 1 .. p.next - 1 : IsDelivered(a, s, p.capture, n, Len(a))
    <3>1. Len(q) <= Len(a) /\ Len(a) \in Nat
      BY <1>1
    <3> QED BY <1>1, <1>2, <3>1 DEF Follows, NoGap
  <2> QED BY <2>2, <2>3 DEF NoGap
<1> QED BY <1>3, <1>4 DEF Follows, a

\* A batch of the first records of the trace.
LEMMA BatchFollows ==
  ASSUME NEW q \in Seq(Messages), NEW s \in Marks, NEW p \in Marks, Follows(q, s, p),
         NEW m \in Messages, m.kind = "records", m.capture = p.capture, m.first = p.next
  PROVE  Follows(Append(q, m), s, End(m))
<1> DEFINE a == Append(q, m)
           L == Len(q) + 1
<1>1. /\ Batches(a) = Batches(q) \cup {L} /\ Len(a) = L /\ Len(q) \in Nat /\ a[L] = m
      /\ \A i \in Batches(q) : i \in 1 .. Len(q) /\ a[i] = q[i] /\ i < L
  BY AppendedBatches
<1>2. ASSUME NEW capture, NEW n, NEW k \in Nat, NEW l \in Nat, k <= l,
             IsDelivered(q, s, capture, n, k)
      PROVE  IsDelivered(a, s, capture, n, l)
  BY <1>2, DeliveredStays
<1>3. /\ m.capture \in Nat /\ m.first \in Nat /\ m.count \in Nat
      /\ s.capture \in Nat /\ s.next \in Nat
      /\ End(m) = Place(p.capture, p.next + m.count)
      /\ End(m).capture = p.capture /\ End(m).next = p.next + m.count
      /\ \A i \in Batches(q) : End(q[i]).capture \in Nat /\ End(q[i]).next \in Nat
  <2>1. p.capture \in Nat /\ p.next \in Nat /\ s.capture \in Nat /\ s.next \in Nat
    BY DEF Marks
  <2>2. End(m) = Place(p.capture, p.next + m.count)
    BY DEF End
  <2> QED BY <2>1, <2>2, EndIsMark, EndsAreMarks
<1> HIDE DEF a, L
<1>4. InOrder(a, s, End(m))
  <2>1. NotAfter(s, End(m)) /\ \A i \in Batches(q) : NotAfter(End(q[i]), End(m))
    BY <1>3 DEF Follows, InOrder, NotAfter
  <2>2. NotAfter(End(m), End(m))
    BY <1>3 DEF NotAfter
  <2>3. \A i \in Batches(a) :
          End(a[i]).next >= 1 /\ NotAfter(s, End(a[i])) /\ NotAfter(End(a[i]), End(m))
    <3>1. End(m).next >= 1
      BY <1>3 DEF Follows, InOrder, Marks
    <3> QED BY <1>1, <2>1, <2>2, <3>1 DEF Follows, InOrder
  <2>4. \A i \in Batches(a) : i = L \/ (i \in Batches(q) /\ i < L /\ i \in Nat)
    BY <1>1
  <2>5. L \in Nat
    BY <1>1 DEF L
  <2>6. \A i, j \in Batches(a) : i < j => NotAfter(End(a[i]), End(a[j]))
    <3> SUFFICES ASSUME NEW i \in Batches(a), NEW j \in Batches(a), i < j
                 PROVE  NotAfter(End(a[i]), End(a[j]))
      OBVIOUS
    <3>1. i \in Batches(q)
      BY <2>4, <2>5
    <3> QED BY <1>1, <2>1, <2>4, <3>1 DEF Follows, InOrder
  <2>7. s.next >= 1 /\ End(m).next >= 1
    BY <1>3 DEF Follows, InOrder, Marks
  <2> QED BY <2>1, <2>3, <2>6, <2>7 DEF InOrder
<1>5. NoGap(a, s, End(m))
  <2>1. ASSUME NEW i \in Batches(a), NEW n \in 1 .. a[i].first - 1
        PROVE  IsDelivered(a, s, a[i].capture, n, i - 1)
    <3>1. CASE i = L
      <4>1. IsDelivered(q, s, p.capture, n, Len(q)) /\ i - 1 = Len(q)
        BY <1>1, <2>1, <3>1 DEF Follows, NoGap, L
      <4> QED BY <1>1, <1>2, <3>1, <4>1
    <3>2. CASE i \in Batches(q)
      <4>1. IsDelivered(q, s, q[i].capture, n, i - 1) /\ i - 1 \in Nat /\ i - 1 <= i - 1
        BY <1>1, <2>1, <3>2 DEF Follows, NoGap
      <4> QED BY <1>1, <1>2, <3>2, <4>1
    <3> QED BY <1>1, <3>1, <3>2
  <2>2. ASSUME NEW n \in 1 .. End(m).next - 1
        PROVE  IsDelivered(a, s, End(m).capture, n, Len(a))
    <3>1. CASE n < p.next
      <4>1. IsDelivered(q, s, p.capture, n, Len(q))
        BY <1>3, <3>1 DEF Follows, NoGap, Marks
      <4>2. Len(q) <= Len(a) /\ Len(a) \in Nat
        BY <1>1 DEF L
      <4> QED BY <1>1, <1>2, <1>3, <4>1, <4>2
    <3>2. CASE ~(n < p.next)
      <4>1. a[L].first <= n /\ n < a[L].first + a[L].count /\ a[L].capture = End(m).capture
        <5>1. m.first <= n /\ n < m.first + m.count
          <6>1. p.next \in Nat /\ n \in Nat
            BY <2>2 DEF Marks
          <6>2. n <= p.next + m.count - 1
            BY <1>3, <2>2
          <6> QED BY <1>3, <3>2, <6>1, <6>2
        <5> QED BY <1>1, <1>3, <5>1
      <4>2. L \in Batches(a) /\ L <= Len(a)
        BY <1>1 DEF L
      <4> QED BY <4>1, <4>2 DEF IsDelivered
    <3> QED BY <3>1, <3>2
  <2> QED BY <2>1, <2>2 DEF NoGap
<1> QED BY <1>4, <1>5 DEF Follows, a

\* The host gets the batch at the head, maybe once more.
LEMMA HeadSeenFollows ==
  ASSUME NEW q \in Seq(Messages), NEW s \in Marks, NEW p \in Marks, Follows(q, s, p),
         1 \in Batches(q)
  PROVE  Follows(q, End(q[1]), p)
<1> DEFINE e == End(q[1])
<1>1. /\ s.capture \in Nat /\ s.next \in Nat /\ p.capture \in Nat /\ p.next \in Nat
      /\ e.capture \in Nat /\ e.next \in Nat
      /\ \A i \in Batches(q) : /\ i \in 1 .. Len(q) /\ q[i].capture = End(q[i]).capture
                               /\ q[i].capture \in Nat
  BY EndsAreMarks, EndIsMark DEF Marks
<1> HIDE DEF e
<1>2. NotAfter(s, e) /\ NotAfter(e, p) /\ e.next >= 1
  BY DEF Follows, InOrder, e
<1>3. \A i \in Batches(q) : NotAfter(e, End(q[i]))
  <2> SUFFICES ASSUME NEW i \in Batches(q) PROVE NotAfter(e, End(q[i]))
    OBVIOUS
  <2>1. CASE i = 1
    BY <1>1, <2>1 DEF NotAfter, e
  <2>2. CASE 1 < i
    BY <2>2 DEF Follows, InOrder, e
  <2> QED BY <1>1, <2>1, <2>2
<1>4. InOrder(q, e, p)
  BY <1>2, <1>3 DEF Follows, InOrder
<1>5. ASSUME NEW capture \in Nat, NEW n, NEW k, e.capture <= capture, n \in Nat,
             IsDelivered(q, s, capture, n, k)
      PROVE  IsDelivered(q, e, capture, n, k)
  <2>1. CASE capture = s.capture /\ n < s.next
    <3>1. capture = e.capture /\ n < e.next
      BY <1>1, <1>2, <1>5, <2>1 DEF NotAfter
    <3> QED BY <3>1 DEF IsDelivered
  <2>2. CASE ~(capture = s.capture /\ n < s.next)
    BY <1>5, <2>2 DEF IsDelivered
  <2> QED BY <2>1, <2>2
<1>6. NoGap(q, e, p)
  <2>1. ASSUME NEW i \in Batches(q), NEW n \in 1 .. q[i].first - 1
        PROVE  IsDelivered(q, e, q[i].capture, n, i - 1)
    <3>1. IsDelivered(q, s, q[i].capture, n, i - 1)
      BY <2>1 DEF Follows, NoGap
    <3>2. e.capture <= q[i].capture /\ n \in Nat
      BY <1>1, <1>3, <2>1 DEF NotAfter
    <3> QED BY <1>1, <1>5, <2>1, <3>1, <3>2
  <2>2. ASSUME NEW n \in 1 .. p.next - 1
        PROVE  IsDelivered(q, e, p.capture, n, Len(q))
    <3>1. IsDelivered(q, s, p.capture, n, Len(q))
      BY <2>2 DEF Follows, NoGap
    <3>2. e.capture <= p.capture /\ n \in Nat
      BY <1>1, <1>2, <2>2 DEF NotAfter
    <3> QED BY <1>1, <1>5, <3>1, <3>2
  <2> QED BY <2>1, <2>2 DEF NoGap
<1> QED BY <1>4, <1>6 DEF Follows, e

\* The head goes when the host has it.
LEMMA HeadGoneFollows ==
  ASSUME NEW q \in Seq(Messages), NEW s \in Marks, NEW p \in Marks, Follows(q, s, p),
         q # <<>>, 1 \in Batches(q) => s = End(q[1])
  PROVE  Follows(Tail(q), s, p)
<1> DEFINE r == Tail(q)
<1>1. /\ r \in Seq(Messages) /\ Len(r) = Len(q) - 1 /\ Len(q) \in Nat /\ Len(q) >= 1
      /\ DOMAIN q = 1 .. Len(q) /\ DOMAIN r = 1 .. Len(q) - 1
      /\ \A i \in 1 .. Len(q) - 1 : r[i] = q[i + 1]
  BY HeadTailProperties, LenProperties, EmptySeq
<1> HIDE DEF r
<1>2. \A i \in Batches(r) : /\ i \in 1 .. Len(q) - 1 /\ i + 1 \in Batches(q) /\ r[i] = q[i + 1]
  BY <1>1 DEF Batches
<1>3. \A j \in Batches(q) : j = 1 \/ (j - 1 \in Batches(r) /\ r[j - 1] = q[j])
  BY <1>1 DEF Batches
<1>4. InOrder(r, s, p)
  <2>1. \A i, j \in Batches(r) : i < j => NotAfter(End(r[i]), End(r[j]))
    <3> SUFFICES ASSUME NEW i \in Batches(r), NEW j \in Batches(r), i < j
                 PROVE  NotAfter(End(r[i]), End(r[j]))
      OBVIOUS
    <3>1. i + 1 < j + 1
      BY <1>1, <1>2
    <3> QED BY <1>2, <3>1 DEF Follows, InOrder
  <2> QED BY <1>2, <2>1 DEF Follows, InOrder
<1>5. ASSUME NEW capture, NEW n, NEW k \in Nat, IsDelivered(q, s, capture, n, k + 1)
      PROVE  IsDelivered(r, s, capture, n, k)
  <2>1. CASE capture = s.capture /\ n < s.next
    BY <2>1 DEF IsDelivered
  <2>2. CASE ~(capture = s.capture /\ n < s.next)
    <3>1. PICK j \in Batches(q) : /\ j <= k + 1 /\ q[j].capture = capture
                                  /\ q[j].first <= n /\ n < q[j].first + q[j].count
      BY <1>5, <2>2 DEF IsDelivered
    <3>2. j # 1
      <4>1. j = 1 => capture = s.capture /\ n < s.next
        BY <3>1, EndsAreMarks, EndIsMark
      <4> QED BY <2>2, <4>1
    <3>3. j - 1 \in Batches(r) /\ r[j - 1] = q[j] /\ j - 1 <= k
      <4>1. j \in 1 .. Len(q)
        BY EndsAreMarks
      <4> QED BY <1>1, <1>3, <3>1, <3>2, <4>1
    <3> QED BY <3>1, <3>3 DEF IsDelivered
  <2> QED BY <2>1, <2>2
<1>6. NoGap(r, s, p)
  <2>1. ASSUME NEW i \in Batches(r), NEW n \in 1 .. r[i].first - 1
        PROVE  IsDelivered(r, s, r[i].capture, n, i - 1)
    <3>1. IsDelivered(q, s, r[i].capture, n, i + 1 - 1)
      BY <1>2, <2>1 DEF Follows, NoGap
    <3>2. i - 1 \in Nat /\ i + 1 - 1 = (i - 1) + 1
      BY <1>1, <1>2
    <3> QED BY <1>5, <3>1, <3>2
  <2>2. ASSUME NEW n \in 1 .. p.next - 1
        PROVE  IsDelivered(r, s, p.capture, n, Len(r))
    <3>1. IsDelivered(q, s, p.capture, n, Len(q))
      BY <2>2 DEF Follows, NoGap
    <3>2. Len(r) \in Nat /\ Len(q) = Len(r) + 1
      BY <1>1
    <3> QED BY <1>5, <3>1, <3>2
  <2> QED BY <2>1, <2>2 DEF NoGap
<1> QED BY <1>4, <1>6 DEF Follows, r

-----------------------------------------------------------------------------
(* What a step leaves alone keeps its part of the invariant.                *)

LEMMA TypesOfMessages == {Answer, LogLine, NoMessage} \subseteq Messages
  /\ Answer.kind = "answer" /\ LogLine.kind = "log" /\ NoMessage.kind = "none"
BY DEF Answer, LogLine, NoMessage, Messages

LEMMA ReceiveSideKept ==
  ASSUME ReceiveSide, UNCHANGED receiveVars
  PROVE  ReceiveSide'
BY DEF ReceiveSide, receiveVars

LEMMA TransmitSideKept ==
  ASSUME TransmitSide, UNCHANGED <<link, transmitVars>>
  PROVE  TransmitSide'
BY DEF TransmitSide, Pipeline, transmitVars

LEMMA StreamSideKept ==
  ASSUME StreamSide, UNCHANGED <<trace, response, discard, seen>>, tx'.queue = tx.queue,
         heard'.head => heard.head
  PROVE  StreamSide'
BY DEF StreamSide

\* The invariant says what the runs check.
LEMMA InvariantTypes == IInv => TypeOK
<1> SUFFICES ASSUME IInv PROVE TypeOK
  OBVIOUS
<1>1. Len(ring) < RingCapacity /\ Len(lines) <= LineDepth /\ Len(framer.line) <= LineCapacity
  BY DEF IInv, ReceiveSide
<1>2. /\ Len(tx.queue) <= TransmitDepth /\ tx.queue \in Seq(Messages)
      /\ tx.done \/ tx.sending => tx.active
      /\ tx.active => tx.queue # <<>>
      /\ link \in {"DETACHED", "CONFIGURED"}
  BY DEF IInv, TransmitSide, Transmitters, Pipeline
<1>3. response = NoMessage => discard = 0
  BY TypesOfMessages DEF IInv, StreamSide, TakesFirst
<1>4. /\ response \in Messages
      /\ discard <= Len(trace.pending) /\ Len(trace.pending) <= TraceCapacity
  BY DEF IInv, StreamSide, RoomForTheLast
<1>5. /\ step \in Steps /\ device \in {"RUNNING", "LOADER"}
      /\ log \in 0 .. LogCapacity /\ mode \in Gate!Modes
  BY DEF IInv, TaskSide
<1>6. {handoff, overflow, completed} \subseteq BOOLEAN
  BY DEF IInv, ReceiveSide, TransmitSide, TaskSide
<1> QED BY <1>1, <1>2, <1>3, <1>4, <1>5, <1>6 DEF TypeOK

-----------------------------------------------------------------------------
(* The initial states.                                                      *)

LEMMA EmptyIsSequence == ASSUME NEW S PROVE <<>> \in Seq(S) /\ Len(<<>>) = 0
OBVIOUS

LEMMA Capacities ==
  /\ RingCapacity \in Nat /\ RingCapacity > 0 /\ LineCapacity \in Nat /\ LineDepth \in Nat
  /\ TransmitDepth \in Nat /\ TransmitDepth > 0
  /\ TraceCapacity \in Nat /\ TraceRecordLimit \in Nat /\ LogCapacity \in Nat
BY CdcAssumption, TraceAssumption, LoggingAssumption

LEMMA InitHolds == Init => IInv
<1> SUFFICES ASSUME Init PROVE IInv
  OBVIOUS
<1>1. ReceiveSide
  <2>1. ring = <<>> /\ lines = <<>> /\ overflow = FALSE
        /\ framer = [line |-> <<>>, discarding |-> FALSE]
    BY DEF Init, CdcInit, EmptyFramer
  <2>2. framer \in Framers
    BY <2>1, EmptyIsSequence DEF Framers
  <2>3. framer.line = <<>> /\ <<>> \in Seq(Parts) /\ <<>> \in Seq(Seq(Parts))
    BY <2>1, EmptyIsSequence
  <2>4. Len(ring) = 0 /\ Len(lines) = 0 /\ Len(framer.line) = 0
    BY <2>1, <2>3
  <2>5. Len(ring) < RingCapacity /\ Len(lines) <= LineDepth /\ Len(framer.line) <= LineCapacity
    BY <2>4, Capacities
  <2> QED BY <2>1, <2>2, <2>3, <2>5 DEF ReceiveSide
<1>2. TransmitSide
  <2>1. /\ tx = [queue |-> <<>>, active |-> FALSE, done |-> FALSE, sending |-> FALSE]
        /\ completed = FALSE /\ heard = [head |-> FALSE, fresh |-> FALSE] /\ link = "DETACHED"
    BY DEF Init, CdcInit
  <2>2. tx \in Transmitters
    BY <2>1, EmptyIsSequence DEF Transmitters
  <2>3. Len(tx.queue) = 0
    BY <2>1
  <2>4. Len(tx.queue) <= TransmitDepth
    BY <2>3, Capacities
  <2>5. Pipeline
    BY <2>1 DEF Pipeline
  <2> QED BY <2>1, <2>2, <2>4, <2>5 DEF TransmitSide
<1>3. TaskSide
  <2>1. sent = [count |-> 0, within |-> Whole] /\ log = 0 /\ 0 \in 0 .. LogCapacity
    BY Capacities DEF Init
  <2>2. sent \in [count : Nat, within : DOMAIN Documents \cup {Whole}]
    BY <2>1
  <2> QED BY <2>1, <2>2 DEF Init, TaskSide, Steps, Gate!Modes
<1>4. StreamSide
  <2>1. /\ trace = IdleTrace /\ response = NoMessage /\ discard = 0
        /\ seen = [capture |-> 0, next |-> 1] /\ tx.queue = <<>>
    BY DEF Init, CdcInit
  <2>2. /\ DOMAIN trace = {"level", "capture", "produced", "pending", "observed", "previous", "armedSeen"}
        /\ trace.level = "OFF"
        /\ trace.capture = 0 /\ trace.produced = 0 /\ trace.pending = <<>>
    BY <2>1 DEF IdleTrace
  <2>3. IsTrace(trace) /\ RoomForTheLast(trace) /\ Reached(trace) = [capture |-> 0, next |-> 1]
    BY <2>2, EmptyIsSequence, TraceAssumption
       DEF IsTrace, RoomForTheLast, Reached, First, Place, Capturing
  <2>4. response \in Messages /\ discard \in 0 .. Len(trace.pending)
        /\ TakesFirst(response, discard, trace)
    BY <2>1, <2>2, TypesOfMessages, EmptyIsSequence DEF TakesFirst
  <2>5. Batches(tx.queue) = {}
    BY <2>1 DEF Batches
  <2>6. seen \in Marks /\ Follows(tx.queue, seen, Reached(trace))
    BY <2>1, <2>3, <2>5 DEF Marks, Follows, InOrder, NoGap, NotAfter
  <2> QED BY <2>3, <2>4, <2>5, <2>6 DEF StreamSide
<1> QED BY <1>1, <1>2, <1>3, <1>4 DEF IInv

-----------------------------------------------------------------------------
(* The host and the interrupt.                                              *)

LEMMA ArrivalKeeps ==
  ASSUME ReceiveSide, NEW part \in Parts, PartArrives(part)
  PROVE  ReceiveSide'
<1>1. UNCHANGED <<framer, lines>>
  BY DEF PartArrives
<1>2. ring' \in Seq(Parts) /\ Len(ring') < RingCapacity /\ overflow' \in BOOLEAN
  <2>1. CASE Len(ring) + 1 >= RingCapacity
    BY <2>1 DEF PartArrives, ReceiveSide
  <2>2. CASE ~(Len(ring) + 1 >= RingCapacity)
    <3>1. ring' = Append(ring, part) /\ UNCHANGED overflow
      BY <2>2 DEF PartArrives
    <3>2. ring \in Seq(Parts) /\ Len(ring) \in Nat
      BY DEF ReceiveSide
    <3>3. ring' \in Seq(Parts) /\ Len(ring') = Len(ring) + 1
      BY <3>1, <3>2, AppendProperties
    <3> QED BY <2>2, <3>1, <3>2, <3>3, Capacities DEF ReceiveSide
  <2> QED BY <2>1, <2>2
<1> QED BY <1>1, <1>2 DEF ReceiveSide

LEMMA HostSendsKeeps == IInv /\ HostSends => IInv'
<1> SUFFICES ASSUME IInv, HostSends PROVE IInv'
  OBVIOUS
<1>1. UNCHANGED <<step, commandVars, device, trace, log, gateVars, seen>>
  BY DEF HostSends
<1>2. ReceiveSide' /\ UNCHANGED <<link, transmitVars>>
      /\ sent' \in [count : Nat, within : DOMAIN Documents \cup {Whole}]
  <2>1. sent \in [count : Nat, within : DOMAIN Documents \cup {Whole}]
    BY DEF IInv, TaskSide
  <2>2. CASE sent.within = Whole /\ sent.count < Len(Script)
    <3>1. PICK name \in Script[sent.count + 1] :
            /\ sent' = [count |-> sent.count + 1, within |-> name]
            /\ PartArrives([request |-> sent.count + 1, document |-> name, at |-> 1])
      BY <2>2 DEF HostSends
    <3>2. sent.count + 1 \in 1 .. Len(Script)
      BY <2>1, <2>2, ServiceAssumption
    <3>3. name \in DOMAIN Documents
      BY <3>2, ServiceAssumption
    <3>4. [request |-> sent.count + 1, document |-> name, at |-> 1] \in Parts
      BY <2>1, <3>3 DEF Parts
    <3>5. ReceiveSide'
      BY <3>1, <3>4, ArrivalKeeps DEF IInv
    <3> QED BY <2>1, <3>1, <3>3, <3>5 DEF PartArrives
  <2>3. CASE sent.within # Whole
    <3>1. /\ sent' = [sent EXCEPT !.within = Whole]
          /\ PartArrives([request |-> sent.count, document |-> sent.within, at |-> 2])
      BY <2>3 DEF HostSends
    <3>2. [request |-> sent.count, document |-> sent.within, at |-> 2] \in Parts
      BY <2>1, <2>3 DEF Parts
    <3>3. ReceiveSide'
      BY <3>1, <3>2, ArrivalKeeps DEF IInv
    <3> QED BY <2>1, <3>1, <3>3 DEF PartArrives
  <2> QED BY <2>2, <2>3 DEF HostSends
<1>3. TransmitSide' /\ StreamSide'
  BY <1>1, <1>2, TransmitSideKept, StreamSideKept DEF IInv, commandVars, transmitVars
<1>4. TaskSide'
  BY <1>1, <1>2 DEF IInv, TaskSide, commandVars, gateVars
<1> QED BY <1>2, <1>3, <1>4 DEF IInv

\* The flags of the transfer are cleared, the queue is not.
LEMMA ClearedTransmitter ==
  ASSUME tx \in Transmitters,
         tx' = [tx EXCEPT !.active = FALSE, !.done = FALSE, !.sending = FALSE]
  PROVE  /\ tx' \in Transmitters /\ tx'.queue = tx.queue
         /\ ~tx'.active /\ ~tx'.done /\ ~tx'.sending
BY DEF Transmitters

LEMMA HostAttachesKeeps == IInv /\ HostAttaches => IInv'
<1> SUFFICES ASSUME IInv, HostAttaches PROVE IInv'
  OBVIOUS
<1>1. /\ UNCHANGED <<step, commandVars, device, trace, log, gateVars, hostVars>>
      /\ UNCHANGED <<receiveVars, completed>>
      /\ link' = "CONFIGURED"
      /\ tx' = [tx EXCEPT !.active = FALSE, !.done = FALSE, !.sending = FALSE]
      /\ heard' = [heard EXCEPT !.fresh = TRUE]
  BY DEF HostAttaches, Attach
<1>2. /\ tx' \in Transmitters /\ tx'.queue = tx.queue
      /\ ~tx'.active /\ ~tx'.done /\ ~tx'.sending
  BY <1>1, ClearedTransmitter DEF IInv, TransmitSide
<1>3. heard' \in [head : BOOLEAN, fresh : BOOLEAN] /\ heard'.head = heard.head /\ heard'.fresh
  BY <1>1 DEF IInv, TransmitSide
<1>4. TransmitSide'
  BY <1>1, <1>2, <1>3 DEF IInv, TransmitSide, Pipeline
<1>5. StreamSide'
  BY <1>1, <1>2, <1>3, StreamSideKept DEF IInv, commandVars, hostVars
<1>6. TaskSide' /\ ReceiveSide'
  BY <1>1, ReceiveSideKept DEF IInv, TaskSide, commandVars, gateVars, hostVars
<1> QED BY <1>4, <1>5, <1>6 DEF IInv

LEMMA HostDetachesKeeps == IInv /\ HostDetaches => IInv'
<1> SUFFICES ASSUME IInv, HostDetaches PROVE IInv'
  OBVIOUS
<1>1. /\ UNCHANGED <<step, commandVars, device, trace, log, gateVars, seen>>
      /\ UNCHANGED <<receiveVars, completed, heard>>
      /\ link' = "DETACHED" /\ sent' = [sent EXCEPT !.within = Whole]
      /\ tx' = [tx EXCEPT !.active = FALSE, !.done = FALSE, !.sending = FALSE]
  BY DEF HostDetaches, Detach
<1>2. /\ tx' \in Transmitters /\ tx'.queue = tx.queue
      /\ ~tx'.active /\ ~tx'.done /\ ~tx'.sending
  BY <1>1, ClearedTransmitter DEF IInv, TransmitSide
<1>3. TransmitSide'
  BY <1>1, <1>2 DEF IInv, TransmitSide, Pipeline
<1>4. StreamSide'
  BY <1>1, <1>2, StreamSideKept DEF IInv, commandVars
<1>5. sent' \in [count : Nat, within : DOMAIN Documents \cup {Whole}]
  BY <1>1 DEF IInv, TaskSide
<1>6. TaskSide' /\ ReceiveSide'
  BY <1>1, <1>5, ReceiveSideKept DEF IInv, TaskSide, commandVars, gateVars
<1> QED BY <1>3, <1>4, <1>6 DEF IInv

LEMMA HostReadsKeeps == IInv /\ HostReads => IInv'
<1> SUFFICES ASSUME IInv, HostReads PROVE IInv'
  OBVIOUS
<1>1. /\ UNCHANGED <<step, commandVars, device, trace, log, gateVars, sent>>
      /\ UNCHANGED <<receiveVars, completed, link>> /\ link = "CONFIGURED" /\ tx.sending
      /\ tx' = [tx EXCEPT !.done = TRUE, !.sending = FALSE]
      /\ heard' = [head |-> TRUE, fresh |-> FALSE]
      /\ seen' = IF Head(tx.queue).kind # "records" THEN seen
                 ELSE [capture |-> Head(tx.queue).capture,
                       next |-> Head(tx.queue).first + Head(tx.queue).count]
  BY DEF HostReads, TransferEnds
<1>2. /\ tx' \in Transmitters /\ tx'.queue = tx.queue /\ tx'.active = tx.active
      /\ tx'.done /\ ~tx'.sending
  BY <1>1 DEF IInv, TransmitSide, Transmitters
<1>3. tx.active /\ tx.queue # <<>> /\ tx.queue \in Seq(Messages)
  BY <1>1 DEF IInv, TransmitSide, Pipeline, Transmitters
<1>4. TransmitSide'
  BY <1>1, <1>2, <1>3 DEF IInv, TransmitSide, Pipeline
<1>5. StreamSide'
  <2>1. Head(tx.queue) = tx.queue[1] /\ 1 \in DOMAIN tx.queue
    BY <1>3, HeadTailProperties, EmptySeq
  <2>2. CASE 1 \notin Batches(tx.queue)
    <3>1. UNCHANGED seen
      BY <1>1, <2>1, <2>2 DEF Batches
    <3> QED BY <1>1, <1>2, <2>2, <3>1 DEF IInv, StreamSide, commandVars
  <2>3. CASE 1 \in Batches(tx.queue)
    <3>1. seen' = End(tx.queue[1])
      BY <1>1, <2>1, <2>3 DEF Batches, End, Place
    <3>2. Reached(trace) \in Marks
      BY ReachedIsMark DEF IInv, StreamSide
    <3>3. seen' \in Marks
      BY <1>3, <2>3, <3>1, EndsAreMarks
    <3>4. Follows(tx.queue, seen', Reached(trace))
      BY <1>3, <2>3, <3>1, <3>2, HeadSeenFollows DEF IInv, StreamSide
    <3> QED BY <1>1, <1>2, <3>1, <3>3, <3>4 DEF IInv, StreamSide, commandVars
  <2> QED BY <2>2, <2>3
<1>6. TaskSide' /\ ReceiveSide'
  BY <1>1, ReceiveSideKept DEF IInv, TaskSide, commandVars, gateVars
<1> QED BY <1>4, <1>5, <1>6 DEF IInv

-----------------------------------------------------------------------------
(* The transport's part of a run.                                           *)

LEMMA FramedKeeps ==
  ASSUME NEW f \in Framers, Len(f.line) <= LineCapacity, NEW part \in Parts
  PROVE  Framed(f, part) \in Framers /\ Len(Framed(f, part).line) <= LineCapacity
<1>1. /\ EmptyFramer \in Framers /\ DiscardCurrentLine \in Framers
      /\ EmptyFramer.line = <<>> /\ DiscardCurrentLine.line = <<>>
  BY EmptyIsSequence DEF Framers, EmptyFramer, DiscardCurrentLine
<1>2. Len(<<>>) <= LineCapacity
  BY EmptyIsSequence, Capacities
<1>3. CASE f.discarding
  <2>1. Framed(f, part) = [f EXCEPT !.discarding = ~EndsLine(part)]
    BY <1>3 DEF Framed
  <2> QED BY <2>1 DEF Framers
<1>4. CASE ~f.discarding /\ EndsLine(part)
  <2>1. Framed(f, part) = EmptyFramer
    BY <1>4 DEF Framed
  <2> QED BY <1>1, <1>2, <2>1
<1>5. CASE ~f.discarding /\ ~EndsLine(part)
  <2>1. Framed(f, part) = IF Len(f.line) = LineCapacity THEN DiscardCurrentLine
                          ELSE [f EXCEPT !.line = Append(@, part)]
    BY <1>5 DEF Framed
  <2>2. CASE Len(f.line) = LineCapacity
    BY <1>1, <1>2, <2>1, <2>2
  <2>3. CASE Len(f.line) # LineCapacity
    <3>1. f.line \in Seq(Parts) /\ Len(f.line) \in Nat
      BY DEF Framers
    <3>2. Append(f.line, part) \in Seq(Parts) /\ Len(Append(f.line, part)) = Len(f.line) + 1
      BY <3>1, AppendProperties
    <3>3. Len(f.line) + 1 <= LineCapacity
      BY <2>3, <3>1, Capacities
    <3>4. Framed(f, part) = [line |-> Append(f.line, part), discarding |-> f.discarding]
      BY <2>1, <2>3 DEF Framers
    <3>5. f.discarding \in BOOLEAN
      BY DEF Framers
    <3> DEFINE longer == Append(f.line, part)
    <3> HIDE DEF longer
    <3> QED BY <3>2, <3>3, <3>4, <3>5 DEF Framers, longer
  <2> QED BY <2>2, <2>3
<1> QED BY <1>3, <1>4, <1>5

LEMMA LinesAfterKeeps ==
  ASSUME ReceiveSide, NEW f \in Framers, NEW part \in Parts
  PROVE  LinesAfter(f, part) \in Seq(Seq(Parts)) /\ Len(LinesAfter(f, part)) <= LineDepth
<1>1. lines \in Seq(Seq(Parts)) /\ Len(lines) <= LineDepth /\ Len(lines) \in Nat
  BY DEF ReceiveSide
<1>2. CASE EndsLine(part) /\ ~f.discarding /\ Len(lines) < LineDepth
  <2> DEFINE line == Append(f.line, part)
  <2>1. line \in Seq(Parts)
    BY AppendProperties DEF Framers
  <2>2. LinesAfter(f, part) = Append(lines, line)
    BY <1>2 DEF LinesAfter
  <2> HIDE DEF line
  <2>3. Append(lines, line) \in Seq(Seq(Parts)) /\ Len(Append(lines, line)) = Len(lines) + 1
    BY <1>1, <2>1, AppendProperties
  <2> QED BY <1>1, <1>2, <2>2, <2>3, Capacities
<1>3. CASE ~(EndsLine(part) /\ ~f.discarding /\ Len(lines) < LineDepth)
  BY <1>1, <1>3 DEF LinesAfter
<1> QED BY <1>2, <1>3

LEMMA ReceiveKeepsLines == ReceiveSide /\ Receive => ReceiveSide'
<1> SUFFICES ASSUME ReceiveSide, Receive PROVE ReceiveSide'
  OBVIOUS
<1> DEFINE f == IF overflow THEN DiscardCurrentLine ELSE framer
<1>1. /\ overflow' = FALSE
      /\ IF ring = <<>>
         THEN framer' = f /\ UNCHANGED <<ring, lines>>
         ELSE /\ ring' = Tail(ring)
              /\ framer' = Framed(f, Head(ring))
              /\ lines' = LinesAfter(f, Head(ring))
  BY DEF Receive
<1>2. f \in Framers /\ Len(f.line) <= LineCapacity
  <2>1. DiscardCurrentLine \in Framers /\ DiscardCurrentLine.line = <<>>
    BY EmptyIsSequence DEF Framers, DiscardCurrentLine
  <2>2. Len(DiscardCurrentLine.line) <= LineCapacity
    BY <2>1, EmptyIsSequence, Capacities
  <2> QED BY <2>1, <2>2 DEF ReceiveSide
<1> HIDE DEF f
<1>3. CASE ring = <<>>
  BY <1>1, <1>2, <1>3 DEF ReceiveSide
<1>4. CASE ring # <<>>
  <2>1. ring \in Seq(Parts)
    BY DEF ReceiveSide
  <2>2. Head(ring) \in Parts /\ Tail(ring) \in Seq(Parts) /\ Len(Tail(ring)) = Len(ring) - 1
        /\ Len(ring) \in Nat
    BY <1>4, <2>1, HeadTailProperties
  <2>3. ring' \in Seq(Parts) /\ Len(ring') < RingCapacity
    <3>1. ring' = Tail(ring)
      BY <1>1, <1>4
    <3>2. Len(ring) < RingCapacity
      BY DEF ReceiveSide
    <3>3. Len(Tail(ring)) < RingCapacity
      BY <2>2, <3>2, Capacities
    <3> QED BY <2>2, <3>1, <3>3
  <2>4. framer' \in Framers /\ Len(framer'.line) <= LineCapacity
    BY <1>1, <1>2, <1>4, <2>2, FramedKeeps
  <2>5. lines' \in Seq(Seq(Parts)) /\ Len(lines') <= LineDepth
    BY <1>1, <1>2, <1>4, <2>2, LinesAfterKeeps
  <2> QED BY <1>1, <2>3, <2>4, <2>5 DEF ReceiveSide
<1> QED BY <1>3, <1>4

LEMMA ReceiveStepKeeps == IInv /\ ReceiveStep => IInv'
<1> SUFFICES ASSUME IInv, ReceiveStep PROVE IInv'
  OBVIOUS
<1>1. /\ UNCHANGED <<commandVars, device, trace, log, gateVars, hostVars>> /\ step' = "transmit"
      /\ UNCHANGED <<link, heard>> /\ Receive
      /\ completed' = tx.done /\ tx' = [tx EXCEPT !.done = FALSE]
  BY DEF ReceiveStep, Receive
<1>2. /\ tx' \in Transmitters /\ tx'.queue = tx.queue /\ tx'.active = tx.active
      /\ ~tx'.done /\ tx'.sending = tx.sending
  BY <1>1 DEF IInv, TransmitSide, Transmitters
<1>3. completed' \in BOOLEAN
  BY <1>1 DEF IInv, TransmitSide, Transmitters
<1>4. TransmitSide'
  BY <1>1, <1>2, <1>3 DEF IInv, TransmitSide, Pipeline
<1>5. StreamSide'
  BY <1>1, <1>2, StreamSideKept DEF IInv, commandVars, hostVars
<1>6. TaskSide'
  BY <1>1 DEF IInv, TaskSide, commandVars, gateVars, hostVars, Steps
<1>7. ReceiveSide'
  BY <1>1, ReceiveKeepsLines DEF IInv
<1> QED BY <1>4, <1>5, <1>6, <1>7 DEF IInv

\* The end of a transfer takes the head off the queue; then the next one starts.
LEMMA TransmitStepKeeps == IInv /\ TransmitStep => IInv'
<1> SUFFICES ASSUME IInv, TransmitStep PROVE IInv'
  OBVIOUS
<1> DEFINE finished == Finished(tx)
<1>1. /\ UNCHANGED <<commandVars, device, trace, log, gateVars, hostVars>> /\ step' = "command"
      /\ UNCHANGED <<link, receiveVars>> /\ completed' = FALSE
      /\ tx' = Started(finished)
      /\ heard' = [heard EXCEPT !.head = @ /\ Len(tx'.queue) = Len(tx.queue)]
  BY DEF TransmitStep, Transmit
<1>2. tx \in Transmitters /\ tx.queue \in Seq(Messages) /\ heard \in [head : BOOLEAN, fresh : BOOLEAN]
      /\ Len(tx.queue) \in Nat /\ Len(tx.queue) <= TransmitDepth
  BY DEF IInv, TransmitSide, Transmitters
<1>3. /\ finished \in Transmitters /\ finished.done = tx.done /\ finished.sending = tx.sending
      /\ IF completed /\ tx.active
         THEN ~finished.active /\ finished.queue = Tail(tx.queue)
         ELSE finished.active = tx.active /\ finished.queue = tx.queue
  <2>1. CASE completed /\ tx.active
    <3>1. tx.queue # <<>>
      BY <2>1 DEF IInv, TransmitSide, Pipeline
    <3>2. Tail(tx.queue) \in Seq(Messages)
      BY <1>2, <3>1, HeadTailProperties
    <3>3. finished = [tx EXCEPT !.active = FALSE, !.queue = Tail(tx.queue)]
      BY <2>1 DEF Finished
    <3> HIDE DEF finished
    <3> QED BY <1>2, <2>1, <3>2, <3>3 DEF Transmitters
  <2>2. CASE ~(completed /\ tx.active)
    BY <1>2, <2>2 DEF Finished
  <2> QED BY <2>1, <2>2
<1> HIDE DEF finished
<1>4. /\ tx' \in Transmitters /\ tx'.queue = finished.queue /\ tx'.done = finished.done
      /\ \/ tx' = finished
         \/ /\ ~finished.active /\ finished.queue # <<>> /\ link = "CONFIGURED" /\ ~finished.sending
            /\ tx'.active /\ tx'.sending
  <2>1. CASE finished.active \/ finished.queue = <<>> \/ link # "CONFIGURED" \/ finished.sending
    BY <1>1, <1>3, <2>1 DEF Started
  <2>2. CASE ~(finished.active \/ finished.queue = <<>> \/ link # "CONFIGURED" \/ finished.sending)
    <3>1. tx' = [finished EXCEPT !.active = TRUE, !.sending = TRUE]
      BY <1>1, <2>2 DEF Started
    <3> QED BY <1>3, <2>2, <3>1 DEF Transmitters
  <2> QED BY <2>1, <2>2
<1>5. TaskSide' /\ ReceiveSide'
  BY <1>1, ReceiveSideKept DEF IInv, TaskSide, commandVars, gateVars, hostVars, Steps
<1>6. CASE completed /\ tx.active
  <2>1. tx.queue # <<>> /\ heard.head /\ ~tx.done /\ ~tx.sending
    BY <1>6 DEF IInv, TransmitSide, Pipeline
  <2>2. tx'.queue = Tail(tx.queue) /\ Len(Tail(tx.queue)) = Len(tx.queue) - 1
    BY <1>2, <1>3, <1>4, <1>6, <2>1, HeadTailProperties
  <2>3. heard' \in [head : BOOLEAN, fresh : BOOLEAN] /\ ~heard'.head
    <3>1. ~(Len(tx'.queue) = Len(tx.queue))
      BY <1>2, <2>2
    <3>2. heard' = [heard EXCEPT !.head = FALSE]
      BY <1>1, <3>1
    <3> QED BY <1>2, <3>2
  <2>4. Len(tx'.queue) <= TransmitDepth
    BY <1>2, <2>2, Capacities
  <2>5. Pipeline'
    <3>1. ~finished.active /\ ~finished.done /\ ~finished.sending
      BY <1>3, <1>6, <2>1
    <3>2. ~tx'.done /\ (tx'.active => tx'.queue # <<>> /\ link = "CONFIGURED")
          /\ (tx'.sending => tx'.active)
      BY <1>4, <3>1
    <3> QED BY <1>1, <2>3, <3>2 DEF Pipeline
  <2>6. TransmitSide'
    BY <1>1, <1>4, <2>3, <2>4, <2>5 DEF IInv, TransmitSide
  <2>7. StreamSide'
    <3>1. 1 \in Batches(tx.queue) => seen = End(tx.queue[1])
      BY <2>1 DEF IInv, StreamSide
    <3>2. Reached(trace) \in Marks
      BY ReachedIsMark DEF IInv, StreamSide
    <3>3. Follows(tx'.queue, seen, Reached(trace))
      BY <1>2, <2>1, <2>2, <3>1, <3>2, HeadGoneFollows DEF IInv, StreamSide
    <3> QED BY <1>1, <2>3, <3>3 DEF IInv, StreamSide, commandVars, hostVars
  <2> QED BY <1>5, <2>6, <2>7 DEF IInv
<1>7. CASE ~(completed /\ tx.active)
  <2>1. tx'.queue = tx.queue
    BY <1>3, <1>4, <1>7
  <2>2. heard' \in [head : BOOLEAN, fresh : BOOLEAN] /\ heard'.head = heard.head
        /\ heard'.fresh = heard.fresh
    BY <1>1, <1>2, <2>1
  <2>3. Pipeline'
    <3>1. CASE tx' = finished
      <4>1. /\ tx'.active = tx.active /\ tx'.done = tx.done /\ tx'.sending = tx.sending
        BY <1>3, <1>7, <3>1
      <4> QED BY <1>1, <2>1, <2>2, <4>1 DEF IInv, TransmitSide, Pipeline
    <3>2. CASE tx' # finished
      <4>1. /\ ~tx.active /\ tx.queue # <<>> /\ link = "CONFIGURED" /\ ~tx.sending
            /\ tx'.active /\ tx'.sending /\ tx'.done = tx.done
        BY <1>3, <1>4, <1>7, <3>2
      <4>2. ~tx.done
        BY <4>1 DEF IInv, TransmitSide, Pipeline
      <4> QED BY <1>1, <2>1, <2>2, <4>1, <4>2 DEF IInv, TransmitSide, Pipeline
    <3> QED BY <3>1, <3>2
  <2>4. TransmitSide'
    BY <1>1, <1>2, <1>4, <2>1, <2>2, <2>3 DEF IInv, TransmitSide
  <2>5. StreamSide'
    BY <1>1, <2>1, <2>2, StreamSideKept DEF IInv, commandVars, hostVars
  <2> QED BY <1>5, <2>4, <2>5 DEF IInv
<1> QED BY <1>6, <1>7

-----------------------------------------------------------------------------
(* Writing to the transport.                                                *)

LEMMA WrittenKeeps ==
  ASSUME TransmitSide, NEW m \in Messages, tx' = WrittenTo(tx, m),
         UNCHANGED <<link, completed, heard>>
  PROVE  /\ TransmitSide'
         /\ tx'.queue = IF WriteResult(tx) = "ACCEPTED" THEN Append(tx.queue, m) ELSE tx.queue
<1>1. tx \in Transmitters /\ tx.queue \in Seq(Messages)
      /\ Len(tx.queue) \in Nat /\ Len(tx.queue) <= TransmitDepth
  BY DEF TransmitSide, Transmitters
<1>2. CASE Len(tx.queue) = TransmitDepth
  <2>1. tx' = tx /\ WriteResult(tx) = "BUSY"
    BY <1>2 DEF WrittenTo, WriteResult
  <2>2. TransmitSide'
    BY <2>1 DEF TransmitSide, Pipeline
  <2> QED BY <2>1, <2>2
<1>3. CASE Len(tx.queue) # TransmitDepth
  <2> DEFINE longer == Append(tx.queue, m)
  <2>1. longer \in Seq(Messages) /\ Len(longer) = Len(tx.queue) + 1
    BY <1>1, AppendProperties
  <2>2. longer # <<>> /\ Len(longer) <= TransmitDepth
    BY <1>1, <1>3, <2>1, EmptyIsSequence, Capacities
  <2>3. tx' = [tx EXCEPT !.queue = longer] /\ WriteResult(tx) = "ACCEPTED"
    BY <1>3 DEF WrittenTo, WriteResult
  <2> HIDE DEF longer
  <2>4. /\ tx' \in Transmitters /\ tx'.queue = longer /\ tx'.active = tx.active
        /\ tx'.done = tx.done /\ tx'.sending = tx.sending
    BY <1>1, <2>1, <2>3 DEF Transmitters
  <2>5. TransmitSide'
    BY <2>2, <2>4 DEF TransmitSide, Pipeline
  <2> QED BY <2>3, <2>4, <2>5 DEF longer
<1> QED BY <1>2, <1>3

\* What the host has of the head does not change when a message is added.
LEMMA HeadStays ==
  ASSUME TransmitSide, StreamSide, NEW m \in Messages, heard.head,
         1 \in Batches(Append(tx.queue, m))
  PROVE  seen = End(Append(tx.queue, m)[1])
<1>1. tx.queue \in Seq(Messages) /\ tx.queue # <<>>
  BY DEF TransmitSide, Transmitters, Pipeline
<1>2. Len(tx.queue) \in Nat /\ Len(tx.queue) # 0
  BY <1>1, EmptySeq
<1>3. 1 \in Batches(tx.queue) /\ Append(tx.queue, m)[1] = tx.queue[1]
  <2>1. Batches(Append(tx.queue, m)) \subseteq Batches(tx.queue) \cup {Len(tx.queue) + 1}
    BY <1>1, AppendedBatches
  <2>2. Len(tx.queue) + 1 # 1
    BY <1>2
  <2>3. 1 \in Batches(tx.queue)
    BY <2>1, <2>2
  <2> QED BY <1>1, <2>3, AppendedBatches
<1> QED BY <1>3 DEF StreamSide

\* try_send_pending_response with the first records of a trace, or with none.
LEMMA TrySendKeeps ==
  ASSUME TransmitSide, StreamSide, UNCHANGED <<link, completed, heard, seen>>,
         NEW m \in Messages, NEW t, NEW count \in 0 .. Len(t.pending),
         IsTrace(t), RoomForTheLast(t), TakesFirst(m, count, t),
         Follows(tx.queue, seen, Reached(t)), TrySend(m, count, t)
  PROVE  TransmitSide' /\ StreamSide'
<1>1. tx.queue \in Seq(Messages) /\ seen \in Marks /\ Reached(t) \in Marks
  BY ReachedIsMark DEF TransmitSide, Transmitters, StreamSide
<1>2. CASE WriteResult(tx) = "ACCEPTED"
  <2>1. /\ tx' = WrittenTo(tx, m) /\ response' = NoMessage /\ discard' = 0
        /\ trace' = DiscardedTrace(t, count)
    BY <1>2 DEF TrySend
  <2>2. TransmitSide' /\ tx'.queue = Append(tx.queue, m)
    BY <1>2, <2>1, WrittenKeeps
  <2> DEFINE s == DiscardedTrace(t, count)
  <2>3. IsTrace(s) /\ s.capture = t.capture /\ First(s) = First(t) + count /\ RoomForTheLast(s)
        /\ Len(s.pending) \in Nat
    <3>1. /\ IsTrace(s) /\ s.capture = t.capture /\ First(s) = First(t) + count
          /\ RoomForTheLast(s)
      BY DiscardedIsTrace
    <3> HIDE DEF s
    <3> QED BY <3>1 DEF IsTrace
  <2> HIDE DEF s
  <2>4. Follows(tx'.queue, seen, Reached(s))
    <3>1. CASE m.kind = "records"
      <4>1. m.capture = t.capture /\ m.first = First(t) /\ m.count = count
        BY <3>1 DEF TakesFirst
      <4>2. m.capture = Reached(t).capture /\ m.first = Reached(t).next
        BY <4>1 DEF Reached, Place
      <4>3. Follows(tx'.queue, seen, End(m))
        BY <1>1, <2>2, <3>1, <4>2, BatchFollows
      <4>4. End(m) = Reached(s)
        BY <2>3, <4>1 DEF End, Reached
      <4> QED BY <4>3, <4>4
    <3>2. CASE m.kind # "records"
      <4>1. count = 0 /\ First(t) \in Nat
        BY <3>2, ReachedIsMark DEF TakesFirst
      <4>2. Reached(s) = Reached(t)
        BY <2>3, <4>1 DEF Reached
      <4> QED BY <1>1, <2>2, <3>2, <4>2, OtherFollows
    <3> QED BY <3>1, <3>2
  <2>5. response' \in Messages /\ discard' \in 0 .. Len(s.pending)
        /\ TakesFirst(response', discard', s)
    BY <2>1, <2>3, TypesOfMessages DEF TakesFirst
  <2>6. heard'.head /\ 1 \in Batches(tx'.queue) => seen' = End(tx'.queue[1])
    BY <2>2, HeadStays
  <2>7. trace' = s
    BY <2>1 DEF s
  <2>8. StreamSide'
    BY <1>1, <2>3, <2>4, <2>5, <2>6, <2>7 DEF StreamSide
  <2> QED BY <2>2, <2>8
<1>3. CASE WriteResult(tx) # "ACCEPTED"
  <2>1. response' = m /\ discard' = count /\ trace' = t /\ tx' = tx
    BY <1>3 DEF TrySend
  <2>2. TransmitSide'
    BY <2>1 DEF TransmitSide, Pipeline
  <2>3. StreamSide'
    BY <2>1 DEF StreamSide
  <2> QED BY <2>2, <2>3
<1> QED BY <1>2, <1>3

-----------------------------------------------------------------------------
(* The commands.                                                            *)

LEMMA LogKeeps ==
  ASSUME NEW n \in 0 .. LogCapacity, NEW level, NEW result
  PROVE  WrittenLog(n, level) \in 0 .. LogCapacity /\ DrainedLog(n, result) \in 0 .. LogCapacity
BY Capacities DEF WrittenLog, DrainedLog

LEMMA ModesKeep ==
  ASSUME mode \in Gate!Modes, Gate!AuthorityNext
  PROVE  mode' \in Gate!Modes
BY DEF Gate!AuthorityNext, Gate!Enable, Gate!Request, Gate!Cancel, Gate!Grant,
       Gate!Power, Gate!Unpower, Gate!Withdraw, Gate!Modes

\* An answer from a trace that follows the queue.
LEMMA AnswersKeep ==
  ASSUME TransmitSide, StreamSide, UNCHANGED <<link, completed, heard, seen>>,
         NEW t, IsTrace(t), RoomForTheLast(t), Follows(tx.queue, seen, Reached(t)), Answers(t)
  PROVE  TransmitSide' /\ StreamSide'
<1>1. Answer \in Messages /\ Answer.kind # "records" /\ 0 \in 0 .. Len(t.pending)
  BY TypesOfMessages DEF IsTrace
<1>2. TakesFirst(Answer, 0, t) /\ TrySend(Answer, 0, t)
  BY <1>1 DEF TakesFirst, Answers
<1> QED BY <1>1, <1>2, TrySendKeeps

LEMMA PlainAnswersKeep ==
  ASSUME TransmitSide, StreamSide, UNCHANGED <<link, completed, heard, seen>>, Answers(trace)
  PROVE  TransmitSide' /\ StreamSide'
BY AnswersKeep DEF StreamSide

LEMMA TraceStartKeeps ==
  ASSUME TransmitSide, StreamSide, UNCHANGED <<link, completed, heard, seen>>,
         NEW level, CommandTraceStart(level)
  PROVE  TransmitSide' /\ StreamSide'
<1>1. CASE mode = "DISARMED" /\ ~Capturing(trace)
  <2> DEFINE s == StartedTrace(trace, level)
  <2>1. Answers(s)
    BY <1>1 DEF CommandTraceStart
  <2>2. IsTrace(s) /\ s.capture = trace.capture + 1 /\ First(s) = 1 /\ RoomForTheLast(s)
    BY StartedIsTrace DEF StreamSide
  <2>3. Reached(s) = Place(Reached(trace).capture + 1, 1)
    BY <2>2 DEF Reached, Place
  <2>4. Follows(tx.queue, seen, Place(Reached(trace).capture + 1, 1))
    BY ReachedIsMark, NewCaptureFollows DEF TransmitSide, Transmitters, StreamSide
  <2> HIDE DEF s
  <2> QED BY <2>1, <2>2, <2>3, <2>4, AnswersKeep
<1>2. CASE ~(mode = "DISARMED" /\ ~Capturing(trace))
  BY <1>2, PlainAnswersKeep DEF CommandTraceStart
<1> QED BY <1>1, <1>2

LEMMA TraceStopKeeps ==
  ASSUME TransmitSide, StreamSide, UNCHANGED <<link, completed, heard, seen>>,
         CommandTraceStop
  PROVE  TransmitSide' /\ StreamSide'
<1> DEFINE s == StoppedTrace(trace)
<1>1. Answers(s)
  BY DEF CommandTraceStop
<1>2. /\ IsTrace(s) /\ RoomForTheLast(s)
      /\ s.capture = trace.capture /\ First(s) = First(trace)
  BY StoppedIsTrace DEF StreamSide
<1>3. Reached(s) = Reached(trace)
  BY <1>2 DEF Reached
<1> HIDE DEF s
<1> QED BY <1>1, <1>2, <1>3, AnswersKeep DEF StreamSide

LEMMA TraceReadKeeps ==
  ASSUME TransmitSide, StreamSide, UNCHANGED <<link, completed, heard, seen>>,
         CommandTraceRead
  PROVE  TransmitSide' /\ StreamSide'
<1>1. PICK count \in ReadableCounts(trace) :
        TrySend([kind |-> "records", capture |-> trace.capture,
                 first |-> trace.produced - Len(trace.pending) + 1, count |-> count],
                count, trace)
  BY DEF CommandTraceRead
<1> DEFINE m == [kind |-> "records", capture |-> trace.capture,
                 first |-> trace.produced - Len(trace.pending) + 1, count |-> count]
<1>2. /\ trace.capture \in Nat /\ Len(trace.pending) \in Nat /\ First(trace) \in Nat
  BY ReachedIsMark DEF StreamSide, IsTrace
<1>3. count \in 0 .. Len(trace.pending)
  BY <1>2, Capacities DEF ReadableCounts, BatchCount
<1>4. m \in Messages /\ m.kind = "records" /\ m.capture = trace.capture
      /\ m.first = First(trace) /\ m.count = count
  BY <1>2, <1>3 DEF Messages, First
<1>5. TrySend(m, count, trace)
  BY <1>1
<1> HIDE DEF m
<1>6. TakesFirst(m, count, trace)
  BY <1>4 DEF TakesFirst
<1> QED BY <1>3, <1>4, <1>5, <1>6, TrySendKeeps DEF StreamSide

\* What a command may do, whatever the line says.
LEMMA ExecuteIsCommand ==
  ASSUME NEW command, NEW level, Execute(command, level)
  PROVE  \/ CommandArm \/ CommandDisarm \/ CommandBootloaderEnter
         \/ CommandTraceStart(level) \/ CommandTraceStop \/ CommandTraceRead
         \/ CommandOther(command)
BY DEF Execute

LEMMA ExecuteKeeps ==
  ASSUME TransmitSide, StreamSide, TaskSide, response = NoMessage,
         UNCHANGED <<link, completed, heard, seen>>,
         NEW command, NEW level, Execute(command, level)
  PROVE  /\ TransmitSide' /\ StreamSide'
         /\ handoff' \in BOOLEAN /\ log' \in 0 .. LogCapacity /\ mode' \in Gate!Modes
<1>1. handoff \in BOOLEAN /\ log \in 0 .. LogCapacity /\ mode \in Gate!Modes
  BY DEF TaskSide
<1>2. ASSUME LogsTransition(trace)
      PROVE  TransmitSide' /\ StreamSide' /\ log' \in 0 .. LogCapacity
  BY <1>1, <1>2, PlainAnswersKeep, LogKeeps DEF LogsTransition
<1>3. CASE CommandArm
  BY <1>1, <1>2, <1>3, PlainAnswersKeep DEF CommandArm, Gate!Request, gateVars
<1>4. CASE CommandDisarm
  BY <1>1, <1>2, <1>4, PlainAnswersKeep
     DEF CommandDisarm, Gate!Cancel, Gate!Withdraw, Gate!Modes, gateVars
<1>5. CASE CommandBootloaderEnter
  <2>1. (handoff \/ SafeState) \in BOOLEAN
    OBVIOUS
  <2> QED BY <1>1, <1>5, <2>1, PlainAnswersKeep DEF CommandBootloaderEnter, gateVars
<1>6. CASE CommandTraceStart(level)
  <2>1. UNCHANGED <<gateVars, log, handoff>>
    BY <1>6 DEF CommandTraceStart
  <2> QED BY <1>1, <1>6, <2>1, TraceStartKeeps DEF gateVars
<1>7. CASE CommandTraceStop
  <2>1. UNCHANGED <<gateVars, log, handoff>>
    BY <1>7 DEF CommandTraceStop
  <2> QED BY <1>1, <1>7, <2>1, TraceStopKeeps DEF gateVars
<1>8. CASE CommandTraceRead
  <2>1. UNCHANGED <<gateVars, log, handoff>>
    BY <1>8 DEF CommandTraceRead
  <2> QED BY <1>1, <1>8, <2>1, TraceReadKeeps DEF gateVars
<1>9. CASE CommandOther(command)
  <2>1. UNCHANGED <<gateVars, handoff>>
    BY <1>9 DEF CommandOther
  <2>2. TransmitSide' /\ StreamSide' /\ log' \in 0 .. LogCapacity
    <3>1. CASE Answers(trace) /\ UNCHANGED log
      BY <1>1, <3>1, PlainAnswersKeep
    <3>2. CASE LogsTransition(trace)
      BY <1>2, <3>2
    <3>3. CASE discard' = 0 /\ UNCHANGED <<tx, response, trace, log>>
      <4>1. TransmitSide'
        BY <3>3 DEF TransmitSide, Pipeline
      <4>2. discard' = discard
        BY <3>3, TypesOfMessages DEF StreamSide, TakesFirst
      <4>3. StreamSide'
        BY <3>3, <4>2 DEF StreamSide
      <4> QED BY <1>1, <3>3, <4>1, <4>3
    <3> QED BY <1>9, <3>1, <3>2, <3>3 DEF CommandOther
  <2> QED BY <1>1, <2>1, <2>2 DEF gateVars
<1> QED BY <1>3, <1>4, <1>5, <1>6, <1>7, <1>8, <1>9, ExecuteIsCommand

LEMMA ProcessOnceKeeps == IInv /\ ProcessOnce => IInv'
<1> SUFFICES ASSUME IInv, ProcessOnce PROVE IInv'
  OBVIOUS
<1>1. /\ UNCHANGED <<device, hostVars, link, ring, overflow, framer, completed, heard>>
      /\ step' = "drain"
  BY DEF ProcessOnce
<1>2. /\ TransmitSide' /\ StreamSide'
      /\ handoff' \in BOOLEAN /\ log' \in 0 .. LogCapacity /\ mode' \in Gate!Modes
      /\ lines' \in Seq(Seq(Parts)) /\ Len(lines') <= LineDepth
  <2>1. /\ handoff \in BOOLEAN /\ log \in 0 .. LogCapacity /\ mode \in Gate!Modes
        /\ lines \in Seq(Seq(Parts)) /\ Len(lines) <= LineDepth
    BY DEF IInv, TaskSide, ReceiveSide
  <2>2. CASE TrySend(response, discard, trace) /\ UNCHANGED <<lines, log, gateVars, handoff>>
    BY <1>1, <2>1, <2>2, TrySendKeeps DEF IInv, StreamSide, hostVars, gateVars
  <2>3. CASE UNCHANGED <<tx, lines, commandVars, trace, log, gateVars>>
    <3>1. TransmitSide' /\ StreamSide'
      BY <1>1, <2>3, TransmitSideKept, StreamSideKept
         DEF IInv, hostVars, commandVars, transmitVars
    <3> QED BY <2>1, <2>3, <3>1 DEF commandVars, gateVars
  <2>4. CASE /\ response = NoMessage /\ lines # <<>> /\ lines' = Tail(lines)
             /\ \E command, level : Execute(command, level)
    <3>1. /\ TransmitSide' /\ StreamSide'
          /\ handoff' \in BOOLEAN /\ log' \in 0 .. LogCapacity /\ mode' \in Gate!Modes
      <4>1. PICK command, level : Execute(command, level)
        BY <2>4
      <4> QED BY <1>1, <2>4, <4>1, ExecuteKeeps DEF IInv, hostVars
    <3>2. Tail(lines) \in Seq(Seq(Parts)) /\ Len(Tail(lines)) = Len(lines) - 1 /\ Len(lines) \in Nat
      BY <2>1, <2>4, HeadTailProperties
    <3> QED BY <2>1, <2>4, <3>1, <3>2, Capacities
  <2>5. CASE /\ response = NoMessage /\ lines # <<>> /\ lines' = Tail(lines)
             /\ LET members == FlattenSeq([k \in DOMAIN Head(lines) |-> MembersOf(Head(lines)[k])])
                IN Execute(CommandOf(Head(lines)), Member(members, "level"))
    <3> DEFINE members == FlattenSeq([k \in DOMAIN Head(lines) |-> MembersOf(Head(lines)[k])])
               command == CommandOf(Head(lines))
               level == Member(members, "level")
    <3>1. Execute(command, level)
      BY <2>5
    <3> HIDE DEF command, level
    <3> QED BY <2>4, <2>5, <3>1
  <2> QED BY <2>2, <2>3, <2>5 DEF ProcessOnce
<1> QED BY <1>1, <1>2 DEF IInv, ReceiveSide, TaskSide, Steps, hostVars

-----------------------------------------------------------------------------
(* The rest of the run, and the other tasks.                                *)

LEMMA TakeHandoffKeeps == IInv /\ TakeHandoff => IInv'
<1> SUFFICES ASSUME IInv, TakeHandoff PROVE IInv'
  OBVIOUS
<1>1. /\ device' = "LOADER" /\ handoff' = FALSE
      /\ UNCHANGED <<step, response, discard, trace, log, gateVars, hostVars, cdcVars>>
  BY DEF TakeHandoff
<1>2. ReceiveSide' /\ TransmitSide' /\ StreamSide'
  BY <1>1, ReceiveSideKept, TransmitSideKept, StreamSideKept
     DEF IInv, cdcVars, transmitVars, hostVars
<1>3. TaskSide'
  BY <1>1 DEF IInv, TaskSide, gateVars, hostVars
<1> QED BY <1>2, <1>3 DEF IInv

LEMMA DrainOnceKeeps == IInv /\ DrainOnce => IInv'
<1> SUFFICES ASSUME IInv, DrainOnce PROVE IInv'
  OBVIOUS
<1>1. /\ UNCHANGED <<commandVars, device, trace, gateVars, hostVars, link, receiveVars,
                     completed, heard>>
      /\ step' = "receive"
  BY DEF DrainOnce
<1>2. /\ TransmitSide' /\ StreamSide' /\ log' \in 0 .. LogCapacity
  <2>1. CASE handoff \/ log = 0
    <3>1. UNCHANGED <<log, tx>>
      BY <2>1 DEF DrainOnce
    <3> QED BY <1>1, <3>1, TransmitSideKept, StreamSideKept
            DEF IInv, TaskSide, transmitVars, hostVars, commandVars
  <2>2. CASE ~(handoff \/ log = 0)
    <3>1. log' = DrainedLog(log, WriteResult(tx)) /\ tx' = WrittenTo(tx, LogLine)
      BY <2>2 DEF DrainOnce
    <3>2. log' \in 0 .. LogCapacity
      BY <3>1, LogKeeps DEF IInv, TaskSide
    <3>3. /\ TransmitSide'
          /\ tx'.queue = IF WriteResult(tx) = "ACCEPTED" THEN Append(tx.queue, LogLine) ELSE tx.queue
      BY <1>1, <3>1, TypesOfMessages, WrittenKeeps DEF IInv
    <3>4. CASE tx'.queue = tx.queue
      BY <1>1, <3>2, <3>3, <3>4, StreamSideKept DEF IInv, hostVars, commandVars
    <3>5. CASE tx'.queue = Append(tx.queue, LogLine)
      <4>1. tx.queue \in Seq(Messages) /\ seen \in Marks /\ Reached(trace) \in Marks
        BY ReachedIsMark DEF IInv, TransmitSide, Transmitters, StreamSide
      <4>2. Follows(tx'.queue, seen, Reached(trace))
        BY <3>5, <4>1, TypesOfMessages, OtherFollows DEF IInv, StreamSide
      <4>3. heard.head /\ 1 \in Batches(tx'.queue) => seen = End(tx'.queue[1])
        BY <3>5, TypesOfMessages, HeadStays DEF IInv
      <4>4. StreamSide'
        BY <1>1, <4>2, <4>3 DEF IInv, StreamSide, hostVars, commandVars
      <4> QED BY <3>2, <3>3, <4>4
    <3> QED BY <3>3, <3>4, <3>5
  <2> QED BY <2>1, <2>2
<1>3. ReceiveSide'
  BY <1>1, ReceiveSideKept DEF IInv
<1>4. TaskSide'
  BY <1>1, <1>2 DEF IInv, TaskSide, Steps, gateVars, hostVars, commandVars
<1> QED BY <1>2, <1>3, <1>4 DEF IInv

\* The trace gets longer, its first record stays the first.
LEMMA FlightTaskKeeps == IInv /\ FlightTask => IInv'
<1> SUFFICES ASSUME IInv, FlightTask PROVE IInv'
  OBVIOUS
<1>1. UNCHANGED <<step, commandVars, device, log, gateVars, hostVars, cdcVars>>
  BY DEF FlightTask
<1>2. PICK changed \in BOOLEAN, due \in BOOLEAN :
        trace' = RecordedTrace(trace, mode, changed, due)
  BY DEF FlightTask
<1>3. /\ IsTrace(trace') /\ trace'.capture = trace.capture /\ First(trace') = First(trace)
      /\ RoomForTheLast(trace') /\ Len(trace'.pending) >= Len(trace.pending)
  BY <1>2, RecordedIsTrace DEF IInv, StreamSide
<1>4. StreamSide'
  <2>1. Reached(trace') = Reached(trace)
    BY <1>3 DEF Reached
  <2>2. TakesFirst(response, discard, trace')
    BY <1>3 DEF IInv, StreamSide, TakesFirst
  <2>3. discard \in 0 .. Len(trace'.pending)
    <3>1. Len(trace.pending) \in Nat /\ Len(trace'.pending) \in Nat
      BY <1>3 DEF IInv, StreamSide, IsTrace
    <3> QED BY <1>3, <3>1 DEF IInv, StreamSide
  <2> QED BY <1>1, <1>3, <2>1, <2>2, <2>3
          DEF IInv, StreamSide, commandVars, hostVars, cdcVars, transmitVars
<1>5. ReceiveSide' /\ TransmitSide'
  BY <1>1, ReceiveSideKept, TransmitSideKept DEF IInv, cdcVars, transmitVars
<1>6. TaskSide'
  BY <1>1 DEF IInv, TaskSide, commandVars, gateVars, hostVars
<1> QED BY <1>4, <1>5, <1>6 DEF IInv

LEMMA LifecycleTaskKeeps == IInv /\ LifecycleTask => IInv'
<1> SUFFICES ASSUME IInv, LifecycleTask PROVE IInv'
  OBVIOUS
<1>1. /\ UNCHANGED <<step, commandVars, device, trace, log, hostVars, cdcVars>>
      /\ Gate!AuthorityNext
  BY DEF LifecycleTask
<1>2. ReceiveSide' /\ TransmitSide' /\ StreamSide'
  BY <1>1, ReceiveSideKept, TransmitSideKept, StreamSideKept
     DEF IInv, cdcVars, transmitVars, hostVars, commandVars
<1>3. TaskSide'
  BY <1>1, ModesKeep DEF IInv, TaskSide, hostVars, commandVars
<1> QED BY <1>2, <1>3 DEF IInv

LEMMA LogTaskKeeps == IInv /\ LogTask => IInv'
<1> SUFFICES ASSUME IInv, LogTask PROVE IInv'
  OBVIOUS
<1>1. UNCHANGED <<step, commandVars, device, trace, gateVars, hostVars, cdcVars>>
  BY DEF LogTask
<1>2. ReceiveSide' /\ TransmitSide' /\ StreamSide'
  BY <1>1, ReceiveSideKept, TransmitSideKept, StreamSideKept
     DEF IInv, cdcVars, transmitVars, hostVars, commandVars
<1>3. log' \in 0 .. LogCapacity
  BY LogKeeps DEF LogTask, IInv, TaskSide
<1>4. TaskSide'
  BY <1>1, <1>3 DEF IInv, TaskSide, gateVars, hostVars, commandVars
<1> QED BY <1>2, <1>4 DEF IInv

LEMMA StepKeeps == IInv /\ [Next]_vars => IInv'
<1> SUFFICES ASSUME IInv, [Next]_vars PROVE IInv'
  OBVIOUS
<1>1. CASE Next
  BY <1>1, HostSendsKeeps, HostAttachesKeeps, HostDetachesKeeps, HostReadsKeeps,
     ReceiveStepKeeps, TransmitStepKeeps, ProcessOnceKeeps, TakeHandoffKeeps, DrainOnceKeeps,
     FlightTaskKeeps, LifecycleTaskKeeps, LogTaskKeeps DEF Next, Run
<1>2. CASE UNCHANGED vars
  <2>1. UNCHANGED <<step, commandVars, device, trace, log, gateVars, hostVars, cdcVars>>
    BY <1>2 DEF vars
  <2>2. ReceiveSide' /\ TransmitSide' /\ StreamSide'
    BY <2>1, ReceiveSideKept, TransmitSideKept, StreamSideKept
       DEF IInv, cdcVars, transmitVars, hostVars, commandVars
  <2>3. TaskSide'
    BY <2>1 DEF IInv, TaskSide, gateVars, hostVars, commandVars
  <2> QED BY <2>2, <2>3 DEF IInv
<1> QED BY <1>1, <1>2

LEMMA InvariantHolds == Spec => []IInv
<1> QED BY InitHolds, StepKeeps, PTL DEF Spec

-----------------------------------------------------------------------------
(* What the steps do to the transmit queue.                                 *)

\* The task's other steps only add to the queue.
OnlyAdds == tx'.done = tx.done /\ Len(tx'.queue) >= Len(tx.queue)

LEMMA TrySendOnlyAdds ==
  ASSUME TransmitSide, NEW m, NEW count, NEW t, TrySend(m, count, t)
  PROVE  OnlyAdds
<1>1. tx \in Transmitters /\ tx.queue \in Seq(Messages \cup {m}) /\ Len(tx.queue) \in Nat
  BY DEF TransmitSide, Transmitters
<1>2. tx' = tx \/ tx' = [tx EXCEPT !.queue = Append(tx.queue, m)]
  BY DEF TrySend, WrittenTo, WriteResult
<1>3. Len(Append(tx.queue, m)) = Len(tx.queue) + 1
  BY <1>1, AppendProperties
<1> QED BY <1>1, <1>2, <1>3 DEF OnlyAdds, Transmitters

LEMMA ProcessOnceOnlyAdds ==
  ASSUME IInv, ProcessOnce
  PROVE  OnlyAdds
<1>1. TransmitSide /\ Len(tx.queue) \in Nat
  BY DEF IInv, TransmitSide, Transmitters
<1>2. CASE UNCHANGED tx
  BY <1>1, <1>2 DEF OnlyAdds
<1>3. CASE TrySend(response, discard, trace)
  BY <1>1, <1>3, TrySendOnlyAdds
<1>4. CASE \E command, level : Execute(command, level)
  <2>1. PICK command, level : Execute(command, level)
    BY <1>4
  <2>2. CASE UNCHANGED tx
    BY <1>1, <2>2 DEF OnlyAdds
  <2>3. ASSUME NEW t, Answers(t) PROVE OnlyAdds
    BY <1>1, <2>3, TrySendOnlyAdds DEF Answers
  <2>4. CASE CommandTraceRead
    <3>1. PICK count \in ReadableCounts(trace) :
            TrySend([kind |-> "records", capture |-> trace.capture,
                     first |-> trace.produced - Len(trace.pending) + 1, count |-> count],
                    count, trace)
      BY <2>4 DEF CommandTraceRead
    <3> QED BY <1>1, <3>1, TrySendOnlyAdds
  <2>5. CASE CommandTraceStart(level)
    BY <2>3, <2>5 DEF CommandTraceStart
  <2>6. CASE CommandTraceStop
    BY <2>3, <2>6 DEF CommandTraceStop
  <2>7. CASE CommandArm \/ CommandDisarm \/ CommandBootloaderEnter \/ CommandOther(command)
    BY <2>2, <2>3, <2>7
       DEF CommandArm, CommandDisarm, CommandBootloaderEnter, CommandOther, LogsTransition
  <2> QED BY <2>1, <2>4, <2>5, <2>6, <2>7, ExecuteIsCommand
<1>5. CASE LET members == FlattenSeq([k \in DOMAIN Head(lines) |-> MembersOf(Head(lines)[k])])
           IN Execute(CommandOf(Head(lines)), Member(members, "level"))
  BY <1>4, <1>5
<1> QED BY <1>2, <1>3, <1>5 DEF ProcessOnce

LEMMA DrainOnceOnlyAdds ==
  ASSUME IInv, DrainOnce
  PROVE  OnlyAdds
<1>1. tx \in Transmitters /\ tx.queue \in Seq(Messages) /\ Len(tx.queue) \in Nat
  BY DEF IInv, TransmitSide, Transmitters
<1>2. tx' = tx \/ tx' = [tx EXCEPT !.queue = Append(tx.queue, LogLine)]
  BY DEF DrainOnce, WrittenTo
<1>3. Len(Append(tx.queue, LogLine)) = Len(tx.queue) + 1
  BY <1>1, TypesOfMessages, AppendProperties
<1> QED BY <1>1, <1>2, <1>3 DEF OnlyAdds, Transmitters

\* A transfer is done only when the host reads, and a message leaves the queue
\* only when the task finishes its transfer.
LEMMA QueueSteps ==
  ASSUME IInv, [Next]_vars
  PROVE  /\ HostReads \/ ~(tx'.done /\ ~tx.done)
         /\ TransmitStep \/ Len(tx'.queue) >= Len(tx.queue)
<1>1. tx \in Transmitters /\ Len(tx.queue) \in Nat
  BY DEF IInv, TransmitSide, Transmitters
<1>2. CASE HostReads
  <2>1. tx'.queue = tx.queue
    BY <1>1, <1>2 DEF HostReads, TransferEnds, Transmitters
  <2> QED BY <1>1, <1>2, <2>1
<1>3. CASE TransmitStep
  <2>1. tx'.done = tx.done
    BY <1>1, <1>3 DEF TransmitStep, Transmit, Started, Finished, Transmitters
  <2> QED BY <1>3, <2>1
<1>4. CASE HostAttaches \/ HostDetaches
  BY <1>1, <1>4, ClearedTransmitter DEF HostAttaches, HostDetaches, Attach, Detach
<1>5. CASE ReceiveStep
  <2>1. tx'.queue = tx.queue /\ ~tx'.done
    BY <1>1, <1>5 DEF ReceiveStep, Receive, Transmitters
  <2> QED BY <1>1, <2>1
<1>6. CASE ProcessOnce \/ DrainOnce
  BY <1>6, ProcessOnceOnlyAdds, DrainOnceOnlyAdds DEF OnlyAdds
<1>7. CASE UNCHANGED tx
  BY <1>1, <1>7
<1>8. HostSends \/ TakeHandoff \/ FlightTask \/ LifecycleTask \/ LogTask \/ UNCHANGED vars
        => UNCHANGED tx
  BY DEF HostSends, PartArrives, TakeHandoff, FlightTask, LifecycleTask, LogTask,
         cdcVars, transmitVars, vars
<1> QED BY <1>2, <1>3, <1>4, <1>5, <1>6, <1>7, <1>8 DEF Next, Run

-----------------------------------------------------------------------------
(* The theorems.                                                            *)

\* Every queue of the service stays within its capacity, a transfer always has a
\* message, and what a waiting response will take from the trace is there, for
\* every capacity, every request and every moment of an interrupt
\* (usb_cdc_transport.c, usb_command_processor.c:28-63, control_trace.c:204-310).
THEOREM QueuesAreBounded == Spec => []TypeOK
<1> QED BY InvariantHolds, InvariantTypes, PTL

\* No message is lost, and none is sent twice on one connection: a message leaves
\* the queue only when the host has it, and the host gets it again only as the
\* first one after a reconnect (usb_cdc_transport.c:223-264, 356-437).
THEOREM EveryMessageArrivesOnce == Spec => MessagesArriveOnce
<1> DEFINE Once == /\ Len(tx'.queue) < Len(tx.queue) => heard.head
                   /\ tx'.done /\ ~tx.done /\ heard.head => heard.fresh
<1>1. IInv /\ [Next]_vars => [Once]_tx
  <2> SUFFICES ASSUME IInv, [Next]_vars PROVE Once
    OBVIOUS
  <2>1. Len(tx'.queue) < Len(tx.queue) => heard.head
    <3> SUFFICES ASSUME Len(tx'.queue) < Len(tx.queue), ~heard.head PROVE FALSE
      OBVIOUS
    <3>1. TransmitStep
      <4>1. Len(tx.queue) \in Nat /\ Len(tx'.queue) \in Nat
        BY StepKeeps DEF IInv, TransmitSide, Transmitters
      <4> QED BY <4>1, QueueSteps
    <3>2. tx' = Started(tx)
      BY <3>1 DEF TransmitStep, Transmit, Finished, IInv, TransmitSide, Pipeline
    <3>3. tx'.queue = tx.queue
      BY <3>2 DEF Started, IInv, TransmitSide, Transmitters
    <3> QED BY <3>3, StepKeeps DEF IInv, TransmitSide, Transmitters
  <2>2. tx'.done /\ ~tx.done /\ heard.head => heard.fresh
    BY QueueSteps DEF HostReads, TransferEnds, IInv, TransmitSide, Pipeline
  <2> QED BY <2>1, <2>2
<1> QED BY <1>1, InvariantHolds, PTL DEF Spec, MessagesArriveOnce

\* The records of a capture reach the host without a gap: a batch begins no later
\* than where the last one ended, and a new capture at its first record
\* (usb_command_processor.c:28-63, 135-163, control_trace.c:287).
THEOREM NoRecordIsSkipped == Spec => NoTraceRecordSkipped
<1> DEFINE Skipless ==
      tx'.done /\ ~tx.done =>
        LET batch == Head(tx.queue)
        IN batch.kind = "records" =>
             batch.first <= (IF batch.capture = seen.capture THEN seen.next ELSE 1)
<1>1. IInv /\ [Next]_vars => [Skipless]_tx
  <2> SUFFICES ASSUME IInv, [Next]_vars, tx'.done, ~tx.done, Head(tx.queue).kind = "records"
               PROVE  Head(tx.queue).first <= (IF Head(tx.queue).capture = seen.capture
                                               THEN seen.next ELSE 1)
    OBVIOUS
  <2> DEFINE batch == tx.queue[1]
  <2>1. tx.queue \in Seq(Messages) /\ tx.queue # <<>>
    BY QueueSteps DEF HostReads, TransferEnds, IInv, TransmitSide, Transmitters, Pipeline
  <2>2. Head(tx.queue) = batch /\ 1 \in Batches(tx.queue) /\ batch \in Messages
    BY <2>1, HeadTailProperties, EmptySeq, ElementOfSeq DEF Batches
  <2>3. batch.first \in Nat /\ seen.next \in Nat /\ seen.next >= 1
    BY <2>2, EndIsMark DEF IInv, StreamSide, Follows, InOrder, Marks
  <2>4. \A n \in 1 .. batch.first - 1 : IsDelivered(tx.queue, seen, batch.capture, n, 0)
    BY <2>2 DEF IInv, StreamSide, Follows, NoGap
  <2>5. \A n \in 1 .. batch.first - 1 : batch.capture = seen.capture /\ n < seen.next
    <3>1. \A j \in Batches(tx.queue) : ~(j <= 0)
      BY <2>1, EndsAreMarks
    <3> QED BY <2>4, <3>1 DEF IsDelivered
  <2> HIDE DEF batch
  <2>6. CASE batch.first <= 1
    BY <2>2, <2>3, <2>6
  <2>7. CASE ~(batch.first <= 1)
    <3>1. batch.first - 1 \in 1 .. batch.first - 1
      BY <2>3, <2>7
    <3>2. batch.capture = seen.capture /\ batch.first - 1 < seen.next
      BY <2>5, <3>1
    <3> QED BY <2>2, <2>3, <3>2
  <2> QED BY <2>6, <2>7
<1> QED BY <1>1, InvariantHolds, PTL DEF Spec, NoTraceRecordSkipped

\* The sample that ends a capture is recorded, however full the trace is
\* (control_trace.c:204-241: one place is kept for it).
THEOREM LastSampleIsKept == Spec => TerminalSampleKept
<1> DEFINE Kept == (step = "receive" /\ Capturing(trace) /\ ~Capturing(trace')) =>
                     trace'.produced = trace.produced + 1
<1>1. IInv /\ [Next]_vars => [Kept]_trace
  <2> SUFFICES ASSUME IInv, [Next]_vars, step = "receive", trace' # trace,
                      Capturing(trace), ~Capturing(trace')
               PROVE  trace'.produced = trace.produced + 1
    OBVIOUS
  <2>1. FlightTask
    BY DEF Next, Run, HostSends, HostAttaches, HostDetaches, HostReads, ReceiveStep, TransmitStep,
           ProcessOnce, TakeHandoff, DrainOnce, LifecycleTask, LogTask, At, vars
  <2>2. PICK changed \in BOOLEAN, due \in BOOLEAN :
          trace' = RecordedTrace(trace, mode, changed, due)
    BY <2>1 DEF FlightTask
  <2> QED BY <2>2, RecordedIsTrace DEF IInv, StreamSide
<1> QED BY <1>1, InvariantHolds, PTL DEF Spec, TerminalSampleKept

===============================================================================
