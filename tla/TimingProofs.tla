---------------------------- MODULE TimingProofs ----------------------------
(***************************************************************************)
(* What the firmware's counting rests on, for every value of the           *)
(* constants: the releases of the scheduler, the microsecond clock that    *)
(* wraps, and the byte counts of the receiver's DMA.  All three are        *)
(* division with remainder.                                                *)
(***************************************************************************)
EXTENDS Scheduler, Timebase, ReceiverDma, TLAPS

(***************************************************************************)
(* Scheduler: for every clock and period.                                  *)
(***************************************************************************)
\* After a callback the release of its task lies beyond its finish, by at most
\* a period: nothing is released twice, and a late task is not called again to
\* catch up (scheduler.c:97-122, record_task_execution).
THEOREM NextReleaseIsNext ==
  ASSUME NEW release \in Nat, NEW finish \in Nat, NEW period \in Nat \ {0}, release <= finish
  PROVE  /\ NextRelease(release, finish, period) > finish
         /\ NextRelease(release, finish, period) <= finish + period
         /\ PeriodsToAdvance(release, finish, period) >= 1
  <1> DEFINE late == finish - release
             q    == late \div period
  <1>1. late \in Nat
    OBVIOUS
  <1>2. q \in Nat /\ q * period <= late /\ late < (q + 1) * period
    BY <1>1
  <1>3. PeriodsToAdvance(release, finish, period) = q + 1
    BY DEF PeriodsToAdvance
  <1>4. NextRelease(release, finish, period) = release + (q + 1) * period
    BY <1>3 DEF NextRelease
  <1>5. (q + 1) * period = q * period + period
    BY <1>2
  <1> QED
    BY <1>1, <1>2, <1>3, <1>4, <1>5

(***************************************************************************)
(* Timebase: for every width of the counter.                               *)
(***************************************************************************)
\* Euclidean division, in a form the provers can use.
LEMMA Division ==
  ASSUME NEW t \in Nat, NEW w \in Nat \ {0}
  PROVE  /\ t \div w \in Nat /\ t % w \in 0 .. w - 1
         /\ t = (t \div w) * w + (t % w)
<1> DEFINE q == t \div w
           r == t % w
<1>1. q \in Nat /\ r \in 0 .. w - 1
  OBVIOUS
<1>2. t = w * q + r
  OBVIOUS
<1>3. w * q = q * w
  BY <1>1
<1> QED BY <1>1, <1>2, <1>3

\* A moment is its turns of the counter and the counter.
LEMMA MomentParts ==
  ASSUME NEW m \in Moments
  PROVE  /\ Wraps(m) \in Nat /\ Counter(m) \in Nat
         /\ m.time = Wraps(m) * CounterWidth + Counter(m)
<1>1. /\ m.time \in Nat
      /\ Wraps(m) = m.time \div CounterWidth /\ Counter(m) = m.time % CounterWidth
  BY DEF Moments, Wraps, Counter
<1> DEFINE t == m.time
<1>2. t \in Nat /\ CounterWidth \in Nat \ {0}
  BY <1>1, CounterWraps
<1> HIDE DEF t
<1>3. /\ t \div CounterWidth \in Nat /\ t % CounterWidth \in 0 .. CounterWidth - 1
      /\ t = (t \div CounterWidth) * CounterWidth + (t % CounterWidth)
  BY <1>2, Division
<1> QED BY <1>1, <1>3 DEF t

\* Time does not make turns undone.
LEMMA WrapsGrow ==
  ASSUME NEW a \in Moments, NEW b \in Moments, a.time <= b.time
  PROVE  Wraps(a) <= Wraps(b)
<1>1. /\ a.time = Wraps(a) * CounterWidth + Counter(a)
      /\ b.time = Wraps(b) * CounterWidth + Counter(b)
      /\ Wraps(a) \in Nat /\ Wraps(b) \in Nat
  BY MomentParts
<1>2. Counter(a) \in 0 .. CounterWidth - 1 /\ Counter(b) \in 0 .. CounterWidth - 1
  BY CounterWraps DEF Counter, Moments
<1>3. SUFFICES ASSUME Wraps(a) >= Wraps(b) + 1 PROVE FALSE
  BY <1>1
<1>4. PICK k \in Nat : Wraps(a) = Wraps(b) + 1 + k
  <2>1. /\ Wraps(a) - Wraps(b) - 1 \in Nat
        /\ Wraps(a) = Wraps(b) + 1 + (Wraps(a) - Wraps(b) - 1)
    BY <1>1, <1>3
  <2> QED BY <2>1
<1>5. Wraps(a) * CounterWidth = Wraps(b) * CounterWidth + CounterWidth + k * CounterWidth
  BY <1>1, <1>4, CounterWraps
<1>6. k * CounterWidth >= 0
  BY <1>4, CounterWraps
<1> QED BY <1>1, <1>2, <1>5, <1>6, CounterWraps DEF Moments

\* The handler catches up, however often it is entered: it counts a turn once
\* (mcu_timebase_handle_overflow_interrupt).
LEMMA HandlerCatchesUp ==
  ASSUME NEW m \in Moments
  PROVE  Handled(m) \in Moments /\ ~UpdatePending(Handled(m)) /\ Handled(m).time = m.time
BY DEF Moments, Handled, UpdatePending, Wraps

\* The resolver is exact: whatever overflow and handler do between the reads,
\* the value is the true time of the read of the counter it used
\* (timebase_snapshot.c:3-24).
THEOREM TimeIsOfTheCall ==
  ASSUME NEW m \in Attempts, Resolves(Snapshot(m))
  PROVE  TimeValue(Snapshot(m)) \in {m[2].time, m[4].time}
<1>1. \A i \in 1 .. 5 : /\ m[i] \in Moments
                        /\ m[i].overflows \in Nat
                        /\ Wraps(m[i]) \in {m[i].overflows, m[i].overflows + 1}
  BY DEF Attempts, Moments
<1>2. \A i \in 1 .. 5 : m[i].overflows = m[1].overflows
  BY <1>1 DEF Attempts, Resolves, Snapshot
<1>3. Wraps(m[2]) <= Wraps(m[3]) /\ Wraps(m[3]) <= Wraps(m[4])
  BY <1>1, WrapsGrow DEF Attempts
<1>4. CASE UpdatePending(m[3])
  <2>1. Wraps(m[4]) = m[1].overflows + 1
    BY <1>1, <1>2, <1>3, <1>4 DEF UpdatePending
  <2>2. TimeValue(Snapshot(m)) = Wraps(m[4]) * CounterWidth + Counter(m[4])
    BY <1>4, <2>1 DEF TimeValue, Snapshot
  <2> QED BY <1>1, <2>2, MomentParts
<1>5. CASE ~UpdatePending(m[3])
  <2>1. Wraps(m[2]) = m[1].overflows
    BY <1>1, <1>2, <1>3, <1>5 DEF UpdatePending
  <2>2. TimeValue(Snapshot(m)) = Wraps(m[2]) * CounterWidth + Counter(m[2])
    BY <1>5, <2>1 DEF TimeValue, Snapshot
  <2> QED BY <1>1, <2>2, MomentParts
<1> QED BY <1>4, <1>5

\* Two calls, one after the other: the clock never steps back
\* (mcu_timebase.c:68-82).
THEOREM ClockNeverStepsBack ==
  ASSUME NEW m \in Attempts, NEW n \in Attempts, m[5].time <= n[1].time,
         Resolves(Snapshot(m)), Resolves(Snapshot(n))
  PROVE  TimeValue(Snapshot(m)) <= TimeValue(Snapshot(n))
<1>1. TimeValue(Snapshot(m)) \in {m[2].time, m[4].time}
  BY TimeIsOfTheCall
<1>2. TimeValue(Snapshot(n)) \in {n[2].time, n[4].time}
  BY TimeIsOfTheCall
<1>3. \A i \in 1 .. 5 : m[i].time \in Nat /\ n[i].time \in Nat
  BY DEF Attempts, Moments
<1>4. m[2].time <= m[5].time /\ m[4].time <= m[5].time
  BY <1>3 DEF Attempts
<1>5. n[1].time <= n[2].time /\ n[1].time <= n[4].time
  BY <1>3 DEF Attempts
<1> QED BY <1>1, <1>2, <1>3, <1>4, <1>5

(***************************************************************************)
(* ReceiverDma: for every capacity and every width of the counters.        *)
(***************************************************************************)
\* A count below the width is not cut.
LEMMA CountIsExact ==
  ASSUME NEW n \in Nat, n < CountWidth
  PROVE  n % CountWidth = n
<1> DEFINE q == n \div CountWidth
           r == n % CountWidth
<1>1. q \in Nat /\ r \in 0 .. CountWidth - 1 /\ n = CountWidth * q + r
  BY ReceiverDmaConstants
<1> HIDE DEF q, r
<1>2. q = 0
  <2>1. SUFFICES ASSUME q # 0 PROVE FALSE
    OBVIOUS
  <2>2. PICK k \in Nat : q = k + 1
    <3>1. q - 1 \in Nat /\ q = (q - 1) + 1
      BY <1>1, <2>1
    <3> QED BY <3>1
  <2>3. CountWidth * q = CountWidth * k + CountWidth /\ CountWidth * k >= 0
    BY <2>2, ReceiverDmaConstants
  <2> QED BY <1>1, <2>3, ReceiverDmaConstants
<1>3. r = n
  BY <1>1, <1>2, ReceiverDmaConstants
<1> QED BY <1>3 DEF r

LEMMA ProducedCounts ==
  ASSUME NEW s \in Streams, Received(s) < CountWidth
  PROVE  /\ Received(s) \in Nat
         /\ ~LapIsPending(s) => Produced(s) = Received(s)
         /\ LapIsPending(s) => Produced(s) = Received(s) - DmaCapacity
<1>1. /\ s.laps \in Nat /\ s.wraps \in Nat /\ s.position \in Nat
      /\ s.laps \in {s.wraps, s.wraps + 1}
  BY ReceiverDmaConstants DEF Streams
<1> DEFINE counted == s.wraps * DmaCapacity + s.position
<1>2. counted \in Nat /\ Received(s) \in Nat
  BY <1>1, ReceiverDmaConstants DEF Received
<1>3. ~LapIsPending(s) => counted = Received(s)
  BY <1>1 DEF LapIsPending, Received
<1>4. LapIsPending(s) => counted = Received(s) - DmaCapacity
  <2>1. (s.wraps + 1) * DmaCapacity = s.wraps * DmaCapacity + DmaCapacity
    BY <1>1, ReceiverDmaConstants
  <2> QED BY <1>1, <2>1, ReceiverDmaConstants DEF LapIsPending, Received
<1>5. counted < CountWidth
  BY <1>2, <1>3, <1>4, ReceiverDmaConstants
<1>6. Produced(s) = counted % CountWidth
  BY DEF Produced
<1> HIDE DEF counted
<1>7. counted % CountWidth = counted
  BY <1>2, <1>5, CountIsExact
<1> QED BY <1>2, <1>3, <1>4, <1>6, <1>7

\* A task that is at most a lap behind loses nothing and gets every byte once,
\* in order, also while the interrupt of the lap is pending: then it gets none
\* (board_receiver.c:80-83).
THEOREM NothingIsLostWithinALap ==
  ASSUME NEW s \in Streams, NEW read \in Nat, Received(s) < CountWidth,
         read <= Received(s), Received(s) - read <= DmaCapacity
  PROVE  /\ Dropped(read, s) = 0
         /\ Delivers(read, s) <=> (~LapIsPending(s) /\ read < Received(s))
         /\ Delivers(read, s) => Number(read, s) = read /\ read \in Held(s)
<1>1. /\ Received(s) \in Nat
      /\ ~LapIsPending(s) => Produced(s) = Received(s)
      /\ LapIsPending(s) => Produced(s) = Received(s) - DmaCapacity
  BY ProducedCounts
<1>2. DmaCapacity \in Nat \ {0}
  BY ReceiverDmaConstants
<1> QED BY <1>1, <1>2 DEF Dropped, Delivers, Backlog, Number, Held

\* With no interrupt pending an overrun is seen for what it is: as many bytes are
\* counted as dropped as were overwritten, and the oldest that is left follows
\* (board_receiver.c:86-94).
THEOREM OverrunIsCounted ==
  ASSUME NEW s \in Streams, NEW read \in Nat, Received(s) < CountWidth,
         ~LapIsPending(s), Received(s) - read > DmaCapacity
  PROVE  /\ Delivers(read, s)
         /\ Number(read, s) = Received(s) - DmaCapacity
         /\ Number(read, s) \in Held(s)
         /\ \A n \in read .. Number(read, s) - 1 : n \notin Held(s)
<1>1. Received(s) \in Nat /\ Produced(s) = Received(s)
  BY ProducedCounts
<1>2. DmaCapacity \in Nat \ {0}
  BY ReceiverDmaConstants
<1>3. Dropped(read, s) = Received(s) - read - DmaCapacity
  BY <1>1, <1>2 DEF Dropped, Backlog
<1>4. Number(read, s) = Received(s) - DmaCapacity
  BY <1>1, <1>2, <1>3 DEF Number
<1> QED BY <1>1, <1>2, <1>4 DEF Delivers, Backlog, Held

\* While it is pending, an overrun of less than a lap goes unseen: nothing is
\* counted, and what is delivered as the next byte has been overwritten.
THEOREM PendingLapHidesOverrun ==
  ASSUME NEW s \in Streams, NEW read \in Nat, Received(s) < CountWidth,
         LapIsPending(s), Received(s) - read > DmaCapacity,
         Received(s) - read <= 2 * DmaCapacity
  PROVE  /\ Delivers(read, s) /\ Dropped(read, s) = 0
         /\ Number(read, s) \notin Held(s)
<1>1. Received(s) \in Nat /\ Produced(s) = Received(s) - DmaCapacity
  BY ProducedCounts
<1>2. DmaCapacity \in Nat \ {0}
  BY ReceiverDmaConstants
<1> QED BY <1>1, <1>2 DEF Delivers, Dropped, Backlog, Number, Held

\* The last byte before the counters wrap can never be read: a reader that has
\* come this far without a restart of the stream delivers nothing ever again,
\* whatever is received (board_receiver.c:80, for 2^32 bytes).
THEOREM SilentAfterCountWrap ==
  ASSUME NEW s \in Streams
  PROVE  /\ ~Delivers(CountWidth - 1, s)
         /\ ReadCount(CountWidth - 1, s) = CountWidth - 1
<1> DEFINE counted == s.wraps * DmaCapacity + s.position
<1>1. s.wraps \in Nat /\ s.position \in Nat
  BY ReceiverDmaConstants DEF Streams
<1>2. counted \in Nat
  BY <1>1, ReceiverDmaConstants
<1>3. Produced(s) = counted % CountWidth
  BY DEF Produced
<1> HIDE DEF counted
<1>4. Produced(s) \in 0 .. CountWidth - 1
  BY <1>2, <1>3, ReceiverDmaConstants
<1>5. ~(Backlog(CountWidth - 1, s) > 0)
  BY <1>4, ReceiverDmaConstants DEF Backlog
<1> QED BY <1>5 DEF Delivers, ReadCount

=============================================================================
