----------------------------- MODULE BlackboxProofs -----------------------------
(***************************************************************************)
(* The blackbox, for every size of the card, the catalogue and the queue   *)
(* and any number of failures and power losses: its data keep their types  *)
(* and its queue its bound, READY means that the card agrees, and the      *)
(* recorder gives up only for a reason.                                    *)
(*                                                                         *)
(* The invariant says what belongs into which sector, what is at the end   *)
(* of the queue while a log is being closed, which pages of the catalogue  *)
(* have been written before a superblock counts them, and how much of the  *)
(* queue is kept for closing a log.                                        *)
(***************************************************************************)
EXTENDS Blackbox, SequenceTheorems, TLAPS

-----------------------------------------------------------------------------
(* Types.                                                                   *)

Pages == [kind : {"page"}, index : 0 .. CatalogPages - 1, logs : [Slots -> Logs]]

Superblocks == [kind : {"super"}, generation : Nat, nextSector : FirstDataSector .. SectorCount,
                nextLogId : Nat, logCount : 0 .. LogCapacity]

Blocks == [kind : BlockTypes, log : Nat, sequence : Nat, items : Nat, dropped : 0 .. DroppedLimit]

\* What is written to a sector.
Belongs(sector, data) ==
  \/ sector \in {0, 1} /\ data \in Superblocks
  \/ /\ sector \in FirstCatalogSector .. FirstDataSector - 1
     /\ data \in Pages /\ data.index = sector - FirstCatalogSector
  \/ sector \in FirstDataSector .. SectorCount - 1 /\ data \in Blocks

Entries == {entry \in [target : Sectors, data : Contents] : Belongs(entry.target, entry.data)}

Fields ==
  {"status", "queue", "writing", "active", "page", "pageValid", "samplesInBlock", "captured",
   "dropped", "checkpointAt", "tail", "armedSeen", "previous", "sequence", "generation",
   "nextSector", "nextLogId", "logCount", "ok"}

IsBox(b) ==
  /\ DOMAIN b = Fields
  /\ b.status \in Statuses /\ b.queue \in Seq(Entries) /\ b.writing \in BOOLEAN
  /\ b.active \in Logs /\ b.page \in Pages /\ b.pageValid \in BOOLEAN
  /\ b.samplesInBlock \in Nat /\ b.captured \in Nat /\ b.dropped \in 0 .. DroppedLimit
  /\ b.checkpointAt \in Nat /\ b.tail \in BOOLEAN /\ b.armedSeen \in BOOLEAN
  /\ b.previous \in Lifecycle!States /\ b.sequence \in Nat /\ b.generation \in Nat
  /\ b.nextSector \in FirstDataSector .. SectorCount /\ b.nextLogId \in Nat
  /\ b.logCount \in 0 .. LogCapacity /\ b.ok \in BOOLEAN

Cards == [initialized : BOOLEAN, writeState : WriteStates, transfer : BOOLEAN,
          sector : Sectors, data : Contents]

-----------------------------------------------------------------------------
(* The card.                                                                *)

\* The page of the last of "count" logs, and that disk d has it.
LastPage(count) == FirstCatalogSector + PageOf(count - 1)
PageOn(d, count) == count = 0 \/ d[LastPage(count)] # Blank
PageIsWritten(count) == PageOn(disk, count)

\* Each sector has what belongs there, and the superblocks count no log without a page.
GoodDisk(d) ==
  /\ d \in [Sectors -> Contents]
  /\ \A s \in Sectors : d[s] \in {Blank, Torn} \/ Belongs(s, d[s])
  /\ \A s \in {0, 1} : IsSuperblock(d[s]) => PageOn(d, d[s].logCount)

\* What may be written to a sector of disk d.
MayBeWritten(d, sector, data) ==
  /\ sector \in Sectors /\ Belongs(sector, data)
  /\ sector \in {0, 1} => PageOn(d, data.logCount)

CardSide ==
  /\ GoodDisk(disk) /\ card \in Cards /\ faults \in Nat
  /\ card.writeState # "IDLE" => MayBeWritten(disk, card.sector, card.data)

-----------------------------------------------------------------------------
(* The box: the memory of the recorder.                                     *)

\* All fields but these are the same.
Same(b, c, changed) == \A f \in Fields \ changed : c[f] = b[f]

\* The queue has only grown.
Grows(b, c) ==
  /\ Len(b.queue) <= Len(c.queue) /\ c.writing = b.writing
  /\ \A i \in 1 .. Len(b.queue) : c.queue[i] = b.queue[i]

\* A superblock is written after the page of the last log it counts.
PagesFirst(q) ==
  \A j \in DOMAIN q : q[j].target \in {0, 1} =>
    \/ PageIsWritten(q[j].data.logCount)
    \/ \E k \in 1 .. j - 1 : q[k].target = LastPage(q[j].data.logCount)

\* The same on a given disk.
PagesFirstOn(d, q) ==
  \A j \in DOMAIN q : q[j].target \in {0, 1} =>
    \/ PageOn(d, q[j].data.logCount)
    \/ \E k \in 1 .. j - 1 : q[k].target = LastPage(q[j].data.logCount)

Sound(b) == IsBox(b) /\ Len(b.queue) <= QueueCapacity /\ PagesFirst(b.queue)

\* The page of the log is the one in memory.
OnItsPage(b) == b.logCount > 0 /\ FirstCatalogSector + b.page.index = LastPage(b.logCount)

\* What closing the log takes: the samples of a block, the footer, a page, two superblocks.
RoomToClose(b) == Len(b.queue) + (IF b.samplesInBlock > 0 THEN 5 ELSE 4) <= QueueCapacity

\* The box of a log that is being recorded: until its first checkpoint there is room
\* to close it.
Open(b) ==
  /\ Sound(b) /\ b.ok /\ b.samplesInBlock < SamplesPerBlock /\ OnItsPage(b)
  /\ b.checkpointAt >= CheckpointInterval
  /\ b.checkpointAt = CheckpointInterval => RoomToClose(b)

\* The last sectors queued are the superblocks.
EndsWithSuperblocks(b) ==
  LET n == Len(b.queue)
  IN /\ n >= 2 /\ b.queue[n] = [target |-> 1, data |-> Superblock(b)]
     /\ b.queue[n - 1] = [target |-> 0, data |-> Superblock(b)]

BoxSide ==
  /\ Sound(box) /\ box.ok
  /\ box.status = "RECORDING" => Open(box)

WorldSide ==
  state \in Lifecycle!States /\ usbConnected \in BOOLEAN /\ damaged \in BOOLEAN

-----------------------------------------------------------------------------
(* The box and the card.                                                    *)

\* A write under way is of the head of the queue; without a log there is no queue.
Writing ==
  /\ box.status # "NO_MEDIA" => card.initialized
  /\ box.writing => /\ box.queue # <<>> /\ card.writeState # "IDLE"
                    /\ card.sector = Head(box.queue).target /\ card.data = Head(box.queue).data
  /\ box.status \in {"NO_MEDIA", "UNINITIALIZED", "READY"} => box.queue = <<>>
  /\ box.status = "READY" => card.writeState = "IDLE" /\ PageIsWritten(box.logCount)

\* A log that is being closed ends with its superblocks; the second may be all that is left.
Closing ==
  box.status = "FINISHING" =>
    \/ EndsWithSuperblocks(box)
    \/ box.queue = <<[target |-> 1, data |-> Superblock(box)]>> /\ disk[0] = Superblock(box)

IInv == CardSide /\ BoxSide /\ WorldSide /\ Writing /\ Closing /\ ReadyMatchesCard

-----------------------------------------------------------------------------
(* Lemmas about sizes and places.                                           *)

LEMMA Sizes ==
  /\ CatalogPages \in Nat \ {0} /\ EntriesPerPage \in Nat \ {0} /\ SamplesPerBlock \in Nat \ {0}
  /\ CheckpointInterval \in Nat \ {0} /\ DroppedLimit \in Nat /\ QueueCapacity \in Nat
  /\ ConfigurationChunks \in 0 .. 2 /\ QueueCapacity >= ConfigurationChunks + 8
  /\ SectorCount \in Nat /\ SectorCount > 2 + CatalogPages
  /\ FirstCatalogSector = 2 /\ FirstDataSector = 2 + CatalogPages
  /\ LogCapacity \in Nat
  <1>1. CatalogPages \in Nat \ {0} /\ EntriesPerPage \in Nat \ {0}
    BY BlackboxAssumption
  <1> QED BY <1>1, BlackboxAssumption, SdCardAssumption
          DEF FirstCatalogSector, FirstDataSector, LogCapacity

\* The page of a log that fits in the catalogue is one of its pages.
LEMMA PageInRange ==
  ASSUME NEW n \in Nat, n < LogCapacity PROVE PageOf(n) \in 0 .. CatalogPages - 1
  <1>. EntriesPerPage \in Nat \ {0} /\ CatalogPages \in Nat \ {0}
    BY Sizes
  <1> QED BY Z3 DEF PageOf, LogCapacity

\* Two logs that follow each other share a page, unless the second begins one.
LEMMA PageShared ==
  ASSUME NEW n \in Nat, n % EntriesPerPage # 0 PROVE PageOf(n) = PageOf(n - 1)
  <1>. EntriesPerPage \in Nat \ {0}
    BY Sizes
  <1> QED BY DEF PageOf

LEMMA SlotInRange ==
  ASSUME NEW n \in Nat PROVE n % EntriesPerPage \in Slots
  <1>. EntriesPerPage \in Nat \ {0}
    BY Sizes
  <1> QED BY DEF Slots

LEMMA ContentsAre == Contents = {Blank, Torn} \cup Superblocks \cup Pages \cup Blocks
  BY DEF Contents, Superblocks, Pages, Blocks

-----------------------------------------------------------------------------
(* The steps of the recorder are built of helpers that take a box and give  *)
(* one back: what they keep.  First the queue.                              *)

LEMMA AppendedKeepsPages ==
  ASSUME NEW q \in Seq(Entries), NEW entry \in Entries, PagesFirst(q),
         entry.target \in {0, 1} =>
           \/ PageIsWritten(entry.data.logCount)
           \/ \E k \in 1 .. Len(q) : q[k].target = LastPage(entry.data.logCount)
  PROVE  PagesFirst(Append(q, entry))
  <1> DEFINE r == Append(q, entry)
  <1>1. /\ Len(q) \in Nat /\ DOMAIN q = 1 .. Len(q) /\ DOMAIN r = 1 .. Len(q) + 1
        /\ r[Len(q) + 1] = entry /\ \A i \in 1 .. Len(q) : r[i] = q[i]
    OBVIOUS
  <1> HIDE DEF r
  <1>2. SUFFICES ASSUME NEW j \in DOMAIN r, r[j].target \in {0, 1}
                 PROVE  \/ PageIsWritten(r[j].data.logCount)
                        \/ \E k \in 1 .. j - 1 : r[k].target = LastPage(r[j].data.logCount)
    BY DEF PagesFirst, r
  <1>3. CASE j = Len(q) + 1
    BY <1>1, <1>2, <1>3
  <1>4. CASE j \in 1 .. Len(q)
    BY <1>1, <1>2, <1>4 DEF PagesFirst
  <1> QED BY <1>1, <1>3, <1>4

LEMMA Queueing ==
  ASSUME NEW b, IsBox(b), Len(b.queue) <= QueueCapacity, NEW target, NEW data,
         [target |-> target, data |-> data] \in Entries
  PROVE  LET c == QueueSector(b, target, data)
         IN /\ IsBox(c) /\ Len(c.queue) <= QueueCapacity
            /\ Grows(b, c) /\ Same(b, c, {"queue", "ok"})
            /\ c.ok => /\ b.ok /\ c.queue = Append(b.queue, [target |-> target, data |-> data])
                       /\ Len(c.queue) = Len(b.queue) + 1
            /\ ~c.ok => c.queue = b.queue
            /\ b.ok /\ Len(b.queue) < QueueCapacity => c.ok
  <1> DEFINE entry == [target |-> target, data |-> data]
  <1> DEFINE c == QueueSector(b, target, data)
  <1> DEFINE r == Append(b.queue, entry)
  <1>1. b.queue \in Seq(Entries) /\ b.ok \in BOOLEAN /\ QueueCapacity \in Nat /\ DOMAIN b = Fields
    BY Sizes DEF IsBox
  <1>2. /\ r \in Seq(Entries) /\ Len(r) = Len(b.queue) + 1 /\ Len(b.queue) \in Nat
        /\ \A i \in 1 .. Len(b.queue) : r[i] = b.queue[i]
    BY <1>1
  <1>3. CASE ~b.ok \/ Len(b.queue) >= QueueCapacity
    <2>1. c = [b EXCEPT !.ok = FALSE]
      BY <1>3 DEF QueueSector
    <2>2. DOMAIN c = Fields /\ c.ok = FALSE /\ Same(b, c, {"ok"})
      BY <1>1, <2>1 DEF Fields, Same
    <2>3. IsBox(c)
      BY <2>2 DEF IsBox, Same, Fields
    <2>4. c.queue = b.queue /\ c.writing = b.writing /\ Same(b, c, {"queue", "ok"})
      BY <2>2 DEF Same, Fields
    <2> QED BY <1>1, <1>2, <1>3, <2>2, <2>3, <2>4 DEF Grows
  <1>4. CASE b.ok /\ Len(b.queue) < QueueCapacity
    <2>1. c = [b EXCEPT !.queue = r]
      BY <1>1, <1>2, <1>4 DEF QueueSector
    <2> HIDE DEF r
    <2>2. DOMAIN c = Fields /\ c.queue = r /\ Same(b, c, {"queue"})
      BY <1>1, <2>1 DEF Fields, Same
    <2>3. IsBox(c)
      BY <1>2, <2>2 DEF IsBox, Same, Fields
    <2>4. c.ok = b.ok /\ c.writing = b.writing /\ Same(b, c, {"queue", "ok"})
      BY <2>2 DEF Same, Fields
    <2> QED BY <1>1, <1>2, <1>4, <2>2, <2>3, <2>4 DEF Grows, r
  <1> QED BY <1>1, <1>2, <1>3, <1>4

LEMMA EntryIs ==
  ASSUME NEW target \in Sectors, NEW data, Belongs(target, data)
  PROVE  [target |-> target, data |-> data] \in Entries
  <1>1. data \in Contents
    BY ContentsAre DEF Belongs
  <1> QED BY <1>1 DEF Entries

LEMMA QueueTypes ==
  ASSUME NEW b, IsBox(b)
  PROVE  b.queue \in Seq(Entries) /\ Len(b.queue) \in Nat
  <1>1. b.queue \in Seq(Entries)
    BY DEF IsBox
  <1> QED BY <1>1

LEMMA GrowsOn ==
  ASSUME NEW b, NEW c, NEW d, IsBox(b), IsBox(c), IsBox(d), Grows(b, c), Grows(c, d)
  PROVE  Grows(b, d)
  <1>1. Len(b.queue) \in Nat /\ Len(c.queue) \in Nat /\ Len(d.queue) \in Nat
    BY QueueTypes
  <1> QED BY <1>1 DEF Grows

LEMMA GrownQueue ==
  ASSUME NEW b, NEW c, IsBox(b), IsBox(c), Sound(b), NEW entry \in Entries,
         c.queue = b.queue \/ c.queue = Append(b.queue, entry),
         Len(c.queue) <= QueueCapacity,
         c.queue # b.queue /\ entry.target \in {0, 1} =>
           \/ PageIsWritten(entry.data.logCount)
           \/ \E k \in 1 .. Len(b.queue) : b.queue[k].target = LastPage(entry.data.logCount)
  PROVE  Sound(c)
  <1>1. b.queue \in Seq(Entries) /\ PagesFirst(b.queue)
    BY DEF Sound, IsBox
  <1>2. PagesFirst(c.queue)
    BY <1>1, AppendedKeepsPages
  <1> QED BY <1>2 DEF Sound

\* A block of the log goes to the next free sector.
LEMMA Allocating ==
  ASSUME NEW b, Sound(b), NEW type \in BlockTypes, NEW items \in Nat,
         NEW dropped \in 0 .. DroppedLimit
  PROVE  LET c == AllocateAndQueue(b, type, items, dropped)
         IN /\ Sound(c) /\ Grows(b, c)
            /\ Same(b, c, {"queue", "ok", "sequence", "active", "nextSector"})
            /\ c.ok => b.ok /\ Len(c.queue) = Len(b.queue) + 1
            /\ Len(c.queue) <= Len(b.queue) + 1
            /\ b.ok /\ ~c.ok => c.nextSector = SectorCount \/ Len(b.queue) = QueueCapacity
  <1> DEFINE data == Block(b, type, items, dropped)
  <1> DEFINE q == QueueSector(b, b.nextSector, data)
  <1> DEFINE c == AllocateAndQueue(b, type, items, dropped)
  <1>1. /\ IsBox(b) /\ Len(b.queue) <= QueueCapacity /\ b.queue \in Seq(Entries) /\ b.ok \in BOOLEAN
        /\ Len(b.queue) \in Nat /\ DOMAIN b = Fields
        /\ b.nextSector \in FirstDataSector .. SectorCount /\ b.sequence \in Nat /\ b.active \in Logs
    BY DEF Sound, IsBox
  <1>2. CASE b.nextSector >= SectorCount
    <2>1. c = [b EXCEPT !.sequence = @ + 1, !.ok = FALSE]
      BY <1>2 DEF AllocateAndQueue
    <2>2. /\ DOMAIN c = Fields /\ c.ok = FALSE /\ c.sequence = b.sequence + 1
          /\ Same(b, c, {"ok", "sequence"})
      BY <1>1, <2>1 DEF Fields, Same
    <2>3. IsBox(c)
      <3>1. IsBox(b) /\ c.sequence \in Nat
        BY <1>1, <2>2
      <3> QED BY <2>2, <3>1 DEF IsBox, Same, Fields
    <2>4. /\ c.queue = b.queue /\ c.writing = b.writing /\ c.nextSector = b.nextSector
          /\ Same(b, c, {"queue", "ok", "sequence", "active", "nextSector"})
      BY <2>2 DEF Same, Fields
    <2>5. c.nextSector = SectorCount
      BY <1>1, <1>2, <2>4, Sizes
    <2>6. Sound(c)
      BY <2>3, <2>4 DEF Sound
    <2> QED BY <1>1, <2>2, <2>4, <2>5, <2>6 DEF Grows
  <1>3. CASE b.nextSector < SectorCount
    <2>1. data \in Blocks
      BY <1>1 DEF Block, Blocks, Logs, IsBox
    <2>2. b.nextSector \in Sectors /\ b.nextSector \notin {0, 1} /\ Belongs(b.nextSector, data)
      BY <1>1, <1>3, <2>1, Sizes DEF Sectors, Belongs
    <2>3. [target |-> b.nextSector, data |-> data] \in Entries
      BY <2>2, EntryIs
    <2> HIDE DEF data
    <2>4. /\ IsBox(q) /\ Len(q.queue) <= QueueCapacity
          /\ Grows(b, q) /\ Same(b, q, {"queue", "ok"})
          /\ q.ok => /\ b.ok /\ q.queue = Append(b.queue, [target |-> b.nextSector, data |-> data])
                     /\ Len(q.queue) = Len(b.queue) + 1
          /\ ~q.ok => q.queue = b.queue
          /\ b.ok /\ Len(b.queue) < QueueCapacity => q.ok
      BY <1>1, <2>3, Queueing
    <2>5. q.ok \in BOOLEAN /\ DOMAIN q = Fields
      BY <2>4 DEF IsBox
    <2>6. CASE ~q.ok
      <3>1. c = [b EXCEPT !.sequence = @ + 1, !.ok = FALSE]
        BY <2>6 DEF AllocateAndQueue, data
      <3>2. /\ DOMAIN c = Fields /\ c.ok = FALSE /\ c.sequence = b.sequence + 1
            /\ Same(b, c, {"ok", "sequence"})
        BY <1>1, <3>1 DEF Fields, Same
      <3>3. IsBox(c)
        <4>1. IsBox(b) /\ c.sequence \in Nat
          BY <1>1, <3>2
        <4> QED BY <3>2, <4>1 DEF IsBox, Same, Fields
      <3>4. /\ c.queue = b.queue /\ c.writing = b.writing
            /\ Same(b, c, {"queue", "ok", "sequence", "active", "nextSector"})
        BY <3>2 DEF Same, Fields
      <3>5. Sound(c)
        BY <3>3, <3>4 DEF Sound
      <3>6. Len(c.queue) = Len(b.queue) /\ Len(c.queue) <= Len(b.queue) + 1
        BY <1>1, <3>4
      <3>7. Grows(b, c)
        BY <1>1, <3>4, <3>6 DEF Grows
      <3>8. b.ok => Len(b.queue) = QueueCapacity
        BY <1>1, <2>4, <2>6, Sizes
      <3> HIDE DEF c, q
      <3> QED BY <3>2, <3>4, <3>5, <3>6, <3>7, <3>8 DEF c
    <2>7. CASE q.ok
      <3>1. c = [q EXCEPT !.sequence = @ + 1, !.active.end = b.nextSector, !.nextSector = @ + 1]
        BY <1>1, <1>3, <2>7, Sizes DEF AllocateAndQueue, data
      <3>2. q.sequence = b.sequence /\ q.active = b.active /\ q.nextSector = b.nextSector
        BY <2>4 DEF Same, Fields
      <3> DEFINE active == [b.active EXCEPT !.end = b.nextSector]
      <3> DEFINE next == b.nextSector + 1
      <3> DEFINE count == b.sequence + 1
      <3>3. c = [q EXCEPT !.sequence = count, !.active = active, !.nextSector = next]
        BY <3>1, <3>2
      <3>4. active \in Logs
        <4>1. b.nextSector \in Nat /\ b.active \in Logs
          BY <1>1, Sizes
        <4> QED BY <4>1 DEF Logs
      <3>5. next \in FirstDataSector .. SectorCount /\ count \in Nat
        BY <1>1, <1>3, Sizes
      <3> HIDE DEF active, next, count
      <3>6. /\ DOMAIN c = Fields /\ c.sequence = count /\ c.nextSector = next
            /\ c.active = active /\ Same(q, c, {"sequence", "active", "nextSector"})
        BY <2>5, <3>3 DEF Fields, Same
      <3>7. IsBox(c)
        BY <2>4, <3>6, <3>4, <3>5 DEF IsBox, Same, Fields
      <3>8. c.queue = q.queue /\ c.writing = q.writing /\ c.ok = q.ok
        BY <3>6 DEF Same, Fields
      <3>9. Same(b, c, {"queue", "ok", "sequence", "active", "nextSector"})
        BY <2>4, <3>6 DEF Same
      <3>10. Grows(b, c)
        BY <2>4, <3>8 DEF Grows
      <3>11. Sound(c)
        BY <1>1, <2>2, <2>3, <2>4, <2>7, <3>7, <3>8, GrownQueue
      <3> QED BY <1>1, <2>4, <2>7, <3>8, <3>9, <3>10, <3>11
    <2> QED BY <2>5, <2>6, <2>7
  <1> QED BY <1>1, <1>2, <1>3, Sizes

LEMMA SuperblockTypes == ASSUME NEW b, IsBox(b) PROVE Superblock(b) \in Superblocks
  BY DEF IsBox, Superblock, Superblocks

LEMMA SameSuperblock ==
  ASSUME NEW b, NEW c, NEW changed, Same(b, c, changed),
         changed \cap {"generation", "nextSector", "nextLogId", "logCount"} = {}
  PROVE  Superblock(c) = Superblock(b)
  BY DEF Same, Fields, Superblock

\* The page, then the superblocks.
LEMMA CatalogPage ==
  ASSUME NEW b, Sound(b), OnItsPage(b)
  PROVE  LET c == EnqueueCatalogPage(b)
         IN /\ Sound(c) /\ Grows(b, c) /\ Same(b, c, {"queue", "ok"})
            /\ Len(c.queue) <= Len(b.queue) + 1
            /\ c.ok => /\ b.ok /\ Len(c.queue) = Len(b.queue) + 1
                       /\ \E k \in 1 .. Len(c.queue) : c.queue[k].target = LastPage(b.logCount)
            /\ b.ok /\ Len(b.queue) < QueueCapacity => c.ok
  <1> DEFINE target == FirstCatalogSector + b.page.index
  <1> DEFINE c == QueueSector(b, target, b.page)
  <1>1. IsBox(b) /\ b.page \in Pages /\ Len(b.queue) <= QueueCapacity
    BY DEF Sound, IsBox
  <1>2. b.page.index \in 0 .. CatalogPages - 1
    BY <1>1 DEF Pages
  <1>3. target \in Sectors /\ target \in FirstCatalogSector .. FirstDataSector - 1
        /\ b.page.index = target - FirstCatalogSector /\ target \notin {0, 1}
    BY <1>2, Sizes DEF Sectors
  <1>4. [target |-> target, data |-> b.page] \in Entries
    BY <1>1, <1>3, EntryIs DEF Belongs
  <1> HIDE DEF target
  <1>5. /\ IsBox(c) /\ Len(c.queue) <= QueueCapacity
        /\ Grows(b, c) /\ Same(b, c, {"queue", "ok"})
        /\ c.ok => /\ b.ok /\ c.queue = Append(b.queue, [target |-> target, data |-> b.page])
                   /\ Len(c.queue) = Len(b.queue) + 1
        /\ ~c.ok => c.queue = b.queue
        /\ b.ok /\ Len(b.queue) < QueueCapacity => c.ok
    BY <1>1, <1>4, Queueing
  <1> HIDE DEF c
  <1>6. b.queue \in Seq(Entries) /\ Len(b.queue) \in Nat /\ Len(c.queue) \in Nat
    BY <1>1, <1>5, QueueTypes
  <1>7. Sound(c)
    BY <1>1, <1>3, <1>4, <1>5, GrownQueue
  <1>8. ASSUME c.ok
        PROVE  \E k \in 1 .. Len(c.queue) : c.queue[k].target = LastPage(b.logCount)
    <2>1. c.queue[Len(b.queue) + 1] = [target |-> target, data |-> b.page]
      BY <1>5, <1>6, <1>8
    <2> QED BY <1>5, <1>6, <1>8, <2>1 DEF OnItsPage, target
  <1> QED BY <1>5, <1>6, <1>7, <1>8 DEF EnqueueCatalogPage, c, target

LEMMA QueueingSuperblock ==
  ASSUME NEW b, Sound(b), NEW sector \in {0, 1}, NEW sb \in Superblocks,
         b.ok => \E k \in 1 .. Len(b.queue) : b.queue[k].target = LastPage(sb.logCount)
  PROVE  LET c == QueueSector(b, sector, sb)
         IN /\ Sound(c) /\ Grows(b, c) /\ Same(b, c, {"queue", "ok"})
            /\ Len(c.queue) <= Len(b.queue) + 1
            /\ c.ok => /\ b.ok /\ c.queue = Append(b.queue, [target |-> sector, data |-> sb])
                       /\ Len(c.queue) = Len(b.queue) + 1
            /\ b.ok /\ Len(b.queue) < QueueCapacity => c.ok
  <1> DEFINE c == QueueSector(b, sector, sb)
  <1> DEFINE entry == [target |-> sector, data |-> sb]
  <1>1. IsBox(b) /\ Len(b.queue) <= QueueCapacity /\ b.queue \in Seq(Entries)
        /\ Len(b.queue) \in Nat
    BY QueueTypes DEF Sound
  <1>2. sector \in Sectors /\ Belongs(sector, sb)
    BY Sizes DEF Sectors, Belongs
  <1>3. entry \in Entries /\ entry.target = sector /\ entry.data = sb
    BY <1>2, EntryIs
  <1>4. /\ IsBox(c) /\ Len(c.queue) <= QueueCapacity
        /\ Grows(b, c) /\ Same(b, c, {"queue", "ok"})
        /\ c.ok => b.ok /\ c.queue = Append(b.queue, entry) /\ Len(c.queue) = Len(b.queue) + 1
        /\ ~c.ok => c.queue = b.queue
        /\ b.ok /\ Len(b.queue) < QueueCapacity => c.ok
    BY <1>1, <1>3, Queueing
  <1> HIDE DEF c, entry
  <1>5. Sound(c)
    BY <1>1, <1>3, <1>4, GrownQueue
  <1> QED BY <1>1, <1>4, <1>5 DEF c, entry

\* The entry of the log in its page.
LEMMA EntryOfTheLog ==
  ASSUME NEW b, Sound(b), OnItsPage(b)
  PROVE  LET c == [b EXCEPT !.page.logs[(b.logCount - 1) % EntriesPerPage] = b.active]
         IN Sound(c) /\ OnItsPage(c) /\ Same(b, c, {"page"})
  <1> DEFINE slot == (b.logCount - 1) % EntriesPerPage
  <1> DEFINE page == [b.page EXCEPT !.logs[slot] = b.active]
  <1> DEFINE c == [b EXCEPT !.page = page]
  <1>1. /\ IsBox(b) /\ DOMAIN b = Fields /\ b.logCount \in 0 .. LogCapacity
        /\ b.page \in Pages /\ b.active \in Logs
    BY DEF Sound, IsBox
  <1>2. b.logCount - 1 \in Nat
    BY <1>1, Sizes DEF OnItsPage
  <1>3. slot \in Slots
    BY <1>2, SlotInRange
  <1>4. page \in Pages /\ page.index = b.page.index
    <2> HIDE DEF slot
    <2> QED BY <1>1, <1>3 DEF Pages
  <1>5. [b EXCEPT !.page.logs[slot] = b.active] = c
    BY <1>1 DEF Fields
  <1> HIDE DEF page, slot
  <1>6. DOMAIN c = Fields /\ c.page = page /\ Same(b, c, {"page"})
    BY <1>1 DEF Fields, Same
  <1>7. IsBox(c)
    BY <1>1, <1>4, <1>6 DEF IsBox, Same, Fields
  <1>8. c.queue = b.queue /\ c.logCount = b.logCount
    BY <1>6 DEF Same, Fields
  <1>9. Sound(c) /\ OnItsPage(c)
    BY <1>4, <1>6, <1>7, <1>8 DEF Sound, OnItsPage
  <1> HIDE DEF c
  <1> QED BY <1>5, <1>6, <1>9 DEF slot

LEMMA Metadata ==
  ASSUME NEW b, Sound(b), OnItsPage(b)
  PROVE  LET c == EnqueueMetadata(b)
         IN /\ Sound(c) /\ OnItsPage(c) /\ Grows(b, c) /\ Same(b, c, {"queue", "ok", "page"})
            /\ c.ok => b.ok /\ EndsWithSuperblocks(c) /\ Len(c.queue) = Len(b.queue) + 3
            /\ b.ok /\ Len(b.queue) + 3 <= QueueCapacity => c.ok
  <1> DEFINE m == [b EXCEPT !.page.logs[(b.logCount - 1) % EntriesPerPage] = b.active]
  <1> DEFINE p == EnqueueCatalogPage(m)
  <1> DEFINE s == QueueSector(p, 0, Superblock(p))
  <1> DEFINE c == QueueSector(s, 1, Superblock(p))
  <1>1. c = EnqueueMetadata(b)
    BY DEF EnqueueMetadata, EnqueueSuperblocks
  <1>2. Sound(m) /\ OnItsPage(m) /\ Same(b, m, {"page"})
    BY EntryOfTheLog
  <1>3. m.queue = b.queue /\ m.ok = b.ok /\ m.writing = b.writing /\ m.logCount = b.logCount
    BY <1>2 DEF Same, Fields
  <1> HIDE DEF m
  <1>4. /\ Sound(p) /\ Grows(m, p) /\ Same(m, p, {"queue", "ok"})
        /\ Len(p.queue) <= Len(m.queue) + 1
        /\ p.ok => /\ m.ok /\ Len(p.queue) = Len(m.queue) + 1
                   /\ \E k \in 1 .. Len(p.queue) : p.queue[k].target = LastPage(m.logCount)
        /\ m.ok /\ Len(m.queue) < QueueCapacity => p.ok
    BY <1>2, CatalogPage
  <1> HIDE DEF p
  <1> DEFINE sb == Superblock(p)
  <1>5. sb \in Superblocks /\ sb.logCount = m.logCount
    BY <1>4, SuperblockTypes DEF Sound, Same, Fields, Superblock
  <1> HIDE DEF sb
  <1>6. /\ Sound(s) /\ Grows(p, s) /\ Same(p, s, {"queue", "ok"})
        /\ Len(s.queue) <= Len(p.queue) + 1
        /\ s.ok => /\ p.ok /\ s.queue = Append(p.queue, [target |-> 0, data |-> sb])
                   /\ Len(s.queue) = Len(p.queue) + 1
        /\ p.ok /\ Len(p.queue) < QueueCapacity => s.ok
    BY <1>4, <1>5, QueueingSuperblock DEF sb
  <1> HIDE DEF s
  <1>7. /\ IsBox(b) /\ IsBox(p) /\ IsBox(s)
        /\ Len(b.queue) \in Nat /\ Len(p.queue) \in Nat /\ Len(s.queue) \in Nat
        /\ p.queue \in Seq(Entries) /\ s.queue \in Seq(Entries)
    BY <1>4, <1>6, QueueTypes DEF Sound
  <1>8. ASSUME s.ok
        PROVE  \E k \in 1 .. Len(s.queue) : s.queue[k].target = LastPage(sb.logCount)
    <2>1. PICK k \in 1 .. Len(p.queue) : p.queue[k].target = LastPage(m.logCount)
      BY <1>4, <1>6, <1>8
    <2>2. s.queue[k] = p.queue[k] /\ k \in 1 .. Len(s.queue)
      BY <1>6, <1>7, <2>1 DEF Grows
    <2> QED BY <1>5, <2>1, <2>2
  <1>9. /\ Sound(c) /\ Grows(s, c) /\ Same(s, c, {"queue", "ok"})
        /\ Len(c.queue) <= Len(s.queue) + 1
        /\ c.ok => /\ s.ok /\ c.queue = Append(s.queue, [target |-> 1, data |-> sb])
                   /\ Len(c.queue) = Len(s.queue) + 1
        /\ s.ok /\ Len(s.queue) < QueueCapacity => c.ok
    BY <1>5, <1>6, <1>8, QueueingSuperblock DEF sb
  <1> HIDE DEF c
  <1>10. Same(b, c, {"queue", "ok", "page"}) /\ Same(p, c, {"queue", "ok"})
    BY <1>2, <1>4, <1>6, <1>9 DEF Same
  <1>11. Grows(b, c)
    <2>1. IsBox(c) /\ Grows(b, p)
      BY <1>3, <1>4, <1>9 DEF Grows, Sound
    <2> QED BY <1>6, <1>7, <1>9, <2>1, GrowsOn
  <1>12. OnItsPage(c)
    <2>1. c.page = m.page /\ c.logCount = m.logCount
      BY <1>4, <1>6, <1>9 DEF Same, Fields
    <2> QED BY <1>2, <2>1 DEF OnItsPage
  <1>13. ASSUME c.ok
         PROVE  b.ok /\ EndsWithSuperblocks(c) /\ Len(c.queue) = Len(b.queue) + 3
    <2>1. /\ s.ok /\ c.queue = Append(s.queue, [target |-> 1, data |-> sb])
          /\ Len(c.queue) = Len(s.queue) + 1
      BY <1>9, <1>13
    <2>2. /\ p.ok /\ s.queue = Append(p.queue, [target |-> 0, data |-> sb])
          /\ Len(s.queue) = Len(p.queue) + 1
      BY <1>6, <2>1
    <2>3. b.ok /\ Len(p.queue) = Len(b.queue) + 1
      BY <1>3, <1>4, <2>2
    <2>4. c.queue[Len(p.queue) + 2] = [target |-> 1, data |-> sb]
      BY <1>5, <1>7, <2>1, <2>2
    <2>5. s.queue[Len(p.queue) + 1] = [target |-> 0, data |-> sb]
      BY <1>5, <1>7, <2>2
    <2>6. c.queue[Len(p.queue) + 1] = s.queue[Len(p.queue) + 1]
      BY <1>7, <2>1, <2>2
    <2>7. Superblock(c) = sb
      BY <1>10, SameSuperblock DEF sb
    <2>8. Len(c.queue) = Len(p.queue) + 2 /\ Len(c.queue) - 1 = Len(p.queue) + 1
          /\ Len(c.queue) >= 2
      BY <1>7, <2>1, <2>2
    <2>9. EndsWithSuperblocks(c)
      BY <2>4, <2>5, <2>6, <2>7, <2>8 DEF EndsWithSuperblocks
    <2> QED BY <1>7, <2>3, <2>8, <2>9
  <1>14. b.ok /\ Len(b.queue) + 3 <= QueueCapacity => c.ok
    BY <1>3, <1>4, <1>6, <1>7, <1>9, Sizes
  <1> QED BY <1>1, <1>9, <1>10, <1>11, <1>12, <1>13, <1>14

-----------------------------------------------------------------------------
(* Samples, checkpoints and the end of a log.                               *)

\* The counts of the log, and the next generation of the superblock.
LEMMA CountedLog ==
  ASSUME NEW b, Sound(b), NEW log \in Logs
  PROVE  LET c == [b EXCEPT !.active = log, !.generation = @ + 1]
         IN Sound(c) /\ Same(b, c, {"active", "generation"})
  <1> DEFINE next == b.generation + 1
  <1> DEFINE c == [b EXCEPT !.active = log, !.generation = next]
  <1>1. IsBox(b) /\ DOMAIN b = Fields /\ b.generation \in Nat
    BY DEF Sound, IsBox
  <1>2. next \in Nat
    BY <1>1
  <1> HIDE DEF next
  <1>3. /\ DOMAIN c = Fields /\ c.active = log /\ c.generation = next
        /\ Same(b, c, {"active", "generation"})
    BY <1>1 DEF Fields, Same
  <1>4. IsBox(c)
    BY <1>1, <1>2, <1>3 DEF IsBox, Same, Fields
  <1>5. Sound(c)
    BY <1>3, <1>4 DEF Sound, Same, Fields
  <1> QED BY <1>3, <1>5 DEF next

LEMMA CountsOf ==
  ASSUME NEW b, IsBox(b)
  PROVE  /\ [b.active EXCEPT !.samples = b.captured, !.dropped = b.dropped] \in Logs
         /\ [b.active EXCEPT !.samples = b.captured, !.dropped = b.dropped, !.complete = TRUE]
              \in Logs
  <1>1. b.active \in Logs /\ b.captured \in Nat /\ b.dropped \in 0 .. DroppedLimit
    BY DEF IsBox
  <1> QED BY <1>1 DEF Logs

LEMMA Checkpointing ==
  ASSUME NEW b, Sound(b), b.ok, OnItsPage(b), b.checkpointAt >= CheckpointInterval
  PROVE  LET c == Checkpoint(b)
         IN /\ Sound(c) /\ c.ok /\ OnItsPage(c) /\ Grows(b, c)
            /\ Same(b, c, {"queue", "ok", "page", "active", "generation", "checkpointAt"})
            /\ c = b \/ c.checkpointAt > CheckpointInterval
  <1>1. /\ IsBox(b) /\ DOMAIN b = Fields /\ Len(b.queue) \in Nat /\ b.checkpointAt \in Nat
        /\ b.captured \in Nat
    BY QueueTypes DEF Sound, IsBox
  <1>2. CASE b.captured < b.checkpointAt \/ Len(b.queue) > QueueCapacity - 3
    <2>1. Checkpoint(b) = b
      BY <1>2 DEF Checkpoint
    <2> QED BY <1>1, <2>1 DEF Same, Grows
  <1>3. CASE ~(b.captured < b.checkpointAt \/ Len(b.queue) > QueueCapacity - 3)
    <2> DEFINE log == [b.active EXCEPT !.samples = b.captured, !.dropped = b.dropped]
    <2> DEFINE d == [b EXCEPT !.active = log, !.generation = @ + 1]
    <2> DEFINE m == EnqueueMetadata(d)
    <2> DEFINE at == b.checkpointAt + CheckpointInterval
    <2> DEFINE c == [m EXCEPT !.checkpointAt = at]
    <2>1. d = [b EXCEPT !.active.samples = b.captured, !.active.dropped = b.dropped,
                        !.generation = @ + 1]
      BY <1>1 DEF Fields
    <2>2. Sound(d) /\ Same(b, d, {"active", "generation"})
      BY CountedLog, CountsOf DEF Sound
    <2> HIDE DEF d
    <2>3. d.queue = b.queue /\ d.ok = b.ok /\ OnItsPage(d) /\ d.writing = b.writing
      BY <2>2 DEF Same, Fields, OnItsPage
    <2>4. /\ Sound(m) /\ OnItsPage(m) /\ Grows(d, m) /\ Same(d, m, {"queue", "ok", "page"})
          /\ d.ok /\ Len(d.queue) + 3 <= QueueCapacity => m.ok
      BY <2>2, <2>3, Metadata
    <2> HIDE DEF m
    <2>5. m.ok
      <3>1. Len(d.queue) + 3 <= QueueCapacity
        BY <1>1, <1>3, <2>3, Sizes
      <3> QED BY <2>3, <2>4, <3>1
    <2>6. m.checkpointAt = b.checkpointAt /\ DOMAIN m = Fields /\ IsBox(m)
      BY <2>2, <2>4 DEF Same, Fields, Sound, IsBox
    <2>7. Checkpoint(b) = c
      BY <1>3, <2>1, <2>6 DEF Checkpoint, m
    <2>8. at \in Nat /\ at > CheckpointInterval
      BY <1>1, Sizes
    <2> HIDE DEF at
    <2>9. DOMAIN c = Fields /\ c.checkpointAt = at /\ Same(m, c, {"checkpointAt"})
      BY <2>6 DEF Fields, Same
    <2>10. IsBox(c)
      BY <2>6, <2>8, <2>9 DEF IsBox, Same, Fields
    <2>11. c.queue = m.queue /\ c.writing = m.writing /\ c.ok = m.ok
           /\ c.logCount = m.logCount /\ c.page = m.page
      BY <2>9 DEF Same, Fields
    <2>12. Same(b, c, {"queue", "ok", "page", "active", "generation", "checkpointAt"})
      BY <2>2, <2>4, <2>9 DEF Same
    <2>13. Sound(c) /\ OnItsPage(c) /\ Grows(b, c)
      BY <2>3, <2>4, <2>10, <2>11 DEF Sound, OnItsPage, Grows
    <2> QED BY <2>5, <2>7, <2>8, <2>9, <2>11, <2>12, <2>13
  <1> QED BY <1>2, <1>3

LEMMA Flushing ==
  ASSUME NEW b, Sound(b), b.ok, OnItsPage(b)
  PROVE  LET c == FlushSampleBlock(b)
         IN /\ Sound(c) /\ Grows(b, c) /\ OnItsPage(c)
            /\ Same(b, c, {"queue", "ok", "sequence", "active", "nextSector", "samplesInBlock"})
            /\ c.ok => c.samplesInBlock = 0
            /\ b.samplesInBlock = 0 => c = b
            /\ Len(c.queue) <= Len(b.queue) + 1
            /\ ~c.ok => c.nextSector = SectorCount \/ Len(b.queue) = QueueCapacity
  <1> DEFINE f == AllocateAndQueue(b, "samples", b.samplesInBlock, 0)
  <1> DEFINE c == [f EXCEPT !.samplesInBlock = 0]
  <1>1. /\ IsBox(b) /\ DOMAIN b = Fields /\ Len(b.queue) \in Nat /\ b.samplesInBlock \in Nat
    BY QueueTypes DEF Sound, IsBox
  <1>2. CASE b.samplesInBlock = 0
    <2>1. FlushSampleBlock(b) = b
      BY <1>2 DEF FlushSampleBlock
    <2> QED BY <1>1, <1>2, <2>1 DEF Same, Grows
  <1>3. CASE b.samplesInBlock # 0
    <2>1. FlushSampleBlock(b) = IF f.ok THEN c ELSE f
      BY <1>3 DEF FlushSampleBlock
    <2>2. "samples" \in BlockTypes /\ 0 \in 0 .. DroppedLimit
      BY Sizes DEF BlockTypes
    <2>3. /\ Sound(f) /\ Grows(b, f)
          /\ Same(b, f, {"queue", "ok", "sequence", "active", "nextSector"})
          /\ Len(f.queue) <= Len(b.queue) + 1
          /\ b.ok /\ ~f.ok => f.nextSector = SectorCount \/ Len(b.queue) = QueueCapacity
      BY <1>1, <2>2, Allocating
    <2> HIDE DEF f
    <2>4. IsBox(f) /\ DOMAIN f = Fields
      BY <2>3 DEF Sound, IsBox
    <2>5. DOMAIN c = Fields /\ c.samplesInBlock = 0 /\ Same(f, c, {"samplesInBlock"})
      BY <2>4 DEF Fields, Same
    <2>6. IsBox(c)
      BY <2>4, <2>5 DEF IsBox, Same, Fields
    <2>7. c.queue = f.queue /\ c.writing = f.writing /\ c.ok = f.ok
      BY <2>5 DEF Same, Fields
    <2>8. Sound(c) /\ Grows(b, c)
      BY <2>3, <2>6, <2>7 DEF Sound, Grows
    <2>9. Same(b, c, {"queue", "ok", "sequence", "active", "nextSector", "samplesInBlock"})
          /\ Same(b, f, {"queue", "ok", "sequence", "active", "nextSector", "samplesInBlock"})
      BY <2>3, <2>5 DEF Same
    <2>10. OnItsPage(c) /\ OnItsPage(f)
      BY <2>9 DEF Same, Fields, OnItsPage
    <2>11. CASE f.ok
      BY <1>3, <2>1, <2>3, <2>5, <2>7, <2>8, <2>9, <2>10, <2>11
    <2>12. CASE ~f.ok
      BY <1>3, <2>1, <2>3, <2>9, <2>10, <2>12
    <2> QED BY <2>11, <2>12
  <1> QED BY <1>2, <1>3

LEMMA StatusSet ==
  ASSUME NEW b, Sound(b), NEW status \in Statuses
  PROVE  LET c == [b EXCEPT !.status = status]
         IN Sound(c) /\ c.status = status /\ Same(b, c, {"status"})
  <1> DEFINE c == [b EXCEPT !.status = status]
  <1>1. IsBox(b) /\ DOMAIN b = Fields
    BY DEF Sound, IsBox
  <1>2. DOMAIN c = Fields /\ c.status = status /\ Same(b, c, {"status"})
    BY <1>1 DEF Fields, Same
  <1>3. IsBox(c)
    BY <1>1, <1>2 DEF IsBox, Same, Fields
  <1> QED BY <1>2, <1>3 DEF Sound, Same, Fields

LEMMA SettledBox ==
  ASSUME NEW b, Sound(b)
  PROVE  Sound(Settled(b)) /\ Settled(b).ok /\ Same(b, Settled(b), {"ok"})
  <1> DEFINE c == [b EXCEPT !.ok = TRUE]
  <1>1. IsBox(b) /\ DOMAIN b = Fields
    BY DEF Sound, IsBox
  <1>2. DOMAIN c = Fields /\ c.ok = TRUE /\ Same(b, c, {"ok"})
    BY <1>1 DEF Fields, Same
  <1>3. IsBox(c)
    BY <1>1, <1>2 DEF IsBox, Same, Fields
  <1> QED BY <1>2, <1>3 DEF Sound, Same, Fields, Settled

LEMMA RoomMeans ==
  ASSUME NEW b, IsBox(b)
  PROVE  RoomToClose(b) <=> /\ Len(b.queue) + 4 <= QueueCapacity
                            /\ b.samplesInBlock # 0 => Len(b.queue) + 5 <= QueueCapacity
  <1>1. Len(b.queue) \in Nat /\ b.samplesInBlock \in Nat /\ QueueCapacity \in Nat
    BY QueueTypes, Sizes DEF IsBox
  <1>2. CASE b.samplesInBlock = 0
    <2>1. RoomToClose(b) <=> Len(b.queue) + 4 <= QueueCapacity
      BY <1>2 DEF RoomToClose
    <2> QED BY <1>2, <2>1
  <1>3. CASE b.samplesInBlock # 0
    <2>1. RoomToClose(b) <=> Len(b.queue) + 5 <= QueueCapacity
      <3>1. b.samplesInBlock > 0
        BY <1>1, <1>3
      <3> QED BY <3>1 DEF RoomToClose
    <2>2. Len(b.queue) + 5 <= QueueCapacity => Len(b.queue) + 4 <= QueueCapacity
      BY <1>1
    <2> QED BY <1>3, <2>1, <2>2
  <1> QED BY <1>2, <1>3

\* What the end of a log changes.
Ended == {"status", "queue", "ok", "sequence", "active", "nextSector", "samplesInBlock", "page",
          "generation"}

\* A log is closed as far as the card and the queue have room for it.
LEMMA Finishing ==
  ASSUME NEW b, Sound(b), b.ok, OnItsPage(b)
  PROVE  LET c == FinishFlight(b)
         IN /\ Sound(c) /\ Grows(b, c) /\ Same(b, c, Ended)
            /\ \/ c.status = "FINISHING" /\ EndsWithSuperblocks(c) /\ c.samplesInBlock = 0
               \/ c.status = "ERROR" /\ (c.nextSector = SectorCount \/ ~RoomToClose(b))
  <1> DEFINE f == FlushSampleBlock(b)
  <1> DEFINE g == AllocateAndQueue(f, "footer", b.captured, b.dropped)
  <1> DEFINE log == [g.active EXCEPT !.samples = b.captured, !.dropped = b.dropped,
                                     !.complete = TRUE]
  <1> DEFINE d == [g EXCEPT !.active = log, !.generation = @ + 1]
  <1> DEFINE m == EnqueueMetadata(d)
  <1>1. /\ IsBox(b) /\ Len(b.queue) \in Nat /\ b.samplesInBlock \in Nat /\ b.captured \in Nat
        /\ b.dropped \in 0 .. DroppedLimit /\ QueueCapacity \in Nat /\ Len(b.queue) <= QueueCapacity
    BY QueueTypes, Sizes DEF Sound, IsBox
  <1>2. /\ Sound(f) /\ Grows(b, f) /\ OnItsPage(f)
        /\ Same(b, f, {"queue", "ok", "sequence", "active", "nextSector", "samplesInBlock"})
        /\ f.ok => f.samplesInBlock = 0
        /\ b.samplesInBlock = 0 => f = b
        /\ Len(f.queue) <= Len(b.queue) + 1
        /\ ~f.ok => f.nextSector = SectorCount \/ Len(b.queue) = QueueCapacity
    BY Flushing
  <1> HIDE DEF f
  <1>3. "footer" \in BlockTypes
    BY DEF BlockTypes
  <1>4. /\ Sound(g) /\ Grows(f, g)
        /\ Same(f, g, {"queue", "ok", "sequence", "active", "nextSector"})
        /\ g.ok => f.ok /\ Len(g.queue) = Len(f.queue) + 1
        /\ Len(g.queue) <= Len(f.queue) + 1
        /\ f.ok /\ ~g.ok => g.nextSector = SectorCount \/ Len(f.queue) = QueueCapacity
    BY <1>1, <1>2, <1>3, Allocating
  <1> HIDE DEF g
  <1>5. /\ IsBox(f) /\ IsBox(g) /\ DOMAIN g = Fields /\ g.active \in Logs
        /\ Len(f.queue) \in Nat /\ Len(g.queue) \in Nat
    BY <1>2, <1>4, QueueTypes DEF Sound, IsBox
  <1>6. g.samplesInBlock = f.samplesInBlock /\ OnItsPage(g)
    BY <1>2, <1>4 DEF Same, Fields, OnItsPage
  <1>7. log \in Logs
    BY <1>1, <1>5 DEF Logs
  <1>8. d = [g EXCEPT !.active.samples = b.captured, !.active.dropped = b.dropped,
                      !.active.complete = TRUE, !.generation = @ + 1]
    BY <1>5 DEF Fields
  <1>9. Sound(d) /\ Same(g, d, {"active", "generation"})
    BY <1>4, <1>7, CountedLog
  <1> HIDE DEF d
  <1>10. /\ d.queue = g.queue /\ d.ok = g.ok /\ OnItsPage(d) /\ d.writing = g.writing
         /\ d.samplesInBlock = g.samplesInBlock
    BY <1>6, <1>9 DEF Same, Fields, OnItsPage
  <1>11. /\ Sound(m) /\ Grows(d, m) /\ Same(d, m, {"queue", "ok", "page"})
         /\ m.ok => EndsWithSuperblocks(m)
         /\ d.ok /\ Len(d.queue) + 3 <= QueueCapacity => m.ok
    BY <1>9, <1>10, Metadata
  <1> HIDE DEF m
  <1>12. m.samplesInBlock = d.samplesInBlock
    BY <1>11 DEF Same, Fields
  <1>13. "ERROR" \in Statuses /\ "FINISHING" \in Statuses
    BY DEF Statuses
  <1>14. Grows(b, g) /\ Grows(b, m)
    <2>1. Grows(b, g)
      BY <1>1, <1>2, <1>4, <1>5, GrowsOn
    <2>2. Grows(g, m) /\ IsBox(m)
      BY <1>10, <1>11 DEF Grows, Sound
    <2> QED BY <1>1, <1>5, <2>1, <2>2, GrowsOn
  <1>15. Same(b, f, Ended) /\ Same(b, g, Ended) /\ Same(b, m, Ended)
    BY <1>2, <1>4, <1>9, <1>11 DEF Same, Ended
  \* How it can fail.
  <1>16. f.queue = b.queue \/ b.samplesInBlock # 0
    BY <1>2
  <1>17. ASSUME ~f.ok PROVE f.nextSector = SectorCount \/ ~RoomToClose(b)
    <2>1. Len(b.queue) = QueueCapacity => ~RoomToClose(b)
      BY <1>1, RoomMeans
    <2> QED BY <1>2, <1>17, <2>1
  <1>18. ASSUME f.ok, ~g.ok PROVE g.nextSector = SectorCount \/ ~RoomToClose(b)
    <2>1. Len(f.queue) = QueueCapacity => ~RoomToClose(b)
      BY <1>1, <1>2, <1>5, RoomMeans
    <2> QED BY <1>4, <1>18, <2>1
  <1>19. ASSUME g.ok, ~m.ok PROVE ~RoomToClose(b)
    <2>1. ~(Len(d.queue) + 3 <= QueueCapacity)
      BY <1>10, <1>11, <1>19
    <2>2. Len(d.queue) <= Len(f.queue) + 1
      BY <1>4, <1>10
    <2> QED BY <1>1, <1>2, <1>5, <1>10, <1>16, <2>1, <2>2, RoomMeans
  \* The result is one of these, with its status.
  <1> DEFINE With(e, status) == [e EXCEPT !.status = status]
  <1>20. ASSUME NEW e \in {f, g, m}, NEW status \in {"ERROR", "FINISHING"}
         PROVE  LET c == With(e, status)
                IN /\ Sound(c) /\ Grows(b, c) /\ Same(b, c, Ended) /\ c.status = status
                   /\ c.nextSector = e.nextSector /\ c.samplesInBlock = e.samplesInBlock
                   /\ EndsWithSuperblocks(e) => EndsWithSuperblocks(c)
    <2>1. Sound(e) /\ Grows(b, e) /\ Same(b, e, Ended)
      BY <1>2, <1>4, <1>11, <1>14, <1>15
    <2> DEFINE c == With(e, status)
    <2>2. Sound(c) /\ c.status = status /\ Same(e, c, {"status"})
      BY <1>13, <2>1, StatusSet
    <2> HIDE DEF With, c
    <2>3. c.queue = e.queue /\ c.writing = e.writing /\ c.nextSector = e.nextSector
          /\ c.samplesInBlock = e.samplesInBlock /\ Superblock(c) = Superblock(e)
      BY <2>2 DEF Same, Fields, Superblock
    <2>4. Same(b, c, Ended)
      BY <2>1, <2>2 DEF Same, Ended
    <2> QED BY <2>1, <2>2, <2>3, <2>4 DEF Grows, EndsWithSuperblocks, c
  <1>21. FinishFlight(b) = IF ~f.ok THEN With(f, "ERROR") ELSE IF ~g.ok THEN With(g, "ERROR")
                           ELSE With(m, IF m.ok THEN "FINISHING" ELSE "ERROR")
    BY <1>8 DEF FinishFlight, f, g, m
  <1> HIDE DEF With
  <1>22. CASE ~f.ok
    BY <1>17, <1>20, <1>21, <1>22
  <1>23. CASE f.ok /\ ~g.ok
    BY <1>18, <1>20, <1>21, <1>23
  <1>24. CASE f.ok /\ g.ok /\ ~m.ok
    BY <1>19, <1>20, <1>21, <1>24
  <1>25. CASE f.ok /\ g.ok /\ m.ok
    <2>1. FinishFlight(b) = With(m, "FINISHING") /\ m.samplesInBlock = 0
      BY <1>2, <1>6, <1>10, <1>12, <1>21, <1>25
    <2> QED BY <1>11, <1>20, <1>25, <2>1
  <1> QED BY <1>22, <1>23, <1>24, <1>25

LEMMA Dropping ==
  ASSUME NEW b, Open(b), NEW count \in Nat
  PROVE  Open(AddDropped(b, count)) /\ Same(b, AddDropped(b, count), {"dropped"})
  <1> DEFINE total == IF b.dropped + count > DroppedLimit THEN DroppedLimit ELSE b.dropped + count
  <1> DEFINE c == [b EXCEPT !.dropped = total]
  <1>1. IsBox(b) /\ DOMAIN b = Fields /\ b.dropped \in 0 .. DroppedLimit
    BY DEF Open, Sound, IsBox
  <1>2. total \in 0 .. DroppedLimit
    BY <1>1, Sizes
  <1>3. AddDropped(b, count) = c
    BY <1>1 DEF AddDropped
  <1> HIDE DEF total
  <1>4. DOMAIN c = Fields /\ c.dropped = total /\ Same(b, c, {"dropped"})
    BY <1>1 DEF Fields, Same
  <1>5. IsBox(c)
    BY <1>1, <1>2, <1>4 DEF IsBox, Same, Fields
  <1>6. Open(c)
    BY <1>4, <1>5 DEF Open, Sound, OnItsPage, RoomToClose, Same, Fields
  <1> QED BY <1>3, <1>4, <1>6

\* A box that the recorder has given up, and why.
GivenUp(b, c) ==
  /\ Sound(c) /\ Grows(b, c) /\ c.status = "ERROR" /\ c.nextSector = SectorCount

\* A sample: dropped, or taken, with the block written when it is full.
LEMMA Sampling ==
  ASSUME NEW b, Open(b), b.status = "RECORDING"
  PROVE  LET c == TakeSample(b)
         IN \/ /\ Open(c) /\ Grows(b, c) /\ c.status = "RECORDING"
               /\ c.checkpointAt = b.checkpointAt \/ c.checkpointAt > CheckpointInterval
            \/ GivenUp(b, c)
  <1> DEFINE t == EncodeSample(b)
  <1> DEFINE f == IF t.samplesInBlock >= SamplesPerBlock THEN FlushSampleBlock(t) ELSE t
  <1> DEFINE c == TakeSample(b)
  <1>1. /\ IsBox(b) /\ DOMAIN b = Fields /\ Len(b.queue) \in Nat /\ b.samplesInBlock \in Nat
        /\ b.captured \in Nat /\ Sound(b) /\ b.ok
    BY QueueTypes DEF Open, Sound, IsBox
  <1>2. CASE Len(b.queue) >= QueueCapacity - 4
    <2>1. c = AddDropped(b, 1)
      BY <1>2 DEF TakeSample
    <2>2. Open(c) /\ Same(b, c, {"dropped"})
      BY <2>1, Dropping
    <2>3. c.queue = b.queue /\ c.writing = b.writing /\ c.status = "RECORDING"
          /\ c.checkpointAt = b.checkpointAt
      BY <2>2 DEF Same, Fields
    <2> QED BY <1>1, <2>2, <2>3 DEF Grows
  <1>3. CASE Len(b.queue) < QueueCapacity - 4
    <2>1. Len(b.queue) + 5 <= QueueCapacity
      BY <1>1, <1>3, Sizes
    <2> DEFINE filled == b.samplesInBlock + 1
    <2> DEFINE captured == b.captured + 1
    <2>2. filled \in Nat /\ captured \in Nat /\ filled > 0
      BY <1>1
    <2>3. t = [b EXCEPT !.samplesInBlock = filled, !.captured = captured]
      BY <1>1 DEF EncodeSample
    <2> HIDE DEF filled, captured, t
    <2>4. /\ DOMAIN t = Fields /\ t.samplesInBlock = filled /\ t.captured = captured
          /\ Same(b, t, {"samplesInBlock", "captured"})
      BY <1>1, <2>3 DEF Fields, Same
    <2>5. IsBox(t)
      BY <1>1, <2>2, <2>4 DEF IsBox, Same, Fields
    <2>6. /\ t.queue = b.queue /\ t.writing = b.writing /\ t.ok = b.ok /\ t.status = "RECORDING"
          /\ t.checkpointAt = b.checkpointAt /\ t.logCount = b.logCount /\ t.page = b.page
      BY <2>4 DEF Same, Fields
    <2>7. Sound(t) /\ OnItsPage(t) /\ t.ok
      BY <1>1, <2>5, <2>6 DEF Sound, OnItsPage, Open
    \* What the sample, or its block, leaves.
    <2>8. /\ Sound(f) /\ Grows(b, f) /\ OnItsPage(f) /\ f.status = "RECORDING"
          /\ f.checkpointAt = b.checkpointAt
          /\ ~f.ok => f.nextSector = SectorCount
          /\ f.ok => f.samplesInBlock < SamplesPerBlock /\ RoomToClose(f)
      <3>1. CASE t.samplesInBlock >= SamplesPerBlock
        <4> DEFINE w == FlushSampleBlock(t)
        <4>1. /\ Sound(w) /\ Grows(t, w) /\ OnItsPage(w)
              /\ Same(t, w, {"queue", "ok", "sequence", "active", "nextSector", "samplesInBlock"})
              /\ w.ok => w.samplesInBlock = 0
              /\ Len(w.queue) <= Len(t.queue) + 1
              /\ ~w.ok => w.nextSector = SectorCount \/ Len(t.queue) = QueueCapacity
          BY <2>7, Flushing
        <4> HIDE DEF w
        <4>2. w.status = "RECORDING" /\ w.checkpointAt = b.checkpointAt /\ Grows(b, w)
          BY <2>6, <4>1 DEF Same, Fields, Grows
        <4>3. Len(t.queue) # QueueCapacity
          BY <1>1, <2>1, <2>6, Sizes
        <4>4. ASSUME w.ok PROVE w.samplesInBlock < SamplesPerBlock /\ RoomToClose(w)
          <5>1. IsBox(w) /\ Len(w.queue) \in Nat /\ w.samplesInBlock = 0
            BY <4>1, <4>4, QueueTypes DEF Sound
          <5>2. Len(w.queue) + 4 <= QueueCapacity
            BY <1>1, <2>1, <2>6, <4>1, <5>1, Sizes
          <5> QED BY <5>1, <5>2, RoomMeans, Sizes
        <4>5. f = w
          BY <3>1 DEF w
        <4> QED BY <4>1, <4>2, <4>3, <4>4, <4>5
      <3>2. CASE ~(t.samplesInBlock >= SamplesPerBlock)
        <4>1. f = t
          BY <3>2
        <4>2. t.samplesInBlock < SamplesPerBlock
          BY <2>2, <2>4, <3>2, Sizes
        <4>3. RoomToClose(t)
          <5>1. Len(t.queue) + 5 <= QueueCapacity /\ Len(t.queue) + 4 <= QueueCapacity
            BY <1>1, <2>1, <2>6, Sizes
          <5> QED BY <2>5, <5>1, RoomMeans
        <4>4. Grows(b, t)
          BY <1>1, <2>6 DEF Grows
        <4> QED BY <2>6, <2>7, <4>1, <4>2, <4>3, <4>4
      <3> QED BY <3>1, <3>2
    <2>9. c = IF ~f.ok THEN [f EXCEPT !.status = "ERROR"] ELSE Checkpoint(f)
      <3>1. ~(Len(b.queue) >= QueueCapacity - 4)
        BY <1>1, <1>3, Sizes
      <3> QED BY <3>1 DEF TakeSample, t
    <2> HIDE DEF f, c
    <2>10. CASE ~f.ok
      <3>1. Sound(c) /\ c.status = "ERROR" /\ Same(f, c, {"status"})
        <4>1. c = [f EXCEPT !.status = "ERROR"] /\ "ERROR" \in Statuses
          BY <2>9, <2>10 DEF Statuses
        <4> QED BY <2>8, <4>1, StatusSet
      <3>2. c.queue = f.queue /\ c.writing = f.writing /\ c.nextSector = f.nextSector
        BY <3>1 DEF Same, Fields
      <3> QED BY <2>8, <2>10, <3>1, <3>2 DEF Grows, GivenUp, c
    <2>11. CASE f.ok
      <3>1. c = Checkpoint(f) /\ f.checkpointAt >= CheckpointInterval
        BY <2>8, <2>9, <2>11 DEF Open
      <3>2. /\ Sound(c) /\ c.ok /\ OnItsPage(c) /\ Grows(f, c)
            /\ Same(f, c, {"queue", "ok", "page", "active", "generation", "checkpointAt"})
            /\ c = f \/ c.checkpointAt > CheckpointInterval
        BY <2>8, <2>11, <3>1, Checkpointing
      <3>3. c.status = "RECORDING" /\ c.samplesInBlock = f.samplesInBlock
        BY <2>8, <3>2 DEF Same, Fields
      <3>4. Grows(b, c)
        BY <1>1, <2>8, <3>2, GrowsOn DEF Sound
      <3>5. c.checkpointAt \in Nat /\ CheckpointInterval \in Nat
        BY <3>2, Sizes DEF Sound, IsBox
      <3>6. CASE c = f
        BY <2>8, <2>11, <3>1, <3>2, <3>3, <3>4, <3>6 DEF Open, c
      <3>7. CASE c.checkpointAt > CheckpointInterval
        <4>1. c.checkpointAt >= CheckpointInterval /\ c.checkpointAt # CheckpointInterval
          BY <3>5, <3>7
        <4> QED BY <2>8, <2>11, <3>2, <3>3, <3>4, <3>7, <4>1 DEF Open, c
      <3> QED BY <3>2, <3>6, <3>7
    <2> QED BY <2>10, <2>11
  <1> QED BY <1>1, <1>2, <1>3, Sizes

\* What one call of the recorder leaves of an open log.
RecordedAs(b, c, stop) ==
  /\ Sound(c) /\ Grows(b, c)
  /\ \/ c.status = "RECORDING" /\ Open(c)
     \/ c.status = "FINISHING" /\ EndsWithSuperblocks(c) /\ c.samplesInBlock = 0
     \/ /\ c.status = "ERROR"
        /\ c.nextSector = SectorCount \/ (stop /\ c.checkpointAt > CheckpointInterval)

LEMMA PreviousSet ==
  ASSUME NEW b, Sound(b), state \in Lifecycle!States
  PROVE  LET c == [b EXCEPT !.previous = state]
         IN Sound(c) /\ Same(b, c, {"previous"})
  <1> DEFINE c == [b EXCEPT !.previous = state]
  <1>1. IsBox(b) /\ DOMAIN b = Fields
    BY DEF Sound, IsBox
  <1>2. DOMAIN c = Fields /\ c.previous = state /\ Same(b, c, {"previous"})
    BY <1>1 DEF Fields, Same
  <1>3. IsBox(c)
    BY <1>1, <1>2 DEF IsBox, Same, Fields
  <1> QED BY <1>2, <1>3 DEF Sound, Same, Fields

\* Fields that do not matter to the log.
LEMMA StaysOpen ==
  ASSUME NEW b, NEW c, Open(b), Sound(c), Same(b, c, {"previous", "tail", "armedSeen"})
  PROVE  Open(c)
  BY DEF Open, OnItsPage, RoomToClose, Same, Fields

LEMMA SeenBox ==
  ASSUME NEW b, Open(b)
  PROVE  LET c == [b EXCEPT !.armedSeen = @ \/ state = "ARMED", !.tail = TailAfter(b)]
         IN Open(c) /\ Same(b, c, {"tail", "armedSeen"})
  <1> DEFINE seen == b.armedSeen \/ state = "ARMED"
  <1> DEFINE tail == TailAfter(b)
  <1> DEFINE c == [b EXCEPT !.armedSeen = seen, !.tail = tail]
  <1>1. IsBox(b) /\ DOMAIN b = Fields /\ b.armedSeen \in BOOLEAN /\ b.tail \in BOOLEAN /\ Sound(b)
    BY DEF Open, Sound, IsBox
  <1>2. seen \in BOOLEAN
    OBVIOUS
  <1>3. tail \in BOOLEAN
    BY <1>1 DEF TailAfter
  <1>4. [b EXCEPT !.armedSeen = @ \/ state = "ARMED", !.tail = TailAfter(b)] = c
    BY <1>1 DEF Fields
  <1> HIDE DEF seen, tail
  <1>5. /\ DOMAIN c = Fields /\ c.armedSeen = seen /\ c.tail = tail
        /\ Same(b, c, {"tail", "armedSeen"})
    BY <1>1 DEF Fields, Same
  <1>6. IsBox(c)
    BY <1>1, <1>2, <1>3, <1>5 DEF IsBox, Same, Fields
  <1>7. Sound(c) /\ Same(b, c, {"previous", "tail", "armedSeen"})
    BY <1>1, <1>5, <1>6 DEF Sound, Same, Fields
  <1>8. Open(c)
    BY <1>7, StaysOpen
  <1> HIDE DEF c
  <1> QED BY <1>4, <1>5, <1>8

LEMMA Recording ==
  ASSUME NEW b, Open(b), b.status = "RECORDING", state \in Lifecycle!States,
         NEW periods \in Nat, NEW over \in BOOLEAN
  PROVE  RecordedAs(b, Record(b, periods, over), state = "FAULT" \/ over)
  <1> DEFINE seen == [b EXCEPT !.armedSeen = @ \/ state = "ARMED", !.tail = TailAfter(b)]
  <1> DEFINE stop == state = "FAULT" \/ (seen.tail /\ over)
  <1> DEFINE due == PeriodsDue(b, periods)
  <1> DEFINE counted == IF due > 1 THEN AddDropped(seen, due - 1) ELSE seen
  <1> DEFINE sampled == IF due > 0 \/ stop THEN TakeSample(counted) ELSE counted
  <1> DEFINE ended == IF stop THEN FinishFlight(sampled) ELSE sampled
  <1> DEFINE c == [ended EXCEPT !.previous = state]
  <1>1. Record(b, periods, over) = IF sampled.status = "ERROR" THEN sampled ELSE c
    BY DEF Record
  <1>2. Open(seen) /\ Same(b, seen, {"tail", "armedSeen"})
    BY SeenBox
  <1>3. stop => state = "FAULT" \/ over
    OBVIOUS
  <1> HIDE DEF seen, stop
  <1>4. due \in Nat
    BY DEF PeriodsDue
  <1> HIDE DEF due
  <1>5. IsBox(b) /\ Len(b.queue) \in Nat /\ Sound(b)
    BY QueueTypes DEF Open, Sound
  <1>6. Open(counted) /\ Same(b, counted, {"tail", "armedSeen", "dropped"})
    <2>1. CASE due > 1
      <3> DEFINE more == due - 1
      <3>1. more \in Nat
        BY <1>4, <2>1
      <3> HIDE DEF more
      <3>2. /\ Open(AddDropped(seen, more))
            /\ Same(seen, AddDropped(seen, more), {"dropped"})
        BY <1>2, <3>1, Dropping
      <3>3. counted = AddDropped(seen, more)
        BY <2>1 DEF more
      <3> QED BY <1>2, <3>2, <3>3 DEF Same
    <2>2. CASE ~(due > 1)
      BY <1>2, <2>2 DEF Same
    <2> QED BY <2>1, <2>2
  <1> HIDE DEF counted
  <1>7. /\ counted.queue = b.queue /\ counted.writing = b.writing /\ counted.status = "RECORDING"
        /\ Grows(b, counted)
    BY <1>5, <1>6 DEF Same, Fields, Grows
  <1>8. \/ Open(sampled) /\ Grows(b, sampled) /\ sampled.status = "RECORDING"
        \/ GivenUp(b, sampled)
    <2>1. CASE due > 0 \/ stop
      <3>1. sampled = TakeSample(counted)
        BY <2>1
      <3> HIDE DEF sampled
      <3>2. \/ Open(sampled) /\ Grows(counted, sampled) /\ sampled.status = "RECORDING"
            \/ GivenUp(counted, sampled)
        BY <1>6, <1>7, <3>1, Sampling
      <3> QED BY <1>7, <3>2 DEF Grows, GivenUp
    <2>2. CASE ~(due > 0 \/ stop)
      BY <1>6, <1>7, <2>2
    <2> QED BY <2>1, <2>2
  <1> HIDE DEF sampled
  <1>9. CASE GivenUp(b, sampled)
    BY <1>1, <1>9 DEF GivenUp, RecordedAs
  <1>10. CASE Open(sampled) /\ Grows(b, sampled) /\ sampled.status = "RECORDING"
    <2>1. Record(b, periods, over) = c
      BY <1>1, <1>10
    <2>2. Sound(sampled) /\ sampled.ok /\ OnItsPage(sampled) /\ IsBox(sampled)
      BY <1>10 DEF Open, Sound
    <2>3. CASE ~stop
      <3>1. ended = sampled
        BY <2>3
      <3>2. Sound(c) /\ Same(sampled, c, {"previous"})
        BY <2>2, <3>1, PreviousSet
      <3> HIDE DEF c, ended
      <3>3. Open(c)
        <4>1. Same(sampled, c, {"previous", "tail", "armedSeen"})
          BY <3>2 DEF Same
        <4> QED BY <1>10, <3>2, <4>1, StaysOpen
      <3>4. c.status = "RECORDING" /\ c.queue = sampled.queue /\ c.writing = sampled.writing
        BY <1>10, <3>2 DEF Same, Fields
      <3> QED BY <1>10, <2>1, <3>2, <3>3, <3>4 DEF RecordedAs, Grows
    <2>4. CASE stop
      <3>1. ended = FinishFlight(sampled)
        BY <2>4
      <3> HIDE DEF ended
      <3>2. /\ Sound(ended) /\ Grows(sampled, ended) /\ Same(sampled, ended, Ended)
            /\ \/ /\ ended.status = "FINISHING" /\ EndsWithSuperblocks(ended)
                  /\ ended.samplesInBlock = 0
               \/ /\ ended.status = "ERROR"
                  /\ ended.nextSector = SectorCount \/ ~RoomToClose(sampled)
        BY <2>2, <3>1, Finishing
      <3>3. Sound(c) /\ Same(ended, c, {"previous"})
        BY <3>2, PreviousSet
      <3> HIDE DEF c
      <3>4. /\ c.status = ended.status /\ c.queue = ended.queue /\ c.writing = ended.writing
            /\ c.nextSector = ended.nextSector /\ c.checkpointAt = ended.checkpointAt
            /\ c.samplesInBlock = ended.samplesInBlock /\ Superblock(c) = Superblock(ended)
        BY <3>3 DEF Same, Fields, Superblock
      <3>5. Grows(b, c)
        <4>1. Grows(b, ended)
          BY <1>5, <1>10, <2>2, <3>2, GrowsOn DEF Sound
        <4> QED BY <3>4, <4>1 DEF Grows
      <3>6. EndsWithSuperblocks(ended) => EndsWithSuperblocks(c)
        BY <3>4 DEF EndsWithSuperblocks
      <3>7. ended.checkpointAt = sampled.checkpointAt
        BY <3>2 DEF Same, Fields, Ended
      <3>8. ASSUME ~RoomToClose(sampled) PROVE sampled.checkpointAt > CheckpointInterval
        <4>1. sampled.checkpointAt >= CheckpointInterval /\ sampled.checkpointAt # CheckpointInterval
          BY <1>10, <3>8 DEF Open
        <4>2. sampled.checkpointAt \in Nat /\ CheckpointInterval \in Nat
          BY <2>2, Sizes DEF IsBox
        <4> QED BY <4>1, <4>2
      <3>9. CASE ended.status = "FINISHING"
        BY <2>1, <3>2, <3>3, <3>4, <3>5, <3>6, <3>9 DEF RecordedAs
      <3>10. CASE ended.status = "ERROR"
        <4>1. c.nextSector = SectorCount \/ c.checkpointAt > CheckpointInterval
          BY <3>2, <3>4, <3>7, <3>8, <3>10
        <4> QED BY <1>3, <2>1, <2>4, <3>3, <3>4, <3>5, <3>10, <4>1 DEF RecordedAs
      <3> QED BY <3>2, <3>9, <3>10
    <2> QED BY <2>3, <2>4
  <1> QED BY <1>8, <1>9, <1>10

-----------------------------------------------------------------------------
(* The pages of the catalogue, and the start of a log.                      *)

\* A page goes to its sector: what is not the page there is blank or torn.
LEMMA PageOnCard ==
  ASSUME CardSide, NEW index \in 0 .. CatalogPages - 1
  PROVE  LET content == disk[FirstCatalogSector + index]
         IN content \in {Blank, Torn} \/ (content \in Pages /\ IsPage(content, index))
  <1> DEFINE s == FirstCatalogSector + index
  <1>1. s \in Sectors /\ s \notin {0, 1} /\ s \notin FirstDataSector .. SectorCount - 1
        /\ s - FirstCatalogSector = index
    BY Sizes DEF Sectors
  <1>2. disk[s] \in {Blank, Torn} \/ Belongs(s, disk[s])
    BY <1>1 DEF CardSide, GoodDisk, GoodDisk, GoodDisk
  <1> QED BY <1>1, <1>2 DEF Belongs, Pages, IsPage

LEMMA BlankPages == ASSUME NEW index \in 0 .. CatalogPages - 1
                    PROVE  BlankPage(index) \in Pages /\ BlankPage(index).index = index
  <1>1. NoLog \in Logs
    BY Sizes DEF NoLog, Logs
  <1> QED BY <1>1 DEF BlankPage, Pages

\* What a load can change.
Loaded == {"page", "pageValid", "ok"}

LEMMA LoadedBox ==
  ASSUME NEW b, Sound(b), NEW c, DOMAIN c = Fields, Same(b, c, Loaded),
         c.page \in Pages, c.pageValid \in BOOLEAN, c.ok \in BOOLEAN
  PROVE  Sound(c)
  <1>1. IsBox(b)
    BY DEF Sound
  <1>2. IsBox(c)
    BY <1>1 DEF IsBox, Same, Fields, Loaded
  <1> QED BY <1>2 DEF Sound, Same, Fields, Loaded

LEMMA Loading ==
  ASSUME NEW b, Sound(b), CardSide, NEW index \in 0 .. CatalogPages - 1, NEW result
  PROVE  LET c == LoadCatalogPage(b, index, result)
         IN /\ Sound(c) /\ Same(b, c, Loaded)
            /\ c.ok => c.page.index = index
            /\ ~c.ok => result # "OK" \/ disk[FirstCatalogSector + index] \in {Blank, Torn}
  <1> DEFINE content == disk[FirstCatalogSector + index]
  <1> DEFINE c == LoadCatalogPage(b, index, result)
  <1>1. DOMAIN b = Fields
    BY DEF Sound, IsBox
  <1>2. CASE b.pageValid /\ b.page.index = index
    <2>1. c = Settled(b)
      BY <1>2 DEF LoadCatalogPage, Settled
    <2>2. Sound(c) /\ c.ok /\ Same(b, c, {"ok"})
      BY <2>1, SettledBox
    <2> HIDE DEF c
    <2>3. Same(b, c, Loaded) /\ c.page = b.page
      BY <2>2 DEF Same, Fields, Loaded
    <2> QED BY <1>2, <2>2, <2>3 DEF c
  <1>3. CASE ~(b.pageValid /\ b.page.index = index) /\ result = "OK" /\ IsPage(content, index)
    <2>1. c = [b EXCEPT !.page = content, !.pageValid = TRUE, !.ok = TRUE]
      BY <1>3 DEF LoadCatalogPage
    <2>2. content \in Pages /\ content.index = index
      BY <1>3, PageOnCard DEF IsPage, Blank, Torn
    <2> HIDE DEF content, c
    <2>3. /\ DOMAIN c = Fields /\ Same(b, c, Loaded) /\ c.page = content
          /\ c.pageValid = TRUE /\ c.ok = TRUE
      BY <1>1, <2>1 DEF Fields, Same, Loaded
    <2>4. Sound(c)
      BY <2>2, <2>3, LoadedBox
    <2> QED BY <2>2, <2>3, <2>4 DEF c
  <1>4. CASE ~(b.pageValid /\ b.page.index = index) /\ ~(result = "OK" /\ IsPage(content, index))
    <2>1. c = [b EXCEPT !.page = BlankPage(0), !.pageValid = FALSE, !.ok = FALSE]
      BY <1>4 DEF LoadCatalogPage
    <2>2. BlankPage(0) \in Pages
      BY BlankPages, Sizes
    <2> HIDE DEF c
    <2>3. /\ DOMAIN c = Fields /\ Same(b, c, Loaded) /\ c.page = BlankPage(0)
          /\ c.pageValid = FALSE /\ c.ok = FALSE
      BY <1>1, <2>1 DEF Fields, Same, Loaded
    <2>4. Sound(c)
      BY <2>2, <2>3, LoadedBox
    <2>5. result # "OK" \/ content \in {Blank, Torn}
      BY <1>4, PageOnCard
    <2> QED BY <2>3, <2>4, <2>5 DEF c
  <1> QED BY <1>2, <1>3, <1>4

\* Why the page of the next log is not there.
NoPageFor(count, result) ==
  /\ count < LogCapacity /\ count % EntriesPerPage # 0
  /\ result # "OK" \/ disk[FirstCatalogSector + PageOf(count)] \in {Blank, Torn}

NoSpace(b) == b.logCount >= LogCapacity \/ b.nextSector >= SectorCount

LEMMA StartingPage ==
  ASSUME NEW b, Sound(b), b.ok, CardSide, b.queue = <<>>, NEW result
  PROVE  LET c == StartPage(b, result)
         IN /\ Sound(c) /\ Same(b, c, Loaded)
            /\ c.ok => ~NoSpace(b) /\ c.page.index = PageOf(b.logCount)
            /\ ~c.ok => NoSpace(b) \/ NoPageFor(b.logCount, result)
  <1> DEFINE c == StartPage(b, result)
  <1>1. IsBox(b) /\ DOMAIN b = Fields /\ b.logCount \in Nat
    BY Sizes DEF Sound, IsBox
  <1>2. CASE NoSpace(b)
    <2>1. c = [b EXCEPT !.ok = FALSE]
      BY <1>2 DEF StartPage, NoSpace
    <2>2. DOMAIN c = Fields /\ c.ok = FALSE /\ Same(b, c, {"ok"})
      BY <1>1, <2>1 DEF Fields, Same
    <2>3. IsBox(c)
      BY <1>1, <2>2 DEF IsBox, Same, Fields
    <2>4. Sound(c) /\ Same(b, c, Loaded)
      BY <2>2, <2>3 DEF Sound, Same, Fields, Loaded
    <2> QED BY <1>2, <2>2, <2>4
  <1>3. CASE ~NoSpace(b)
    <2> DEFINE index == PageOf(b.logCount)
    <2>1. b.logCount < LogCapacity
      BY <1>1, <1>3, Sizes DEF NoSpace
    <2>2. index \in 0 .. CatalogPages - 1
      BY <1>1, <2>1, PageInRange
    <2>3. CASE b.logCount % EntriesPerPage = 0
      <3>1. c = [b EXCEPT !.page = BlankPage(index), !.pageValid = TRUE]
        BY <1>3, <2>3 DEF StartPage, NoSpace
      <3> HIDE DEF index, c
      <3>2. BlankPage(index) \in Pages /\ BlankPage(index).index = index
        BY <2>2, BlankPages
      <3>3. /\ DOMAIN c = Fields /\ Same(b, c, Loaded) /\ c.page = BlankPage(index)
            /\ c.pageValid = TRUE /\ c.ok = b.ok
        BY <1>1, <3>1 DEF Fields, Same, Loaded
      <3>4. b.ok \in BOOLEAN
        BY <1>1 DEF IsBox
      <3>5. Sound(c)
        BY <3>2, <3>3, <3>4, LoadedBox
      <3> QED BY <1>3, <3>2, <3>3, <3>5 DEF c, index
    <2>4. CASE b.logCount % EntriesPerPage # 0
      <3>1. c = LoadCatalogPage(b, index, result)
        BY <1>3, <2>4 DEF StartPage, NoSpace
      <3> QED BY <1>3, <2>1, <2>2, <2>4, <3>1, Loading DEF NoPageFor
    <2> QED BY <2>3, <2>4
  <1> QED BY <1>2, <1>3

\* What the blocks of a log change.
OfBlocks == {"queue", "ok", "sequence", "active", "nextSector"}

LEMMA ConfigurationBlocks ==
  ASSUME NEW b, Sound(b), NEW chunk \in Nat
  PROVE  LET c == ConfigurationBlock(b, chunk)
         IN /\ Sound(c) /\ Grows(b, c) /\ Same(b, c, OfBlocks)
            /\ ~b.ok \/ chunk > ConfigurationChunks => c = b
            /\ Len(c.queue) <= Len(b.queue) + 1
            /\ b.ok /\ ~c.ok => c.nextSector = SectorCount \/ Len(b.queue) = QueueCapacity
  <1>1. IsBox(b) /\ Len(b.queue) \in Nat
    BY QueueTypes DEF Sound
  <1>2. CASE ~b.ok \/ chunk > ConfigurationChunks
    <2>1. ConfigurationBlock(b, chunk) = b
      BY <1>2 DEF ConfigurationBlock
    <2>2. Sound(b) /\ Grows(b, b) /\ Same(b, b, OfBlocks)
      BY <1>1 DEF Grows, Same
    <2>3. Len(b.queue) <= Len(b.queue) + 1
      BY <1>1
    <2> QED BY <1>2, <2>1, <2>2, <2>3
  <1>3. CASE b.ok /\ ~(chunk > ConfigurationChunks)
    <2> DEFINE c == AllocateAndQueue(b, "configuration", 1, 0)
    <2>1. ConfigurationBlock(b, chunk) = c
      BY <1>3 DEF ConfigurationBlock
    <2>2. "configuration" \in BlockTypes /\ 1 \in Nat /\ 0 \in 0 .. DroppedLimit
      BY Sizes DEF BlockTypes
    <2>3. /\ Sound(c) /\ Grows(b, c)
          /\ Same(b, c, {"queue", "ok", "sequence", "active", "nextSector"})
          /\ Len(c.queue) <= Len(b.queue) + 1
          /\ b.ok /\ ~c.ok => c.nextSector = SectorCount \/ Len(b.queue) = QueueCapacity
      BY <2>2, Allocating
    <2> HIDE DEF c
    <2> QED BY <1>3, <2>1, <2>3 DEF OfBlocks
  <1> QED BY <1>2, <1>3

\* The header and the configuration: only the card can be too small for them.
LEMMA StartingBlocks ==
  ASSUME NEW b, Sound(b), b.ok, Len(b.queue) = 0
  PROVE  LET c == StartBlocks(b)
         IN /\ Sound(c) /\ Grows(b, c) /\ Same(b, c, OfBlocks)
            /\ Len(c.queue) <= 1 + ConfigurationChunks
            /\ ~c.ok => c.nextSector = SectorCount
  <1> DEFINE h == AllocateAndQueue(b, "header", 1, 0)
  <1> DEFINE f == ConfigurationBlock(h, 1)
  <1> DEFINE c == ConfigurationBlock(f, 2)
  <1>1. StartBlocks(b) = c
    BY DEF StartBlocks
  <1>2. "header" \in BlockTypes /\ 1 \in Nat /\ 0 \in 0 .. DroppedLimit /\ 2 \in Nat
    BY Sizes DEF BlockTypes
  <1>3. /\ Sound(h) /\ Grows(b, h) /\ Same(b, h, OfBlocks)
        /\ Len(h.queue) <= Len(b.queue) + 1
        /\ b.ok /\ ~h.ok => h.nextSector = SectorCount \/ Len(b.queue) = QueueCapacity
    BY <1>2, Allocating DEF OfBlocks
  <1> HIDE DEF h
  <1>4. /\ Sound(f) /\ Grows(h, f) /\ Same(h, f, OfBlocks)
        /\ ~h.ok \/ 1 > ConfigurationChunks => f = h
        /\ Len(f.queue) <= Len(h.queue) + 1
        /\ h.ok /\ ~f.ok => f.nextSector = SectorCount \/ Len(h.queue) = QueueCapacity
    BY <1>2, <1>3, ConfigurationBlocks
  <1> HIDE DEF f
  <1>5. /\ Sound(c) /\ Grows(f, c) /\ Same(f, c, OfBlocks)
        /\ ~f.ok \/ 2 > ConfigurationChunks => c = f
        /\ Len(c.queue) <= Len(f.queue) + 1
        /\ f.ok /\ ~c.ok => c.nextSector = SectorCount \/ Len(f.queue) = QueueCapacity
    BY <1>2, <1>4, ConfigurationBlocks
  <1> HIDE DEF c
  <1>6. /\ IsBox(b) /\ IsBox(h) /\ IsBox(f) /\ IsBox(c)
        /\ Len(h.queue) \in Nat /\ Len(f.queue) \in Nat /\ Len(c.queue) \in Nat
    BY <1>3, <1>4, <1>5, QueueTypes DEF Sound
  <1>7. Len(h.queue) <= 1 /\ Len(f.queue) <= 2 /\ Len(c.queue) <= 1 + ConfigurationChunks
    <2>1. Len(h.queue) <= 1 /\ Len(f.queue) <= 2 /\ Len(c.queue) <= 3
      BY <1>3, <1>4, <1>5, <1>6
    <2>2. 1 > ConfigurationChunks => Len(c.queue) <= 1
      BY <1>4, <1>5, <2>1, Sizes
    <2>3. 2 > ConfigurationChunks => Len(c.queue) <= 2
      BY <1>5, <2>1
    <2> QED BY <1>6, <2>1, <2>2, <2>3, Sizes
  <1>8. /\ Len(b.queue) # QueueCapacity /\ Len(h.queue) # QueueCapacity
        /\ Len(f.queue) # QueueCapacity
    BY <1>6, <1>7, Sizes
  <1>9. ASSUME ~c.ok PROVE c.nextSector = SectorCount
    <2>1. CASE ~h.ok
      BY <1>3, <1>4, <1>5, <1>8, <2>1
    <2>2. CASE h.ok /\ ~f.ok
      BY <1>4, <1>5, <1>8, <2>2
    <2>3. CASE f.ok
      BY <1>5, <1>8, <1>9, <2>3
    <2> QED BY <2>1, <2>2, <2>3
  <1>10. Grows(b, c)
    <2>1. Grows(b, f)
      BY <1>3, <1>4, <1>6, GrowsOn
    <2> QED BY <1>5, <1>6, <2>1, GrowsOn
  <1>11. Same(b, c, OfBlocks)
    BY <1>3, <1>4, <1>5 DEF Same
  <1> QED BY <1>1, <1>5, <1>7, <1>9, <1>10, <1>11

LEMMA OpeningLog ==
  ASSUME NEW b, Sound(b), ~NoSpace(b), b.page.index = PageOf(b.logCount)
  PROVE  LET c == [b EXCEPT
                     !.captured = 0, !.dropped = 0, !.logCount = @ + 1, !.nextLogId = @ + 1,
                     !.active = [NoLog EXCEPT !.id = b.nextLogId, !.start = b.nextSector]]
         IN /\ Sound(c) /\ OnItsPage(c)
            /\ Same(b, c, {"captured", "dropped", "logCount", "nextLogId", "active"})
  <1> DEFINE count == b.logCount + 1
  <1> DEFINE id == b.nextLogId + 1
  <1> DEFINE log == [NoLog EXCEPT !.id = b.nextLogId, !.start = b.nextSector]
  <1> DEFINE c == [b EXCEPT !.captured = 0, !.dropped = 0, !.logCount = count, !.nextLogId = id,
                            !.active = log]
  <1>1. /\ IsBox(b) /\ DOMAIN b = Fields /\ b.logCount \in 0 .. LogCapacity /\ b.nextLogId \in Nat
        /\ b.nextSector \in FirstDataSector .. SectorCount
    BY DEF Sound, IsBox
  <1>2. count \in 0 .. LogCapacity /\ count > 0 /\ count - 1 = b.logCount /\ id \in Nat
    BY <1>1, Sizes DEF NoSpace
  <1>3. log \in Logs
    <2>1. NoLog \in Logs /\ b.nextLogId \in Nat /\ b.nextSector \in Nat
      BY <1>1, Sizes DEF NoLog, Logs
    <2> QED BY <2>1 DEF Logs
  <1>4. 0 \in Nat /\ 0 \in 0 .. DroppedLimit
    BY Sizes
  <1> HIDE DEF count, id, log
  <1>5. /\ DOMAIN c = Fields /\ c.captured = 0 /\ c.dropped = 0 /\ c.logCount = count
        /\ c.nextLogId = id /\ c.active = log
        /\ Same(b, c, {"captured", "dropped", "logCount", "nextLogId", "active"})
    BY <1>1 DEF Fields, Same
  <1>6. IsBox(c)
    BY <1>1, <1>2, <1>3, <1>4, <1>5 DEF IsBox, Same, Fields
  <1>7. Sound(c)
    BY <1>5, <1>6 DEF Sound, Same, Fields
  <1>8. OnItsPage(c)
    <2>1. c.page = b.page
      BY <1>5 DEF Same, Fields
    <2> QED BY <1>2, <1>5, <2>1 DEF OnItsPage, LastPage
  <1> QED BY <1>5, <1>7, <1>8 DEF count, id, log

\* A started log is open; one that was not started leaves its reason.
LEMMA Starting ==
  ASSUME NEW b, Sound(b), b.ok, CardSide, b.queue = <<>>, NEW result
  PROVE  LET c == StartFlight(b, result)
         IN /\ Sound(c) /\ c.writing = b.writing
            /\ c.ok => Open(c) /\ c.status = "RECORDING"
            /\ ~c.ok => /\ c.samplesInBlock = b.samplesInBlock
                        /\ NoSpace(c) \/ NoPageFor(b.logCount, result)
  <1> DEFINE r == [b EXCEPT !.sequence = 0]
  <1> DEFINE p == StartPage(r, result)
  <1> DEFINE opened == [p EXCEPT
                     !.captured = 0, !.dropped = 0, !.logCount = @ + 1, !.nextLogId = @ + 1,
                     !.active = [NoLog EXCEPT !.id = p.nextLogId, !.start = p.nextSector]]
  <1> DEFINE blocks == StartBlocks(opened)
  <1> DEFINE next == [blocks EXCEPT !.generation = @ + 1]
  <1> DEFINE m == EnqueueMetadata(next)
  <1> DEFINE c == [m EXCEPT !.checkpointAt = CheckpointInterval, !.samplesInBlock = 0,
                            !.armedSeen = FALSE, !.tail = FALSE, !.status = "RECORDING"]
  <1>1. StartFlight(b, result) =
          IF ~p.ok THEN p ELSE IF ~blocks.ok THEN blocks ELSE IF ~m.ok THEN m ELSE c
    BY DEF StartFlight
  <1>2. Sound(r) /\ Same(b, r, {"sequence"})
    <2>1. IsBox(b) /\ DOMAIN b = Fields
      BY DEF Sound, IsBox
    <2>2. DOMAIN r = Fields /\ r.sequence = 0 /\ Same(b, r, {"sequence"})
      BY <2>1 DEF Fields, Same
    <2>3. IsBox(r)
      BY <2>1, <2>2 DEF IsBox, Same, Fields
    <2> QED BY <2>2, <2>3 DEF Sound, Same, Fields
  <1> HIDE DEF r
  <1>3. /\ r.ok /\ r.queue = <<>> /\ r.logCount = b.logCount /\ r.writing = b.writing
        /\ r.samplesInBlock = b.samplesInBlock
    BY <1>2 DEF Same, Fields
  <1>4. /\ Sound(p) /\ Same(r, p, Loaded)
        /\ p.ok => ~NoSpace(r) /\ p.page.index = PageOf(r.logCount)
        /\ ~p.ok => NoSpace(r) \/ NoPageFor(r.logCount, result)
    BY <1>2, <1>3, StartingPage
  <1> HIDE DEF p
  <1>5. /\ p.queue = <<>> /\ p.logCount = r.logCount /\ p.nextSector = r.nextSector
        /\ p.writing = b.writing /\ p.samplesInBlock = b.samplesInBlock
        /\ NoSpace(p) <=> NoSpace(r)
    BY <1>3, <1>4 DEF Same, Fields, Loaded, NoSpace
  <1>6. CASE ~p.ok
    BY <1>1, <1>3, <1>4, <1>5, <1>6
  <1>7. CASE p.ok
    <2>1. /\ Sound(opened) /\ OnItsPage(opened)
          /\ Same(p, opened, {"captured", "dropped", "logCount", "nextLogId", "active"})
      BY <1>4, <1>5, <1>7, OpeningLog
    <2> HIDE DEF opened
    <2>2. /\ opened.queue = <<>> /\ opened.ok /\ opened.writing = b.writing
          /\ opened.samplesInBlock = b.samplesInBlock
      BY <1>5, <1>7, <2>1 DEF Same, Fields
    <2>3. Len(opened.queue) = 0
      BY <2>2
    <2>4. /\ Sound(blocks) /\ Grows(opened, blocks) /\ Same(opened, blocks, OfBlocks)
          /\ Len(blocks.queue) <= 1 + ConfigurationChunks
          /\ ~blocks.ok => blocks.nextSector = SectorCount
      BY <2>1, <2>2, <2>3, StartingBlocks
    <2> HIDE DEF blocks
    <2>5. OnItsPage(blocks) /\ blocks.samplesInBlock = b.samplesInBlock /\ blocks.writing = b.writing
      BY <2>1, <2>2, <2>4 DEF Same, Fields, OfBlocks, OnItsPage, Grows
    <2>6. CASE ~blocks.ok
      <3>1. StartFlight(b, result) = blocks
        BY <1>1, <1>7, <2>6
      <3>2. NoSpace(blocks)
        <4>1. blocks.nextSector = SectorCount
          BY <2>4, <2>6
        <4> QED BY <4>1, Sizes DEF NoSpace
      <3> QED BY <2>4, <2>5, <2>6, <3>1, <3>2
    <2>7. CASE blocks.ok
      <3>1. IsBox(blocks) /\ DOMAIN blocks = Fields /\ blocks.active \in Logs
            /\ Len(blocks.queue) \in Nat
        BY <2>4, QueueTypes DEF Sound, IsBox
      <3>2. next = [blocks EXCEPT !.active = blocks.active, !.generation = @ + 1]
        BY <3>1 DEF Fields
      <3>3. Sound(next) /\ Same(blocks, next, {"active", "generation"})
        BY <2>4, <3>1, <3>2, CountedLog
      <3> HIDE DEF next
      <3>4. /\ OnItsPage(next) /\ next.ok /\ next.queue = blocks.queue
            /\ next.writing = blocks.writing
        BY <2>5, <2>7, <3>3 DEF Same, Fields, OnItsPage
      <3>5. /\ Sound(m) /\ OnItsPage(m) /\ Grows(next, m)
            /\ m.ok => Len(m.queue) = Len(next.queue) + 3
            /\ next.ok /\ Len(next.queue) + 3 <= QueueCapacity => m.ok
        BY <3>3, <3>4, Metadata
      <3> HIDE DEF m
      <3>6. Len(next.queue) + 3 <= QueueCapacity
        BY <2>4, <3>1, <3>4, Sizes
      <3>7. m.ok /\ Len(m.queue) <= 4 + ConfigurationChunks
        BY <2>4, <3>1, <3>4, <3>5, <3>6, Sizes
      <3>8. StartFlight(b, result) = c
        BY <1>1, <1>7, <2>7, <3>7
      <3>9. IsBox(m) /\ DOMAIN m = Fields /\ Len(m.queue) \in Nat
        BY <3>5, QueueTypes DEF Sound, IsBox
      <3> DEFINE Begun == {"checkpointAt", "samplesInBlock", "armedSeen", "tail", "status"}
      <3>10. /\ DOMAIN c = Fields /\ c.checkpointAt = CheckpointInterval /\ c.samplesInBlock = 0
             /\ c.armedSeen = FALSE /\ c.tail = FALSE /\ c.status = "RECORDING"
             /\ Same(m, c, Begun)
        BY <3>9 DEF Fields, Same
      <3>11. CheckpointInterval \in Nat /\ 0 \in Nat /\ "RECORDING" \in Statuses
             /\ 0 < SamplesPerBlock
        BY Sizes DEF Statuses
      <3>12. IsBox(c)
        BY <3>9, <3>10, <3>11 DEF IsBox, Same, Fields
      <3>13. c.queue = m.queue /\ c.writing = m.writing /\ c.ok = m.ok /\ c.page = m.page
             /\ c.logCount = m.logCount
        BY <3>10 DEF Same, Fields
      <3>14. Sound(c) /\ OnItsPage(c)
        BY <3>5, <3>12, <3>13 DEF Sound, OnItsPage
      <3>15. RoomToClose(c)
        <4>1. Len(c.queue) + 4 <= QueueCapacity
          <5> DEFINE l == Len(m.queue)
          <5>1. l \in Nat /\ l <= 4 + ConfigurationChunks
            BY <3>7, <3>9
          <5> HIDE DEF l, c
          <5>2. l + 4 <= QueueCapacity
            BY <5>1, Sizes
          <5> QED BY <3>13, <5>2 DEF l
        <4> QED BY <3>10, <3>12, <4>1, RoomMeans
      <3>16. CheckpointInterval >= CheckpointInterval
        BY <3>11
      <3>17. Open(c)
        BY <3>7, <3>10, <3>11, <3>13, <3>14, <3>15, <3>16 DEF Open
      <3>18. c.writing = b.writing
        BY <2>5, <3>4, <3>5, <3>13 DEF Grows
      <3> HIDE DEF c
      <3> QED BY <3>7, <3>8, <3>10, <3>13, <3>14, <3>17, <3>18
    <2> QED BY <2>6, <2>7
  <1> QED BY <1>6, <1>7

-----------------------------------------------------------------------------
(* The card: what a write, whole or cut short, does to a disk.              *)

LEMMA PlaceOfPages ==
  ASSUME NEW count \in 0 .. LogCapacity, count # 0
  PROVE  LastPage(count) \in FirstCatalogSector .. FirstDataSector - 1
         /\ LastPage(count) \in Sectors /\ LastPage(count) \notin {0, 1}
  <1>1. count - 1 \in Nat /\ count - 1 < LogCapacity
    BY Sizes
  <1>2. PageOf(count - 1) \in 0 .. CatalogPages - 1
    BY <1>1, PageInRange
  <1> QED BY <1>2, Sizes DEF LastPage, Sectors

LEMMA BelongsKind ==
  ASSUME NEW sector, NEW data, Belongs(sector, data)
  PROVE  /\ data \in Contents /\ data # Blank /\ data # Torn
         /\ sector \in {0, 1} => data \in Superblocks
         /\ IsSuperblock(data) => sector \in {0, 1} /\ data \in Superblocks
  <1>1. CASE data \in Superblocks
    <2>1. CASE sector \in {0, 1}
      BY <1>1, <2>1, ContentsAre DEF Superblocks, Blank, Torn
    <2>2. CASE sector \notin {0, 1}
      BY <1>1, <2>2 DEF Belongs, Superblocks, Pages, Blocks, BlockTypes
    <2> QED BY <2>1, <2>2
  <1>2. CASE data \in Pages /\ sector \in FirstCatalogSector .. FirstDataSector - 1
    <2>1. sector \notin {0, 1}
      BY <1>2, Sizes
    <2> QED BY <1>2, <2>1, ContentsAre DEF Pages, Blank, Torn, IsSuperblock
  <1>3. CASE data \in Blocks /\ sector \in FirstDataSector .. SectorCount - 1
    <2>1. sector \notin {0, 1}
      BY <1>3, Sizes
    <2> QED BY <1>3, <2>1, ContentsAre DEF Blocks, BlockTypes, Blank, Torn, IsSuperblock
  <1> QED BY <1>1, <1>2, <1>3 DEF Belongs

\* What a sector of the card holds.
LEMMA OnDisk ==
  ASSUME NEW d, GoodDisk(d), NEW s \in Sectors
  PROVE  /\ d[s] \in Contents
         /\ s \in {0, 1} /\ IsSuperblock(d[s]) => d[s] \in Superblocks /\ PageOn(d, d[s].logCount)
  <1>1. d[s] \in Contents /\ (d[s] \in {Blank, Torn} \/ Belongs(s, d[s]))
    BY DEF GoodDisk
  <1>2. IsSuperblock(d[s]) => d[s] \notin {Blank, Torn}
    BY DEF IsSuperblock, Blank, Torn
  <1> QED BY <1>1, <1>2, BelongsKind DEF GoodDisk

LEMMA Rewriting ==
  ASSUME NEW d, GoodDisk(d), NEW sector, NEW data, MayBeWritten(d, sector, data),
         NEW content \in {d[sector], data, Torn}
  PROVE  LET e == [d EXCEPT ![sector] = content]
         IN /\ GoodDisk(e)
            /\ \A count \in 0 .. LogCapacity : PageOn(d, count) => PageOn(e, count)
  <1> DEFINE e == [d EXCEPT ![sector] = content]
  <1>1. /\ sector \in Sectors /\ Belongs(sector, data) /\ DOMAIN d = Sectors
        /\ data \in Contents /\ data # Blank
    BY BelongsKind DEF MayBeWritten, GoodDisk
  <1>2. content \in Contents /\ (content \in {Blank, Torn} \/ Belongs(sector, content))
    BY <1>1, ContentsAre DEF GoodDisk
  <1>3. /\ e \in [Sectors -> Contents] /\ e[sector] = content
        /\ \A s \in Sectors : s # sector => e[s] = d[s]
    BY <1>1, <1>2 DEF GoodDisk
  <1> HIDE DEF e
  <1>4. ASSUME NEW count \in 0 .. LogCapacity, PageOn(d, count) PROVE PageOn(e, count)
    <2>1. CASE count = 0
      BY <2>1 DEF PageOn
    <2>2. CASE count # 0
      <3> DEFINE p == LastPage(count)
      <3>1. p \in Sectors /\ d[p] # Blank
        BY <1>4, <2>2, PlaceOfPages DEF PageOn
      <3>2. CASE p = sector
        <4>1. content # Blank
          BY <1>1, <3>1, <3>2 DEF Blank, Torn
        <4> QED BY <1>3, <3>2, <4>1 DEF PageOn
      <3>3. CASE p # sector
        BY <1>3, <3>1, <3>3 DEF PageOn
      <3> QED BY <3>2, <3>3
    <2> QED BY <2>1, <2>2
  <1>5. ASSUME NEW s \in Sectors PROVE e[s] \in {Blank, Torn} \/ Belongs(s, e[s])
    BY <1>2, <1>3 DEF GoodDisk
  <1>6. ASSUME NEW s \in {0, 1}, IsSuperblock(e[s]) PROVE PageOn(e, e[s].logCount)
    <2>1. 0 \in Sectors /\ 1 \in Sectors
      BY Sizes DEF Sectors
    <2>2. CASE s # sector \/ content = d[sector]
      <3>1. e[s] = d[s]
        BY <1>3, <2>1, <2>2
      <3>2. d[s] \in Superblocks /\ PageOn(d, d[s].logCount)
        BY <1>6, <2>1, <3>1, OnDisk
      <3>3. d[s].logCount \in 0 .. LogCapacity
        BY <3>2 DEF Superblocks
      <3> QED BY <1>4, <3>1, <3>2, <3>3
    <2>3. CASE s = sector /\ content = data
      <3>1. e[s] = data /\ data \in Superblocks /\ PageOn(d, data.logCount)
        BY <1>1, <1>3, <2>3, BelongsKind DEF MayBeWritten
      <3>2. data.logCount \in 0 .. LogCapacity
        BY <3>1 DEF Superblocks
      <3> QED BY <1>4, <3>1, <3>2
    <2>4. CASE s = sector /\ content = Torn
      BY <1>3, <1>6, <2>1, <2>4 DEF IsSuperblock, Torn
    <2> QED BY <2>2, <2>3, <2>4
  <1>7. GoodDisk(e)
    BY <1>3, <1>5, <1>6 DEF GoodDisk
  <1> QED BY <1>4, <1>7 DEF e

-----------------------------------------------------------------------------
(* The steps of the flight task.                                            *)

\* What ErrorHasCause says of a step.
ErrorIsCaused ==
  box.status # "ERROR" /\ box'.status = "ERROR" =>
    \/ faults' > faults
    \/ box'.nextSector = SectorCount
    \/ box.status = "RECORDING" /\ box'.checkpointAt > CheckpointInterval
    \/ box.status = "READY" /\ disk[FirstCatalogSector + PageOf(box.logCount)] = Torn
    \/ MayInitialize

LEMMA SameDisk ==
  ASSUME disk' = disk
  PROVE  /\ Sound(box') => Sound(box)'
         /\ Open(box') => Open(box)'
         /\ GoodDisk(disk) => GoodDisk(disk)'
         /\ \A n : PageIsWritten(n) => PageIsWritten(n)'
  <1>1. \A n : PageOn(disk, n) <=> PageOn(disk, n)'
    BY DEF PageOn
  <1>2. Sound(box') => Sound(box)'
    BY <1>1 DEF Sound, IsBox, PagesFirst, PageIsWritten
  <1>3. Open(box') => Open(box)'
    BY <1>2 DEF Open, OnItsPage, RoomToClose
  <1> QED BY <1>1, <1>2, <1>3 DEF GoodDisk, PageIsWritten

\* A fault that is counted.
LEMMA Counting ==
  ASSUME faults \in Nat, NEW result, Counted(result)
  PROVE  faults' \in Nat /\ (Faulty(result) => faults' > faults)
  <1>1. CASE Faulty(result)
    BY <1>1 DEF Counted
  <1>2. CASE ~Faulty(result)
    BY <1>2 DEF Counted
  <1> QED BY <1>1, <1>2

\* A step of the recorder's memory alone.
LEMMA RecorderKeeps ==
  ASSUME IInv, UNCHANGED <<disk, card, state, usbConnected, damaged>>, faults' \in Nat,
         Sound(box'), box'.ok, Grows(box, box'), box.status # "NO_MEDIA",
         box'.status \in {"RECORDING", "FINISHING", "ERROR", "FULL"},
         box'.status = "RECORDING" => Open(box'),
         box'.status = "FINISHING" => EndsWithSuperblocks(box')
  PROVE  IInv'
  <1>1. CardSide'
    <2>1. GoodDisk(disk)' /\ card' \in Cards
      BY SameDisk DEF IInv, CardSide, Cards, Sectors, Contents
    <2>2. (card.writeState # "IDLE" => MayBeWritten(disk, card.sector, card.data))'
      BY DEF IInv, CardSide, MayBeWritten, PageOn
    <2> QED BY <2>1, <2>2 DEF CardSide
  <1>2. BoxSide'
    BY SameDisk DEF BoxSide
  <1>3. WorldSide'
    BY DEF IInv, WorldSide
  <1>4. Writing'
    <2>1. IsBox(box) /\ IsBox(box')
      BY DEF IInv, BoxSide, Sound
    <2>2. ASSUME box'.writing
          PROVE  /\ box'.queue # <<>> /\ card'.writeState # "IDLE"
                 /\ card'.sector = Head(box'.queue).target /\ card'.data = Head(box'.queue).data
      <3>1. /\ box.queue # <<>> /\ card.writeState # "IDLE"
            /\ card.sector = Head(box.queue).target /\ card.data = Head(box.queue).data
        BY <2>2 DEF Grows, IInv, Writing
      <3>2. /\ box.queue \in Seq(Entries) /\ box'.queue \in Seq(Entries)
            /\ Len(box.queue) \in Nat /\ Len(box'.queue) \in Nat
        BY <2>1, QueueTypes
      <3>3. Len(box.queue) >= 1 /\ Len(box'.queue) >= 1
        BY <3>1, <3>2 DEF Grows
      <3>4. box'.queue # <<>> /\ Head(box'.queue) = box'.queue[1] /\ Head(box.queue) = box.queue[1]
        BY <3>2, <3>3
      <3>5. box'.queue[1] = box.queue[1]
        BY <3>2, <3>3 DEF Grows
      <3> QED BY <3>1, <3>4, <3>5
    <2>3. card'.initialized
      BY DEF IInv, Writing
    <2> QED BY <2>2, <2>3 DEF Writing
  <1>5. Closing'
    BY DEF Closing, EndsWithSuperblocks, Superblock
  <1>6. ReadyMatchesCard'
    BY DEF ReadyMatchesCard
  <1> QED BY <1>1, <1>2, <1>3, <1>4, <1>5, <1>6 DEF IInv

LEMMA SettledRecording ==
  ASSUME NEW b, NEW c, NEW stop, RecordedAs(b, c, stop)
  PROVE  LET d == Settled(c)
         IN /\ Sound(d) /\ d.ok /\ Grows(b, d)
            /\ d.status \in {"RECORDING", "FINISHING", "ERROR", "FULL"}
            /\ d.status = "RECORDING" => Open(d)
            /\ d.status = "FINISHING" => EndsWithSuperblocks(d)
            /\ d.status = "ERROR" =>
                 d.nextSector = SectorCount \/ (stop /\ d.checkpointAt > CheckpointInterval)
  <1> DEFINE d == Settled(c)
  <1>1. Sound(c) /\ Grows(b, c)
    BY DEF RecordedAs
  <1>2. Sound(d) /\ d.ok /\ Same(c, d, {"ok"})
    BY <1>1, SettledBox
  <1> HIDE DEF d
  <1>3. /\ d.status = c.status /\ d.queue = c.queue /\ d.writing = c.writing
        /\ d.nextSector = c.nextSector /\ d.checkpointAt = c.checkpointAt
        /\ d.samplesInBlock = c.samplesInBlock /\ Superblock(d) = Superblock(c)
        /\ d.logCount = c.logCount /\ d.page = c.page
    BY <1>2 DEF Same, Fields, Superblock
  <1>4. Grows(b, d)
    BY <1>1, <1>3 DEF Grows
  <1>5. Open(c) => Open(d)
    BY <1>2, <1>3 DEF Open, OnItsPage, RoomToClose
  <1>6. EndsWithSuperblocks(c) => EndsWithSuperblocks(d)
    BY <1>3 DEF EndsWithSuperblocks
  <1>7. 0 < SamplesPerBlock
    BY Sizes
  <1>8. CASE c.status = "RECORDING" /\ Open(c)
    BY <1>2, <1>3, <1>4, <1>5, <1>8 DEF Open, d
  <1>9. CASE c.status = "FINISHING" /\ EndsWithSuperblocks(c) /\ c.samplesInBlock = 0
    BY <1>2, <1>3, <1>4, <1>6, <1>7, <1>9 DEF d
  <1>10. CASE /\ c.status = "ERROR"
              /\ c.nextSector = SectorCount \/ (stop /\ c.checkpointAt > CheckpointInterval)
    BY <1>2, <1>3, <1>4, <1>10 DEF d
  <1> QED BY <1>8, <1>9, <1>10 DEF RecordedAs

LEMMA CaptureKeeps == IInv /\ Capture => IInv' /\ ErrorIsCaused
  <1> SUFFICES ASSUME IInv, Capture PROVE IInv' /\ ErrorIsCaused
    OBVIOUS
  <1>1. /\ box.status = "RECORDING" /\ Open(box) /\ state \in Lifecycle!States /\ faults \in Nat
        /\ UNCHANGED <<disk, card, faults, state, usbConnected, damaged>>
    BY DEF IInv, BoxSide, WorldSide, CardSide, Capture, cardVars
  <1>2. PICK periods \in 0 .. 2, over \in BOOLEAN : box' = Settled(Record(box, periods, over))
    BY DEF Capture
  <1>3. periods \in Nat
    OBVIOUS
  <1>4. RecordedAs(box, Record(box, periods, over), state = "FAULT" \/ over)
    BY <1>1, <1>3, Recording
  <1>5. /\ Sound(box') /\ box'.ok /\ Grows(box, box')
        /\ box'.status \in {"RECORDING", "FINISHING", "ERROR", "FULL"}
        /\ box'.status = "RECORDING" => Open(box')
        /\ box'.status = "FINISHING" => EndsWithSuperblocks(box')
        /\ box'.status = "ERROR" =>
             box'.nextSector = SectorCount \/ box'.checkpointAt > CheckpointInterval
    BY <1>2, <1>4, SettledRecording
  <1>6. IInv'
    BY <1>1, <1>5, RecorderKeeps
  <1> QED BY <1>1, <1>5, <1>6 DEF ErrorIsCaused

LEMMA FinishRecordingKeeps == IInv /\ FinishRecording => IInv' /\ ErrorIsCaused
  <1> SUFFICES ASSUME IInv, FinishRecording PROVE IInv' /\ ErrorIsCaused
    OBVIOUS
  <1>1. /\ box.status = "RECORDING" /\ Open(box) /\ faults \in Nat
        /\ UNCHANGED <<disk, card, faults, state, usbConnected, damaged>>
        /\ box' = Settled(FinishFlight(box))
    BY DEF IInv, BoxSide, CardSide, FinishRecording, MustFinish, cardVars
  <1> DEFINE c == FinishFlight(box)
  <1>2. /\ Sound(c) /\ Grows(box, c) /\ Same(box, c, Ended)
        /\ \/ c.status = "FINISHING" /\ EndsWithSuperblocks(c) /\ c.samplesInBlock = 0
           \/ c.status = "ERROR" /\ (c.nextSector = SectorCount \/ ~RoomToClose(box))
    BY <1>1, Finishing DEF Open
  <1> HIDE DEF c
  <1>3. c.checkpointAt = box.checkpointAt
    BY <1>2 DEF Same, Fields, Ended
  <1>4. ASSUME ~RoomToClose(box) PROVE c.checkpointAt > CheckpointInterval
    <2>1. box.checkpointAt >= CheckpointInterval /\ box.checkpointAt # CheckpointInterval
      BY <1>1, <1>4 DEF Open
    <2>2. box.checkpointAt \in Nat /\ CheckpointInterval \in Nat
      BY <1>1, Sizes DEF Open, Sound, IsBox
    <2> QED BY <1>3, <2>1, <2>2
  <1> DEFINE stop == TRUE
  <1>5. RecordedAs(box, c, stop)
    BY <1>2, <1>4 DEF RecordedAs
  <1> HIDE DEF stop
  <1>6. /\ Sound(box') /\ box'.ok /\ Grows(box, box')
        /\ box'.status \in {"RECORDING", "FINISHING", "ERROR", "FULL"}
        /\ box'.status = "RECORDING" => Open(box')
        /\ box'.status = "FINISHING" => EndsWithSuperblocks(box')
        /\ box'.status = "ERROR" =>
             box'.nextSector = SectorCount \/ box'.checkpointAt > CheckpointInterval
    BY <1>1, <1>5, SettledRecording DEF c
  <1>7. IInv'
    BY <1>1, <1>6, RecorderKeeps
  <1> QED BY <1>1, <1>6, <1>7 DEF ErrorIsCaused

\* On an idle card a read that fails is a fault.
LEMMA ReadFails ==
  ASSUME card.initialized, card.writeState = "IDLE", NEW sector \in Sectors,
         NEW result \in ReadResults(sector), result # "OK"
  PROVE  Faulty(result)
  BY DEF ReadResults, Within, Faulty

\* A log is not started for want of space, or its page could not be had.
LEMMA NoPageHasCause ==
  ASSUME IInv, box.status = "READY", NEW result \in StartReads(box), Counted(result),
         NoPageFor(box.logCount, result)
  PROVE  faults' > faults \/ disk[FirstCatalogSector + PageOf(box.logCount)] = Torn
  <1> DEFINE n == box.logCount
  <1> DEFINE sector == FirstCatalogSector + PageOf(n)
  <1>1. n \in Nat /\ n < LogCapacity /\ n % EntriesPerPage # 0
    BY Sizes DEF IInv, BoxSide, Sound, IsBox, NoPageFor
  <1>2. PageOf(n) \in 0 .. CatalogPages - 1 /\ PageOf(n) = PageOf(n - 1)
    BY <1>1, PageInRange, PageShared
  <1>3. sector \in Sectors
    BY <1>2, Sizes DEF Sectors
  <1>4. n # 0
    <2>1. 0 % EntriesPerPage = 0
      BY Sizes
    <2> QED BY <1>1, <2>1
  <1>5. disk[sector] # Blank
    BY <1>2, <1>4 DEF IInv, Writing, PageIsWritten, PageOn, LastPage
  <1>6. CASE disk[sector] \in {Blank, Torn}
    BY <1>5, <1>6
  <1>7. CASE result # "OK"
    <2>1. result \in PageReads(box, PageOf(n))
      <3>1. ~(n >= LogCapacity)
        BY <1>1, Sizes
      <3> QED BY <1>1, <3>1 DEF StartReads
    <2>2. result \in ReadResults(sector)
      BY <1>7, <2>1 DEF PageReads
    <2>3. card.initialized /\ card.writeState = "IDLE" /\ faults \in Nat
      BY DEF IInv, Writing, CardSide
    <2> QED BY <1>3, <1>7, <2>2, <2>3, ReadFails, Counting
  <1> QED BY <1>6, <1>7 DEF NoPageFor

LEMMA StartRecordingKeeps == IInv /\ StartRecording => IInv' /\ ErrorIsCaused
  <1> SUFFICES ASSUME IInv, StartRecording PROVE IInv' /\ ErrorIsCaused
    OBVIOUS
  <1>1. /\ box.status = "READY" /\ state \in Lifecycle!States /\ state # "FAULT"
        /\ faults \in Nat /\ Sound(box) /\ box.ok /\ CardSide /\ box.queue = <<>>
        /\ UNCHANGED <<disk, card, state, usbConnected, damaged>>
    BY DEF IInv, BoxSide, WorldSide, CardSide, Writing, StartRecording
  <1> DEFINE Begin(result) == StartFlight(box, result)
  <1> DEFINE Full(b) == b.logCount >= LogCapacity \/ b.nextSector >= SectorCount
  <1>2. PICK result \in StartReads(box) :
          /\ box' = IF Begin(result).ok THEN Settled(Record(Begin(result), 1, FALSE))
                    ELSE [Settled(Begin(result)) EXCEPT
                            !.status = IF Full(Begin(result)) THEN "FULL" ELSE "ERROR"]
          /\ Counted(result)
    BY DEF StartRecording
  <1> DEFINE b == Begin(result)
  <1>3. /\ Sound(b) /\ b.writing = box.writing
        /\ b.ok => Open(b) /\ b.status = "RECORDING"
        /\ ~b.ok => /\ b.samplesInBlock = box.samplesInBlock
                    /\ NoSpace(b) \/ NoPageFor(box.logCount, result)
    BY <1>1, Starting
  <1>4. faults' \in Nat
    BY <1>1, <1>2, Counting
  <1>5. box' = IF b.ok THEN Settled(Record(b, 1, FALSE))
               ELSE [Settled(b) EXCEPT !.status = IF Full(b) THEN "FULL" ELSE "ERROR"]
    BY <1>2
  <1> HIDE DEF b
  <1>6. ASSUME NEW c, Sound(c), c.writing = box.writing PROVE Grows(box, c)
    <2>1. Len(box.queue) = 0 /\ Len(c.queue) \in Nat
      BY <1>1, <1>6, QueueTypes DEF Sound
    <2> QED BY <1>6, <2>1 DEF Grows
  <1>7. CASE b.ok
    <2> DEFINE over == FALSE
    <2> DEFINE stop == state = "FAULT" \/ over
    <2>1. box' = Settled(Record(b, 1, over)) /\ over \in BOOLEAN /\ 1 \in Nat
      BY <1>5, <1>7
    <2>2. ~stop
      BY <1>1
    <2> HIDE DEF over
    <2>3. RecordedAs(b, Record(b, 1, over), stop)
      BY <1>1, <1>3, <1>7, <2>1, Recording
    <2> HIDE DEF stop
    <2>4. /\ Sound(box') /\ box'.ok /\ Grows(b, box')
          /\ box'.status \in {"RECORDING", "FINISHING", "ERROR", "FULL"}
          /\ box'.status = "RECORDING" => Open(box')
          /\ box'.status = "FINISHING" => EndsWithSuperblocks(box')
          /\ box'.status = "ERROR" =>
               box'.nextSector = SectorCount \/ (stop /\ box'.checkpointAt > CheckpointInterval)
      BY <2>1, <2>3, SettledRecording
    <2>5. Grows(box, box')
      BY <1>3, <1>6, <2>4 DEF Grows
    <2>6. IInv'
      BY <1>1, <1>4, <2>4, <2>5, RecorderKeeps
    <2> QED BY <1>1, <2>2, <2>4, <2>6 DEF ErrorIsCaused
  <1>8. CASE ~b.ok
    <2> DEFINE status == IF Full(b) THEN "FULL" ELSE "ERROR"
    <2> DEFINE d == Settled(b)
    <2>1. Sound(d) /\ d.ok /\ Same(b, d, {"ok"})
      BY <1>3, SettledBox
    <2>2. status \in Statuses /\ status \in {"FULL", "ERROR"}
      BY DEF Statuses
    <2>3. box' = [d EXCEPT !.status = status]
      BY <1>5, <1>8
    <2> HIDE DEF d, status
    <2>4. Sound(box') /\ box'.status = status /\ Same(d, box', {"status"})
      BY <2>1, <2>2, <2>3, StatusSet
    <2>5. /\ box'.ok = d.ok /\ box'.writing = box.writing
          /\ box'.samplesInBlock = box.samplesInBlock
      BY <1>3, <1>8, <2>1, <2>4 DEF Same, Fields
    <2>6. Grows(box, box')
      BY <1>6, <2>4, <2>5
    <2>7. IInv'
      BY <1>1, <1>4, <2>1, <2>2, <2>4, <2>5, <2>6, RecorderKeeps
    <2>8. ASSUME status = "ERROR"
          PROVE  faults' > faults \/ disk[FirstCatalogSector + PageOf(box.logCount)] = Torn
      <3>1. NoPageFor(box.logCount, result)
        BY <1>3, <1>8, <2>8 DEF NoSpace, status
      <3> QED BY <1>1, <1>2, <3>1, NoPageHasCause
    <2> QED BY <1>1, <2>4, <2>7, <2>8 DEF ErrorIsCaused
  <1> QED BY <1>7, <1>8

-----------------------------------------------------------------------------
(* The commands of the host.                                                *)

LEMMA Informing ==
  ASSUME NEW b, Sound(b), CardSide, NEW index \in Nat, index < LogCapacity, NEW result
  PROVE  /\ Sound(LogInformation(b, index, result))
         /\ Same(b, LogInformation(b, index, result), Loaded)
  <1> DEFINE p == LoadCatalogPage(b, PageOf(index), result)
  <1> DEFINE log == p.page.logs[index % EntriesPerPage]
  <1> DEFINE inRange == /\ log.id # 0
                        /\ FirstDataSector <= log.start
                        /\ log.start <= log.end
                        /\ log.end < SectorCount
  <1> DEFINE c == [p EXCEPT !.ok = inRange]
  <1>1. LogInformation(b, index, result) = IF ~p.ok THEN p ELSE c
    BY DEF LogInformation
  <1>2. PageOf(index) \in 0 .. CatalogPages - 1
    BY PageInRange
  <1>3. Sound(p) /\ Same(b, p, Loaded)
    BY <1>2, Loading
  <1>4. inRange \in BOOLEAN
    OBVIOUS
  <1> HIDE DEF p, inRange
  <1>5. DOMAIN p = Fields /\ p.page \in Pages /\ p.pageValid \in BOOLEAN
    BY <1>3 DEF Sound, IsBox
  <1>6. DOMAIN c = Fields /\ c.ok = inRange /\ c.page = p.page /\ c.pageValid = p.pageValid
        /\ Same(p, c, Loaded)
    BY <1>5 DEF Fields, Same, Loaded
  <1>7. Sound(c)
    BY <1>3, <1>4, <1>5, <1>6, LoadedBox
  <1>8. Same(b, c, Loaded)
    BY <1>3, <1>6 DEF Same
  <1> QED BY <1>1, <1>3, <1>7, <1>8

\* The commands that read change nothing but the page in memory.
LEMMA ReadingKeeps ==
  ASSUME IInv, UNCHANGED <<disk, card, state, usbConnected, damaged>>, faults' \in Nat,
         Sound(box'), box'.ok, Same(box, box', Loaded), box.status \in {"READY", "FULL"}
  PROVE  IInv' /\ ErrorIsCaused
  <1>1. /\ box'.status = box.status /\ box'.queue = box.queue /\ box'.writing = box.writing
        /\ box'.samplesInBlock = box.samplesInBlock /\ box'.logCount = box.logCount
        /\ Superblock(box') = Superblock(box)
    BY DEF Same, Fields, Loaded, Superblock
  <1>2. CardSide'
    <2>1. GoodDisk(disk)' /\ card' \in Cards
      BY SameDisk DEF IInv, CardSide, Cards, Sectors, Contents
    <2>2. (card.writeState # "IDLE" => MayBeWritten(disk, card.sector, card.data))'
      BY DEF IInv, CardSide, MayBeWritten, PageOn
    <2> QED BY <2>1, <2>2 DEF CardSide
  <1>3. BoxSide'
    BY <1>1, SameDisk DEF IInv, BoxSide
  <1>4. WorldSide'
    BY DEF IInv, WorldSide
  <1>5. Writing'
    BY <1>1, SameDisk DEF IInv, Writing
  <1>6. Closing'
    BY <1>1 DEF Closing
  <1>7. ReadyMatchesCard'
    <2>1. CardSuperblock' = CardSuperblock
      BY DEF CardSuperblock
    <2>2. Superblock(box)' = Superblock(box')
      BY DEF Superblock
    <2> QED BY <1>1, <2>1, <2>2 DEF IInv, ReadyMatchesCard
  <1>8. ErrorIsCaused
    BY <1>1 DEF ErrorIsCaused
  <1> QED BY <1>2, <1>3, <1>4, <1>5, <1>6, <1>7, <1>8 DEF IInv

LEMMA ReadLogSectorKeeps == IInv /\ ReadLogSector => IInv' /\ ErrorIsCaused
  <1> SUFFICES ASSUME IInv, ReadLogSector PROVE IInv' /\ ErrorIsCaused
    OBVIOUS
  <1>1. /\ box.status \in {"READY", "FULL"} /\ faults \in Nat /\ Sound(box) /\ CardSide
        /\ box.logCount \in 0 .. LogCapacity /\ box.nextLogId \in Nat
        /\ UNCHANGED <<disk, card, state, usbConnected, damaged>>
    BY DEF IInv, BoxSide, CardSide, Sound, IsBox, ReadLogSector
  <1>2. PICK id \in 1 .. box.nextLogId - 1 :
          /\ id - 1 < box.logCount
          /\ \E result \in PageReads(box, PageOf(id - 1)) :
               /\ box' = Settled(LogInformation(box, id - 1, result))
               /\ Counted(result)
    BY DEF ReadLogSector
  <1> DEFINE index == id - 1
  <1>3. index \in Nat /\ index < LogCapacity
    BY <1>1, <1>2, Sizes
  <1>4. PICK result \in PageReads(box, PageOf(index)) :
          box' = Settled(LogInformation(box, index, result)) /\ Counted(result)
    BY <1>2
  <1> DEFINE c == LogInformation(box, index, result)
  <1>5. Sound(c) /\ Same(box, c, Loaded)
    BY <1>1, <1>3, Informing
  <1> HIDE DEF c
  <1>6. Sound(Settled(c)) /\ Settled(c).ok /\ Same(c, Settled(c), {"ok"})
    BY <1>5, SettledBox
  <1>7. Sound(box') /\ box'.ok /\ Same(box, box', Loaded)
    BY <1>4, <1>5, <1>6 DEF Same, Loaded, c
  <1>8. faults' \in Nat
    BY <1>1, <1>4, Counting
  <1> QED BY <1>1, <1>7, <1>8, ReadingKeeps

LEMMA ListLogsKeeps == IInv /\ ListLogs => IInv' /\ ErrorIsCaused
  <1> SUFFICES ASSUME IInv, ListLogs PROVE IInv' /\ ErrorIsCaused
    OBVIOUS
  <1>1. /\ box.status \in {"READY", "FULL"} /\ faults \in Nat /\ Sound(box) /\ CardSide
        /\ box.logCount \in 0 .. LogCapacity /\ IsBox(box) /\ DOMAIN box = Fields
        /\ UNCHANGED <<disk, card, state, usbConnected, damaged>>
    BY DEF IInv, BoxSide, CardSide, Sound, IsBox, ListLogs
  <1> DEFINE uncached == [box EXCEPT !.pageValid = FALSE]
  <1> DEFINE Cached(i, j) == IF PageOf(i) = PageOf(j) THEN box ELSE uncached
  <1>2. PICK offset \in 0 .. box.logCount - 1 :
          \E last \in offset .. box.logCount - 1 : \E result \in PageReads(box, PageOf(offset)) :
            /\ box' = Settled(LogInformation(Cached(last, offset), last, result))
            /\ Counted(result)
    BY DEF ListLogs
  <1>3. PICK last \in offset .. box.logCount - 1 :
          \E result \in PageReads(box, PageOf(offset)) :
            /\ box' = Settled(LogInformation(Cached(last, offset), last, result))
            /\ Counted(result)
    BY <1>2
  <1>4. PICK result \in PageReads(box, PageOf(offset)) :
          /\ box' = Settled(LogInformation(Cached(last, offset), last, result))
          /\ Counted(result)
    BY <1>3
  <1>5. last \in Nat /\ last < LogCapacity
    BY <1>1, <1>2, <1>3, Sizes
  <1>6. Sound(uncached) /\ Same(box, uncached, {"pageValid"})
    <2>1. /\ DOMAIN uncached = Fields /\ uncached.pageValid = FALSE
          /\ Same(box, uncached, {"pageValid"})
      BY <1>1 DEF Fields, Same
    <2>2. IsBox(uncached)
      BY <1>1, <2>1 DEF IsBox, Same, Fields
    <2> QED BY <1>1, <2>1, <2>2 DEF Sound, Same, Fields
  <1> DEFINE b == Cached(last, offset)
  <1>7. Sound(b) /\ Same(box, b, {"pageValid"})
    BY <1>1, <1>6 DEF Same
  <1> HIDE DEF b
  <1> DEFINE c == LogInformation(b, last, result)
  <1>8. Sound(c) /\ Same(b, c, Loaded)
    BY <1>1, <1>5, <1>7, Informing
  <1> HIDE DEF c
  <1>9. Sound(Settled(c)) /\ Settled(c).ok /\ Same(c, Settled(c), {"ok"})
    BY <1>8, SettledBox
  <1>10. box' = Settled(c)
    BY <1>4 DEF b, c
  <1>11. Sound(box') /\ box'.ok /\ Same(box, box', Loaded)
    BY <1>7, <1>8, <1>9, <1>10 DEF Same, Loaded
  <1>12. faults' \in Nat
    BY <1>1, <1>4, Counting
  <1> QED BY <1>1, <1>11, <1>12, ReadingKeeps

-----------------------------------------------------------------------------
(* The storage task.                                                        *)

\* The sector at the head of the queue may be written, and starting the write
\* of it fails only for a fault.
LEMMA HeadMayBeWritten ==
  ASSUME Sound(box), box.queue # <<>>
  PROVE  LET head == Head(box.queue)
         IN head \in Entries /\ MayBeWritten(disk, head.target, head.data)
  <1> DEFINE head == Head(box.queue)
  <1>1. box.queue \in Seq(Entries) /\ PagesFirst(box.queue)
    BY DEF Sound, IsBox
  <1>2. head \in Entries /\ head = box.queue[1] /\ 1 \in DOMAIN box.queue
    BY <1>1
  <1>3. head.target \in {0, 1} => PageIsWritten(head.data.logCount)
    <2>1. 1 .. 1 - 1 = {}
      OBVIOUS
    <2> QED BY <1>1, <1>2, <2>1 DEF PagesFirst
  <1> HIDE DEF head
  <1>4. head.target \in Sectors /\ Belongs(head.target, head.data)
    BY <1>2 DEF Entries
  <1> QED BY <1>2, <1>3, <1>4 DEF MayBeWritten, PageIsWritten, head

LEMMA ServiceStartKeeps == IInv /\ ServiceStart => IInv' /\ ErrorIsCaused
  <1> SUFFICES ASSUME IInv, ServiceStart PROVE IInv' /\ ErrorIsCaused
    OBVIOUS
  <1> DEFINE head == Head(box.queue)
  <1>1. /\ box.queue # <<>> /\ box.status # "ERROR" /\ ~box.writing
        /\ UNCHANGED <<disk, state, usbConnected, damaged>>
        /\ IsBox(box) /\ Sound(box) /\ box.ok /\ DOMAIN box = Fields /\ card \in Cards
        /\ faults \in Nat /\ GoodDisk(disk)
    BY DEF IInv, BoxSide, CardSide, Sound, IsBox, ServiceStart
  <1>2. PICK result \in StartResults(head.target) :
          /\ card' = StartedCard(head.target, head.data, result)
          /\ box' = CASE result = "OK"   -> [box EXCEPT !.writing = TRUE]
                      [] result = "BUSY" -> box
                      [] OTHER           -> [box EXCEPT !.status = "ERROR"]
          /\ Counted(result)
    BY DEF ServiceStart
  <1>3. head \in Entries /\ MayBeWritten(disk, head.target, head.data)
    BY <1>1, HeadMayBeWritten
  <1> HIDE DEF head
  <1>4. head.target \in Sectors /\ head.data \in Contents
    BY <1>3 DEF Entries
  <1>5. card.initialized /\ box.status \notin {"NO_MEDIA", "UNINITIALIZED", "READY"}
    BY <1>1 DEF IInv, Writing
  <1>6. /\ result = "OK" => card.writeState = "IDLE"
        /\ result \notin {"OK", "BUSY"} => Faulty(result)
    BY <1>4, <1>5 DEF StartResults, Within, Faulty
  <1>7. faults' \in Nat /\ (Faulty(result) => faults' > faults)
    BY <1>1, <1>2, Counting
  <1>8. WorldSide' /\ GoodDisk(disk)'
    BY <1>1, SameDisk DEF IInv, WorldSide
  <1>9. CASE result = "OK"
    <2>1. /\ card' = [card EXCEPT !.writeState = "DATA_TRANSFER", !.transfer = TRUE,
                                  !.sector = head.target, !.data = head.data]
          /\ box' = [box EXCEPT !.writing = TRUE]
      BY <1>2, <1>9 DEF StartedCard
    <2>2. /\ card' \in Cards /\ card'.writeState = "DATA_TRANSFER" /\ card'.sector = head.target
          /\ card'.data = head.data /\ card'.initialized
      BY <1>1, <1>4, <1>5, <2>1 DEF Cards, WriteStates
    <2>3. DOMAIN box' = Fields /\ box'.writing = TRUE /\ Same(box, box', {"writing"})
      BY <1>1, <2>1 DEF Fields, Same
    <2>4. IsBox(box')
      BY <1>1, <2>3 DEF IsBox, Same, Fields
    <2>5. /\ box'.queue = box.queue /\ box'.status = box.status /\ box'.ok = box.ok
          /\ box'.samplesInBlock = box.samplesInBlock /\ box'.checkpointAt = box.checkpointAt
          /\ box'.logCount = box.logCount /\ box'.page = box.page
          /\ Superblock(box') = Superblock(box)
      BY <2>3 DEF Same, Fields, Superblock
    <2>6. Sound(box') /\ (Open(box) => Open(box'))
      BY <1>1, <2>4, <2>5 DEF Sound, Open, OnItsPage, RoomToClose
    <2>7. CardSide'
      <3>1. MayBeWritten(disk, head.target, head.data) =>
              (MayBeWritten(disk, card.sector, card.data))'
        BY <1>1, <2>2 DEF MayBeWritten, PageOn
      <3> QED BY <1>3, <1>7, <1>8, <2>2, <3>1 DEF CardSide, Cards, Sectors, Contents
    <2>8. BoxSide'
      BY <1>1, <2>5, <2>6, SameDisk DEF IInv, BoxSide
    <2>9. Writing'
      BY <1>1, <1>5, <2>2, <2>3, <2>5 DEF Writing, head
    <2>10. Closing'
      BY <1>1, <2>5 DEF IInv, Closing, EndsWithSuperblocks, Superblock
    <2>11. ReadyMatchesCard'
      BY <1>5, <2>5 DEF ReadyMatchesCard
    <2>12. ErrorIsCaused
      BY <2>5 DEF ErrorIsCaused
    <2> QED BY <1>8, <2>7, <2>8, <2>9, <2>10, <2>11, <2>12 DEF IInv
  <1>10. CASE result = "BUSY"
    <2>1. card' = card /\ box' = box
      BY <1>2, <1>10 DEF StartedCard
    <2>2. CardSide'
      <3>1. (card.writeState # "IDLE" => MayBeWritten(disk, card.sector, card.data))'
        BY <1>1, <2>1 DEF IInv, CardSide, MayBeWritten, PageOn
      <3> QED BY <1>1, <1>7, <1>8, <2>1, <3>1 DEF CardSide, Cards, Sectors, Contents
    <2>3. BoxSide'
      BY <1>1, <2>1, SameDisk DEF IInv, BoxSide
    <2>4. Writing' /\ Closing' /\ ReadyMatchesCard' /\ ErrorIsCaused
      BY <1>1, <1>5, <2>1 DEF IInv, Writing, Closing, EndsWithSuperblocks, Superblock,
                              ReadyMatchesCard, ErrorIsCaused
    <2> QED BY <1>8, <2>2, <2>3, <2>4 DEF IInv
  <1>11. CASE result \notin {"OK", "BUSY"}
    <2>1. card' = card /\ box' = [box EXCEPT !.status = "ERROR"] /\ "ERROR" \in Statuses
      BY <1>2, <1>11 DEF StartedCard, Statuses
    <2>2. Sound(box') /\ box'.status = "ERROR" /\ Same(box, box', {"status"})
      BY <1>1, <2>1, StatusSet
    <2>3. /\ box'.queue = box.queue /\ box'.writing = box.writing /\ box'.ok = box.ok
      BY <2>2 DEF Same, Fields
    <2>4. CardSide'
      <3>1. (card.writeState # "IDLE" => MayBeWritten(disk, card.sector, card.data))'
        BY <1>1, <2>1 DEF IInv, CardSide, MayBeWritten, PageOn
      <3> QED BY <1>1, <1>7, <1>8, <2>1, <3>1 DEF CardSide, Cards, Sectors, Contents
    <2>5. BoxSide'
      BY <1>1, <2>2, <2>3, SameDisk DEF BoxSide
    <2>6. Writing' /\ Closing' /\ ReadyMatchesCard'
      BY <1>1, <1>5, <2>1, <2>2, <2>3 DEF Writing, Closing, ReadyMatchesCard
    <2>7. ErrorIsCaused
      BY <1>6, <1>7, <1>11 DEF ErrorIsCaused
    <2> QED BY <1>8, <2>4, <2>5, <2>6, <2>7 DEF IInv
  <1> QED BY <1>9, <1>10, <1>11

\* What a poll of a write under way can find.
LEMMA PollFacts ==
  ASSUME card \in Cards, card.writeState # "IDLE", NEW outcome \in PollOutcomes
  PROVE  /\ outcome.transfer \in BOOLEAN /\ outcome.state \in WriteStates
         /\ \/ outcome.result = "BUSY" /\ outcome.state # "IDLE"
            \/ outcome.result = "OK" /\ outcome.state = "IDLE"
            \/ Faulty(outcome.result) /\ outcome.result \notin {"OK", "BUSY"}
               /\ outcome.state = "IDLE"
  <1> DEFINE Outcome(result, next, transfer) ==
               [result |-> result, state |-> next, transfer |-> transfer]
  <1> DEFINE Ends == {Outcome("TRANSPORT_ERROR", "IDLE", FALSE),
                      Outcome("BUSY", "PROGRAMMING", FALSE), Outcome("OK", "IDLE", FALSE)}
  <1> DEFINE Is(o) == /\ o.transfer \in BOOLEAN /\ o.state \in WriteStates
                      /\ \/ o.result = "BUSY" /\ o.state # "IDLE"
                         \/ o.result = "OK" /\ o.state = "IDLE"
                         \/ /\ Faulty(o.result) /\ o.result \notin {"OK", "BUSY"}
                            /\ o.state = "IDLE"
  <1>1. card.transfer \in BOOLEAN /\ card.writeState \in WriteStates
    BY DEF Cards
  <1>2. ASSUME NEW t \in BOOLEAN
        PROVE  /\ Is(Outcome("TIMEOUT", "IDLE", t)) /\ Is(Outcome("TRANSPORT_ERROR", "IDLE", t))
               /\ Is(Outcome("PROTOCOL_ERROR", "IDLE", t)) /\ Is(Outcome("OK", "IDLE", t))
               /\ Is(Outcome("BUSY", "DATA_TRANSFER", t)) /\ Is(Outcome("BUSY", "PROGRAMMING", t))
    BY DEF Faulty, WriteStates
  <1>3. /\ card.writeState = "DATA_TRANSFER" =>
             \/ outcome = Outcome("TIMEOUT", "IDLE", card.transfer)
             \/ outcome = Outcome("BUSY", "DATA_TRANSFER", TRUE)
             \/ outcome = Outcome("PROTOCOL_ERROR", "IDLE", FALSE)
             \/ outcome \in Ends
        /\ card.writeState = "PROGRAMMING" =>
             outcome = Outcome("TIMEOUT", "IDLE", FALSE) \/ outcome \in Ends
    BY DEF PollOutcomes
  <1> HIDE DEF Is, Outcome
  <1>4. /\ Is(Outcome("TIMEOUT", "IDLE", card.transfer)) /\ Is(Outcome("TIMEOUT", "IDLE", FALSE))
        /\ Is(Outcome("BUSY", "DATA_TRANSFER", TRUE)) /\ Is(Outcome("PROTOCOL_ERROR", "IDLE", FALSE))
        /\ \A o \in Ends : Is(o)
    BY <1>1, <1>2, Zenon
  <1>5. Is(outcome)
    BY <1>1, <1>3, <1>4 DEF WriteStates
  <1> QED BY <1>5 DEF Is

LEMMA CountsInRange ==
  ASSUME NEW entry \in Entries, entry.target \in {0, 1}
  PROVE  entry.data.logCount \in 0 .. LogCapacity
  <1>1. Belongs(entry.target, entry.data)
    BY DEF Entries
  <1> QED BY <1>1, BelongsKind DEF Superblocks

\* The queue on a disk that has lost no page.
LEMMA QueueOnNewDisk ==
  ASSUME NEW q \in Seq(Entries), PagesFirst(q),
         \A count \in 0 .. LogCapacity : PageOn(disk, count) => PageOn(disk', count)
  PROVE  PagesFirstOn(disk', q)
  <1> SUFFICES ASSUME NEW j \in DOMAIN q, q[j].target \in {0, 1}
               PROVE  \/ PageOn(disk', q[j].data.logCount)
                      \/ \E k \in 1 .. j - 1 : q[k].target = LastPage(q[j].data.logCount)
    BY DEF PagesFirstOn
  <1>1. q[j] \in Entries
    OBVIOUS
  <1> QED BY <1>1, CountsInRange DEF PagesFirst, PageIsWritten

\* The head of the queue is on the card now: what follows it is still in order.
LEMMA PoppedQueue ==
  ASSUME NEW q \in Seq(Entries), q # <<>>, PagesFirst(q), NEW content \in {Head(q).data, Torn},
         GoodDisk(disk), GoodDisk(disk'), disk' = [disk EXCEPT ![Head(q).target] = content],
         \A count \in 0 .. LogCapacity : PageOn(disk, count) => PageOn(disk', count)
  PROVE  PagesFirstOn(disk', Tail(q))
  <1> DEFINE head == Head(q)
  <1> DEFINE t == Tail(q)
  <1>1. /\ Len(q) \in Nat /\ Len(q) >= 1 /\ DOMAIN q = 1 .. Len(q) /\ head = q[1]
        /\ t \in Seq(Entries) /\ DOMAIN t = 1 .. Len(q) - 1
        /\ \A i \in 1 .. Len(q) - 1 : t[i] = q[i + 1]
    OBVIOUS
  <1>2. \A j \in DOMAIN q : q[j] \in Entries
    BY <1>1
  <1> HIDE DEF head, t
  <1>3. head.target \in Sectors /\ Belongs(head.target, head.data)
    BY <1>1, <1>2 DEF Entries
  <1>4. disk'[head.target] # Blank
    <2>1. content # Blank
      BY <1>3, BelongsKind DEF head, Blank, Torn
    <2>2. DOMAIN disk = Sectors
      BY DEF GoodDisk
    <2> QED BY <1>3, <2>1, <2>2 DEF head
  <1>5. PagesFirstOn(disk', t)
    <2> SUFFICES ASSUME NEW j \in DOMAIN t, t[j].target \in {0, 1}
                 PROVE  \/ PageOn(disk', t[j].data.logCount)
                        \/ \E k \in 1 .. j - 1 : t[k].target = LastPage(t[j].data.logCount)
      BY DEF PagesFirstOn
    <2> DEFINE n == t[j].data.logCount
    <2>1. j \in 1 .. Len(q) - 1 /\ j + 1 \in DOMAIN q /\ t[j] = q[j + 1]
      BY <1>1
    <2>2. n \in 0 .. LogCapacity
      BY <1>2, <2>1, CountsInRange
    <2> DEFINE i == j + 1
    <2>3. PageOn(disk, n) \/ \E k \in 1 .. i - 1 : q[k].target = LastPage(n)
      <3>1. i \in DOMAIN q /\ q[i].target \in {0, 1} /\ n = q[i].data.logCount
        BY <2>1
      <3> HIDE DEF i, n
      <3> QED BY <3>1 DEF PagesFirst, PageIsWritten
    <2> HIDE DEF n
    <2>4. CASE PageOn(disk, n)
      BY <2>2, <2>4 DEF n
    <2>5. CASE \E k \in 1 .. j : q[k].target = LastPage(n)
      <3>1. PICK k \in 1 .. j : q[k].target = LastPage(n)
        BY <2>5
      <3>2. CASE k = 1
        BY <1>1, <1>4, <3>1, <3>2 DEF PageOn, n
      <3>3. CASE k # 1
        <4>1. k - 1 \in 1 .. j - 1 /\ t[k - 1] = q[k]
          BY <1>1, <2>1, <3>1, <3>3
        <4> QED BY <3>1, <4>1 DEF n
      <3> QED BY <3>2, <3>3
    <2>6. i - 1 = j
      BY <2>1
    <2> QED BY <2>3, <2>4, <2>5, <2>6
  <1> QED BY <1>5 DEF t

\* The card after a poll that found the end of the write.
LEMMA WriteEnded ==
  ASSUME card \in Cards, card.writeState # "IDLE", NEW outcome \in PollOutcomes,
         outcome.state = "IDLE", outcome.transfer \in BOOLEAN,
         card' = PolledCard(outcome), disk' \in DiskAfter(outcome)
  PROVE  /\ card' \in Cards /\ card'.writeState = "IDLE"
         /\ card'.initialized = card.initialized
         /\ \E content \in {disk[card.sector], card.data, Torn} :
              /\ disk' = [disk EXCEPT ![card.sector] = content]
              /\ outcome.result = "OK" => content = card.data
  <1>1. card' = [card EXCEPT !.writeState = "IDLE", !.transfer = outcome.transfer,
                             !.sector = 0, !.data = Blank]
    BY DEF PolledCard
  <1>2. 0 \in Sectors /\ Blank \in Contents
    BY Sizes DEF Sectors, Contents
  <1>3. card' \in Cards /\ card'.writeState = "IDLE" /\ card'.initialized = card.initialized
    BY <1>1, <1>2 DEF Cards, WriteStates
  <1>4. PICK content \in Written(card.sector, card.data, outcome.result) :
          disk' = [disk EXCEPT ![card.sector] = content]
    BY DEF DiskAfter
  <1>5. /\ content \in {disk[card.sector], card.data, Torn}
        /\ outcome.result = "OK" => content = card.data
    BY DEF Written
  <1> QED BY <1>3, <1>4, <1>5

\* The recorder after its head was written.
LEMMA Popping ==
  ASSUME NEW b, IsBox(b), b.queue # <<>>
  PROVE  LET c == [b EXCEPT !.queue = Tail(@), !.writing = FALSE]
         IN /\ IsBox(c) /\ c.queue = Tail(b.queue) /\ c.writing = FALSE
            /\ Same(b, c, {"queue", "writing"}) /\ Len(c.queue) = Len(b.queue) - 1
  <1> DEFINE t == Tail(b.queue)
  <1> DEFINE c == [b EXCEPT !.queue = t, !.writing = FALSE]
  <1>1. b.queue \in Seq(Entries) /\ DOMAIN b = Fields
    BY DEF IsBox
  <1>2. t \in Seq(Entries) /\ Len(t) = Len(b.queue) - 1
    BY <1>1
  <1> HIDE DEF t
  <1>3. DOMAIN c = Fields /\ c.queue = t /\ c.writing = FALSE /\ Same(b, c, {"queue", "writing"})
    BY <1>1 DEF Fields, Same
  <1>4. IsBox(c)
    BY <1>2, <1>3 DEF IsBox, Same, Fields
  <1> QED BY <1>2, <1>3, <1>4 DEF t

\* What is left of the queue of a log that is being closed.
LEMMA StillClosing ==
  ASSUME NEW b, IsBox(b), NEW c, IsBox(c), c.queue = Tail(b.queue), c.queue # <<>>,
         b.queue # <<>>, Superblock(c) = Superblock(b), EndsWithSuperblocks(b),
         GoodDisk(disk), disk' = [disk EXCEPT ![Head(b.queue).target] = Head(b.queue).data]
  PROVE  \/ EndsWithSuperblocks(c)
         \/ c.queue = <<[target |-> 1, data |-> Superblock(c)]>> /\ disk'[0] = Superblock(c)
  <1> DEFINE q == b.queue
  <1> DEFINE t == c.queue
  <1> DEFINE n == Len(q)
  <1> DEFINE sb == Superblock(b)
  <1>1. q \in Seq(Entries) /\ t = Tail(q)
    BY DEF IsBox
  <1>2. n >= 2 /\ q[n] = [target |-> 1, data |-> sb] /\ q[n - 1] = [target |-> 0, data |-> sb]
    BY DEF EndsWithSuperblocks
  <1> HIDE DEF q, t, sb
  <1>3. /\ n \in Nat /\ Len(t) = n - 1 /\ Head(q) = q[1]
        /\ \A i \in 1 .. n - 1 : t[i] = q[i + 1]
    BY <1>1, <1>2
  <1> HIDE DEF n
  <1>4. CASE n = 2
    <2>1. Head(q) = [target |-> 0, data |-> sb] /\ t[1] = [target |-> 1, data |-> sb]
      BY <1>2, <1>3, <1>4
    <2>2. Len(t) = 1 /\ t \in Seq(Entries)
      BY <1>3, <1>4 DEF IsBox, t
    <2>3. t = <<[target |-> 1, data |-> sb]>>
      BY <2>1, <2>2
    <2>4. 0 \in Sectors /\ DOMAIN disk = Sectors
      BY Sizes DEF Sectors, GoodDisk
    <2>5. disk'[0] = sb
      BY <2>1, <2>4 DEF q
    <2> QED BY <2>3, <2>5 DEF t, sb
  <1>5. CASE n >= 3
    <2>1. t[n - 1] = q[n] /\ t[n - 2] = q[n - 1]
      BY <1>3, <1>5
    <2>2. EndsWithSuperblocks(c)
      BY <1>2, <1>3, <1>5, <2>1 DEF EndsWithSuperblocks, t, sb
    <2> QED BY <2>2
  <1> QED BY <1>2, <1>3, <1>4, <1>5

\* The storage task has written the head: the recorder goes on with the rest.
LEMMA HeadWritten ==
  ASSUME IInv, WorldSide', CardSide', card'.writeState = "IDLE", card'.initialized,
         box.queue # <<>>, box.status # "ERROR", GoodDisk(disk'),
         box.status \notin {"NO_MEDIA", "UNINITIALIZED", "READY"},
         disk' = [disk EXCEPT ![Head(box.queue).target] = Head(box.queue).data],
         \A count \in 0 .. LogCapacity : PageOn(disk, count) => PageOn(disk', count),
         box' = SectorWritten(box)
  PROVE  IInv' /\ ErrorIsCaused
  <1> DEFINE head == Head(box.queue)
  <1> DEFINE popped == [box EXCEPT !.queue = Tail(@), !.writing = FALSE]
  <1>1. /\ IsBox(box) /\ Sound(box) /\ box.ok
        /\ GoodDisk(disk) /\ box.queue \in Seq(Entries) /\ PagesFirst(box.queue)
        /\ Len(box.queue) \in Nat /\ Len(box.queue) <= QueueCapacity /\ QueueCapacity \in Nat
    BY Sizes DEF IInv, BoxSide, CardSide, Sound, IsBox
  <1>2. /\ IsBox(popped) /\ popped.queue = Tail(box.queue) /\ popped.writing = FALSE
        /\ Same(box, popped, {"queue", "writing"}) /\ Len(popped.queue) = Len(box.queue) - 1
    BY <1>1, Popping
  <1>3. PagesFirstOn(disk', Tail(box.queue))
    BY <1>1, PoppedQueue
  <1>4. box' = IF box.status = "FINISHING" /\ popped.queue = <<>>
               THEN [popped EXCEPT !.status = "READY", !.armedSeen = FALSE]
               ELSE popped
    BY DEF SectorWritten
  <1> HIDE DEF popped
  <1>5. /\ popped.status = box.status /\ popped.ok = box.ok /\ popped.page = box.page
        /\ popped.samplesInBlock = box.samplesInBlock /\ popped.checkpointAt = box.checkpointAt
        /\ popped.logCount = box.logCount /\ Superblock(popped) = Superblock(box)
    BY <1>2 DEF Same, Fields, Superblock
  <1>6. PagesFirstOn(disk', popped.queue)
    BY <1>2, <1>3
  <1>7. CASE box.status = "FINISHING" /\ popped.queue = <<>>
    <2>1. box' = [popped EXCEPT !.status = "READY", !.armedSeen = FALSE]
      BY <1>4, <1>7
    <2>2. DOMAIN popped = Fields
      BY <1>2 DEF IsBox
    <2>3. /\ DOMAIN box' = Fields /\ box'.status = "READY" /\ box'.armedSeen = FALSE
          /\ Same(popped, box', {"status", "armedSeen"})
      BY <2>1, <2>2 DEF Fields, Same
    <2>4. IsBox(box')
      <3>1. "READY" \in Statuses /\ IsBox(popped)
        BY <1>2 DEF Statuses
      <3> DEFINE c == box'
      <3>2. /\ DOMAIN c = Fields /\ c.status = "READY" /\ c.armedSeen = FALSE
            /\ Same(popped, c, {"status", "armedSeen"})
        BY <2>3
      <3> HIDE DEF c
      <3>3. IsBox(c)
        BY <3>1, <3>2 DEF IsBox, Same, Fields
      <3> QED BY <3>3 DEF c
    <2>5. /\ box'.queue = <<>> /\ box'.writing = FALSE /\ box'.ok
          /\ box'.samplesInBlock = box.samplesInBlock /\ box'.logCount = box.logCount
          /\ Superblock(box') = Superblock(box)
      BY <1>1, <1>2, <1>5, <1>7, <2>3 DEF Same, Fields, Superblock
    <2>6. BoxSide'
      <3>1. Sound(box)'
        BY <1>1, <2>4, <2>5 DEF Sound, PagesFirst, IsBox
      <3> QED BY <1>1, <2>3, <2>5, <3>1 DEF BoxSide
    <2>7. disk'[0] = Superblock(box) /\ disk'[1] = Superblock(box)
      <3>1. Len(box.queue) = 1
        <4>1. Len(popped.queue) = 0
          BY <1>7
        <4> QED BY <1>1, <1>2, <4>1
      <3>2. ~EndsWithSuperblocks(box)
        BY <3>1 DEF EndsWithSuperblocks
      <3>3. /\ box.queue = <<[target |-> 1, data |-> Superblock(box)]>>
            /\ disk[0] = Superblock(box)
        BY <1>7, <3>2 DEF IInv, Closing
      <3>4. head = [target |-> 1, data |-> Superblock(box)]
        BY <3>3
      <3>5. 0 \in Sectors /\ 1 \in Sectors /\ DOMAIN disk = Sectors
        BY <1>1, Sizes DEF Sectors, GoodDisk
      <3> QED BY <3>3, <3>4, <3>5
    <2>8. CardSuperblock' = Superblock(box')
      BY <2>5, <2>7 DEF CardSuperblock, Newest
    <2>9. PageIsWritten(box.logCount)'
      <3>1. IsSuperblock(disk'[1]) /\ disk'[1].logCount = box'.logCount
        BY <2>5, <2>7 DEF IsSuperblock, Superblock
      <3> QED BY <3>1 DEF GoodDisk, PageIsWritten, PageOn
    <2>10. Writing'
      BY <2>3, <2>5, <2>9 DEF Writing
    <2>11. Closing' /\ ReadyMatchesCard' /\ ErrorIsCaused
      BY <2>3, <2>8 DEF Closing, ReadyMatchesCard, ErrorIsCaused, Superblock
    <2> QED BY <2>6, <2>10, <2>11 DEF IInv
  <1>8. CASE ~(box.status = "FINISHING" /\ popped.queue = <<>>)
    <2>1. box' = popped
      BY <1>4, <1>8
    <2>2. Sound(box)'
      <3>1. PagesFirst(box.queue)'
        BY <1>6, <2>1 DEF PagesFirst, PagesFirstOn, PageIsWritten, PageOn
      <3>2. IsBox(box)' /\ Len(box'.queue) <= QueueCapacity
        <4>1. IsBox(box')
          BY <1>2, <2>1
        <4>2. Len(box'.queue) = Len(box.queue) - 1
          BY <1>2, <2>1
        <4> QED BY <1>1, <4>1, <4>2 DEF IsBox
      <3> QED BY <3>1, <3>2 DEF Sound
    <2>3. ASSUME box.status = "RECORDING" PROVE Open(box)'
      <3>1. Open(box)
        BY <2>3 DEF IInv, BoxSide
      <3>2. RoomToClose(box) => RoomToClose(box')
        <4>1. Len(box'.queue) = Len(box.queue) - 1 /\ box'.samplesInBlock = box.samplesInBlock
          BY <1>2, <1>5, <2>1
        <4> DEFINE l == Len(box.queue)
        <4>a. l \in Nat /\ QueueCapacity \in Nat
          BY <1>1
        <4> HIDE DEF l
        <4>2. CASE box.samplesInBlock > 0
          <5>1. /\ RoomToClose(box) <=> l + 5 <= QueueCapacity
                /\ RoomToClose(box') <=> (l - 1) + 5 <= QueueCapacity
            BY <4>1, <4>2 DEF RoomToClose, l
          <5> QED BY <4>a, <5>1
        <4>3. CASE ~(box.samplesInBlock > 0)
          <5>1. /\ RoomToClose(box) <=> l + 4 <= QueueCapacity
                /\ RoomToClose(box') <=> (l - 1) + 4 <= QueueCapacity
            BY <4>1, <4>3 DEF RoomToClose, l
          <5> QED BY <4>a, <5>1
        <4> QED BY <4>2, <4>3
      <3> QED BY <1>5, <2>1, <2>2, <3>1, <3>2 DEF Open, OnItsPage, RoomToClose
    <2>4. BoxSide'
      BY <1>1, <1>5, <2>1, <2>2, <2>3 DEF BoxSide
    <2>5. Writing'
      BY <1>2, <1>5, <2>1 DEF Writing
    <2>6. Closing'
      <3> SUFFICES ASSUME box.status = "FINISHING"
                   PROVE  \/ EndsWithSuperblocks(box')
                          \/ /\ box'.queue = <<[target |-> 1, data |-> Superblock(box')]>>
                             /\ disk'[0] = Superblock(box')
        BY <1>5, <2>1 DEF Closing, EndsWithSuperblocks, Superblock
      <3>1. box'.queue # <<>>
        BY <1>8, <2>1
      <3>2. EndsWithSuperblocks(box)
        <4>1. box.queue # <<[target |-> 1, data |-> Superblock(box)]>>
          <5> DEFINE e == [target |-> 1, data |-> Superblock(box)]
          <5>1. Tail(box.queue) # <<>>
            BY <1>2, <2>1, <3>1
          <5> HIDE DEF e
          <5>2. Tail(<<e>>) = <<>>
            OBVIOUS
          <5> QED BY <5>1, <5>2 DEF e
        <4>2. box.status = "FINISHING"
          OBVIOUS
        <4> QED BY <4>1, <4>2 DEF IInv, Closing
      <3> QED BY <1>1, <1>2, <1>5, <2>1, <3>1, <3>2, StillClosing
    <2>7. ReadyMatchesCard' /\ ErrorIsCaused
      BY <1>5, <2>1 DEF ReadyMatchesCard, ErrorIsCaused
    <2> QED BY <2>4, <2>5, <2>6, <2>7 DEF IInv
  <1> QED BY <1>7, <1>8

LEMMA ServicePollKeeps == IInv /\ ServicePoll => IInv' /\ ErrorIsCaused
  <1> SUFFICES ASSUME IInv, ServicePoll PROVE IInv' /\ ErrorIsCaused
    OBVIOUS
  <1> DEFINE head == Head(box.queue)
  <1>1. /\ box.queue # <<>> /\ box.status # "ERROR" /\ box.writing
        /\ History(FALSE) /\ UNCHANGED <<state, usbConnected>>
        /\ IsBox(box) /\ Sound(box) /\ box.ok /\ card \in Cards /\ faults \in Nat
        /\ GoodDisk(disk) /\ box.queue \in Seq(Entries) /\ PagesFirst(box.queue)
    BY DEF IInv, BoxSide, CardSide, Sound, IsBox, ServicePoll
  <1>2. PICK outcome \in PollOutcomes :
          /\ disk' \in DiskAfter(outcome)
          /\ card' = PolledCard(outcome)
          /\ box' = CASE outcome.result = "OK"   -> SectorWritten(box)
                      [] outcome.result = "BUSY" -> box
                      [] OTHER -> [box EXCEPT !.writing = FALSE, !.status = "ERROR"]
          /\ Counted(outcome.result)
    BY DEF ServicePoll
  <1>3. /\ card.writeState # "IDLE" /\ card.sector = head.target /\ card.data = head.data
        /\ card.initialized /\ box.status \notin {"NO_MEDIA", "UNINITIALIZED", "READY"}
    BY <1>1 DEF IInv, Writing
  <1>4. head \in Entries /\ MayBeWritten(disk, head.target, head.data)
    BY <1>1, HeadMayBeWritten
  <1>5. /\ outcome.transfer \in BOOLEAN /\ outcome.state \in WriteStates
        /\ \/ outcome.result = "BUSY" /\ outcome.state # "IDLE"
           \/ outcome.result = "OK" /\ outcome.state = "IDLE"
           \/ Faulty(outcome.result) /\ outcome.result \notin {"OK", "BUSY"}
              /\ outcome.state = "IDLE"
    BY <1>1, <1>3, PollFacts
  <1>6. faults' \in Nat /\ (Faulty(outcome.result) => faults' > faults)
    BY <1>1, <1>2, Counting
  <1>7. WorldSide'
    BY <1>1 DEF IInv, WorldSide, History
  <1>8. CASE outcome.result = "BUSY"
    <2>1. /\ outcome.state # "IDLE" /\ disk' = disk /\ box' = box
          /\ card' = [card EXCEPT !.writeState = outcome.state, !.transfer = outcome.transfer]
      BY <1>2, <1>5, <1>8 DEF DiskAfter, PolledCard
    <2>2. /\ card' \in Cards /\ card'.sector = card.sector /\ card'.data = card.data
          /\ card'.writeState # "IDLE" /\ card'.initialized = card.initialized
      BY <1>1, <1>5, <2>1 DEF Cards
    <2>3. CardSide'
      <3>1. GoodDisk(disk)'
        BY <1>1, <2>1, SameDisk
      <3>2. (MayBeWritten(disk, card.sector, card.data))'
        BY <1>3, <1>4, <2>1, <2>2 DEF MayBeWritten, PageOn
      <3> QED BY <1>6, <2>2, <3>1, <3>2 DEF CardSide, Cards, Sectors, Contents
    <2>4. BoxSide'
      BY <1>1, <2>1, SameDisk DEF IInv, BoxSide
    <2>5. Writing' /\ Closing' /\ ReadyMatchesCard' /\ ErrorIsCaused
      BY <1>1, <1>3, <2>1, <2>2 DEF IInv, Writing, Closing, EndsWithSuperblocks, Superblock,
                                    ReadyMatchesCard, ErrorIsCaused
    <2> QED BY <1>7, <2>3, <2>4, <2>5 DEF IInv
  <1>9. CASE outcome.result # "BUSY"
    <2>1. outcome.state = "IDLE"
      BY <1>5, <1>9
    <2>2. /\ card' \in Cards /\ card'.writeState = "IDLE"
          /\ card'.initialized = card.initialized
          /\ \E content \in {disk[card.sector], card.data, Torn} :
               /\ disk' = [disk EXCEPT ![card.sector] = content]
               /\ outcome.result = "OK" => content = card.data
      BY <1>1, <1>2, <1>3, <1>5, <2>1, WriteEnded
    <2>3. PICK content \in {disk[head.target], head.data, Torn} :
            /\ disk' = [disk EXCEPT ![head.target] = content]
            /\ outcome.result = "OK" => content = head.data
      BY <1>3, <2>2
    <2> HIDE DEF head
    <2>4. /\ GoodDisk(disk')
          /\ \A count \in 0 .. LogCapacity : PageOn(disk, count) => PageOn(disk', count)
      BY <1>1, <1>4, <2>3, Rewriting
    <2>5. CardSide'
      <3>1. GoodDisk(disk)'
        BY <2>4 DEF GoodDisk, PageOn
      <3> QED BY <1>6, <2>2, <3>1 DEF CardSide, Cards, Sectors, Contents
    <2>6. CASE outcome.result = "OK"
      BY <1>1, <1>2, <1>3, <1>7, <2>2, <2>3, <2>4, <2>5, <2>6, HeadWritten DEF head
    <2>7. CASE outcome.result # "OK"
      <3> DEFINE c == [box EXCEPT !.writing = FALSE, !.status = "ERROR"]
      <3>1. box' = c
        BY <1>2, <1>9, <2>7
      <3>2. DOMAIN box = Fields
        BY <1>1 DEF IsBox
      <3>3. /\ DOMAIN c = Fields /\ c.writing = FALSE /\ c.status = "ERROR"
            /\ Same(box, c, {"writing", "status"})
        BY <3>2 DEF Fields, Same
      <3> HIDE DEF c
      <3>4. IsBox(c)
        BY <1>1, <3>3 DEF IsBox, Same, Fields, Statuses
      <3>5. c.queue = box.queue /\ c.ok = box.ok
        BY <3>3 DEF Same, Fields
      <3>6. Sound(box)'
        <4>1. PagesFirst(box.queue)'
          <5>1. box'.queue = box.queue
            BY <3>1, <3>5
          <5>2. PagesFirstOn(disk', box.queue)
            BY <1>1, <2>4, QueueOnNewDisk
          <5> QED BY <5>1, <5>2 DEF PagesFirst, PagesFirstOn, PageIsWritten, PageOn
        <4> QED BY <1>1, <3>1, <3>4, <3>5, <4>1 DEF Sound, IsBox
      <3>7. BoxSide'
        BY <1>1, <3>1, <3>3, <3>5, <3>6 DEF BoxSide
      <3>8. Writing' /\ Closing' /\ ReadyMatchesCard'
        BY <1>3, <2>2, <3>1, <3>3 DEF Writing, Closing, ReadyMatchesCard
      <3>9. ErrorIsCaused
        BY <1>5, <1>6, <1>9, <2>7 DEF ErrorIsCaused
      <3> QED BY <1>7, <2>5, <3>7, <3>8, <3>9 DEF IInv
    <2> QED BY <2>6, <2>7
  <1> QED BY <1>8, <1>9

-----------------------------------------------------------------------------
(* The host initializes the storage.                                        *)

LEMMA BlockingEnds ==
  ASSUME card \in Cards, card.initialized, NEW sector \in Sectors, NEW data,
         NEW outcome \in BlockingOutcomes(sector, data)
  PROVE  /\ outcome.content \in {disk[sector], data, Torn} /\ outcome.transfer \in BOOLEAN
         /\ outcome.result = "OK" => outcome.content = data /\ card.writeState = "IDLE"
  <1> DEFINE refused == {[result |-> r, transfer |-> card.transfer, content |-> disk[sector]] :
                           r \in StartResults(sector) \ {"OK"}}
  <1> DEFINE EndOf(r) == {[result |-> r, transfer |-> t, content |-> c] :
                            t \in {FALSE, r = "TIMEOUT"}, c \in Written(sector, data, r)}
  <1> DEFINE results == Within({"OK", "TRANSPORT_ERROR", "PROTOCOL_ERROR", "TIMEOUT"})
  <1>1. CASE outcome \in refused
    BY <1>1 DEF Cards
  <1>2. CASE outcome \notin refused
    <2>1. "OK" \in StartResults(sector)
      BY <1>2 DEF BlockingOutcomes
    <2>2. BlockingOutcomes(sector, data) = refused \cup UNION {EndOf(r) : r \in results}
      BY <2>1 DEF BlockingOutcomes
    <2> HIDE DEF EndOf, refused, results
    <2>3. PICK r \in results : outcome \in EndOf(r)
      BY <1>2, <2>2
    <2> USE DEF EndOf
    <2>4. PICK t \in {FALSE, r = "TIMEOUT"}, c \in Written(sector, data, r) :
            outcome = [result |-> r, transfer |-> t, content |-> c]
      BY <2>3
    <2>5. /\ outcome.result = r /\ outcome.content = c /\ outcome.transfer = t
          /\ t \in BOOLEAN
      BY <2>4
    <2>6. card.writeState = "IDLE"
      BY <2>1 DEF StartResults
    <2> QED BY <2>5, <2>6 DEF Written
  <1> QED BY <1>1, <1>2

\* The superblock of an empty card.
LEMMA EmptySuperblock ==
  ASSUME NEW b, IsBox(b)
  PROVE  LET c  == Reinitialized(b)
             sb == Superblock(c)
         IN /\ IsBox(c) /\ c.queue = <<>> /\ c.writing = FALSE /\ c.ok = b.ok /\ c.logCount = 0
            /\ Belongs(0, sb) /\ Belongs(1, sb) /\ sb.logCount = 0 /\ IsSuperblock(sb)
  <1> DEFINE page == BlankPage(0)
  <1> DEFINE generation == b.generation + 1
  <1> DEFINE c == [b EXCEPT !.active = NoLog, !.page = page, !.pageValid = FALSE, !.queue = <<>>,
                            !.writing = FALSE, !.logCount = 0, !.nextSector = FirstDataSector,
                            !.nextLogId = 1, !.generation = generation]
  <1>1. /\ DOMAIN b = Fields /\ generation \in Nat
        /\ FirstDataSector \in FirstDataSector .. SectorCount /\ 0 \in 0 .. LogCapacity
    <2>1. DOMAIN b = Fields /\ b.generation \in Nat
      BY DEF IsBox
    <2>2. FirstDataSector \in FirstDataSector .. SectorCount /\ 0 \in 0 .. LogCapacity
      BY Sizes
    <2> QED BY <2>1, <2>2
  <1>2. NoLog \in Logs /\ page \in Pages
    <2>1. 0 \in 0 .. CatalogPages - 1
      BY Sizes
    <2> QED BY <2>1, BlankPages, Sizes DEF NoLog, Logs
  <1>3. c = Reinitialized(b)
    BY DEF Reinitialized
  <1> HIDE DEF page, generation
  <1> DEFINE Forgotten == {"active", "page", "pageValid", "queue", "writing", "logCount",
                           "nextSector", "nextLogId", "generation"}
  <1>4. /\ DOMAIN c = Fields /\ c.active = NoLog /\ c.page = page /\ c.pageValid = FALSE
        /\ c.queue = <<>> /\ c.writing = FALSE /\ c.logCount = 0 /\ c.nextSector = FirstDataSector
        /\ c.nextLogId = 1 /\ c.generation = generation /\ Same(b, c, Forgotten)
    BY <1>1 DEF Fields, Same
  <1> HIDE DEF c
  <1>5. IsBox(c)
    <2>1. c.queue \in Seq(Entries) /\ c.nextLogId \in Nat
      BY <1>4
    <2> QED BY <1>1, <1>2, <1>4, <2>1 DEF IsBox, Same, Fields
  <1>6. c.ok = b.ok
    BY <1>4 DEF Same, Fields
  <1> DEFINE sb == Superblock(c)
  <1>7. sb \in Superblocks /\ sb.logCount = 0 /\ IsSuperblock(sb)
    BY <1>4, <1>5 DEF Superblock, Superblocks, IsBox, IsSuperblock
  <1> QED BY <1>3, <1>4, <1>5, <1>6, <1>7 DEF Belongs

LEMMA StorageInitializeKeeps == IInv /\ StorageInitialize => IInv' /\ ErrorIsCaused
  <1> SUFFICES ASSUME IInv, StorageInitialize PROVE IInv' /\ ErrorIsCaused
    OBVIOUS
  <1> DEFINE fresh == Reinitialized(box)
  <1> DEFINE sb == Superblock(fresh)
  <1>1. /\ MayInitialize /\ History(FALSE) /\ UNCHANGED <<state, usbConnected>>
        /\ IsBox(box) /\ box.ok /\ card \in Cards /\ card.initialized /\ faults \in Nat
        /\ GoodDisk(disk) /\ 0 \in Sectors /\ 1 \in Sectors /\ DOMAIN disk = Sectors
    <2>1. MayInitialize /\ History(FALSE) /\ UNCHANGED <<state, usbConnected>>
      BY DEF StorageInitialize
    <2>2. card.initialized
      BY <2>1 DEF MayInitialize
    <2>3. IsBox(box) /\ box.ok /\ card \in Cards /\ faults \in Nat /\ GoodDisk(disk)
      BY DEF IInv, BoxSide, CardSide, Sound
    <2>4. 0 \in Sectors /\ 1 \in Sectors /\ DOMAIN disk = Sectors
      BY <2>3, Sizes DEF GoodDisk, Sectors
    <2> QED BY <2>1, <2>2, <2>3, <2>4
  <1>2. /\ IsBox(fresh) /\ fresh.queue = <<>> /\ fresh.writing = FALSE /\ fresh.ok
        /\ fresh.logCount = 0 /\ Belongs(0, sb) /\ Belongs(1, sb) /\ sb.logCount = 0
        /\ IsSuperblock(sb)
    BY <1>1, EmptySuperblock
  <1>3. PICK first \in BlockingOutcomes(0, sb) :
          \/ /\ first.result # "OK"
             /\ disk' = [disk EXCEPT ![0] = first.content]
             /\ card' = [card EXCEPT !.transfer = first.transfer]
             /\ box' = [fresh EXCEPT !.status = "ERROR"]
             /\ Counted(first.result)
          \/ /\ first.result = "OK"
             /\ \E second \in BlockingOutcomes(1, sb) :
                  /\ disk' = [disk EXCEPT ![0] = sb, ![1] = second.content]
                  /\ card' = [card EXCEPT !.transfer = second.transfer]
                  /\ box' = [fresh EXCEPT !.status = IF second.result = "OK" THEN "READY"
                                                      ELSE "ERROR"]
                  /\ Counted(second.result)
    BY DEF StorageInitialize
  <1> HIDE DEF fresh
  <1>4. Sound(fresh)
    BY <1>2, Sizes DEF Sound, PagesFirst
  <1>5. WorldSide' /\ ErrorIsCaused
    BY <1>1 DEF IInv, WorldSide, History, ErrorIsCaused
  <1>6. \A d : GoodDisk(d) => MayBeWritten(d, 0, sb) /\ MayBeWritten(d, 1, sb)
    BY <1>1, <1>2 DEF MayBeWritten, PageOn
  <1> HIDE DEF sb
  <1>7. /\ first.content \in {disk[0], sb, Torn} /\ first.transfer \in BOOLEAN
        /\ first.result = "OK" => first.content = sb /\ card.writeState = "IDLE"
    BY <1>1, BlockingEnds
  <1> DEFINE Keeps(d) == \A count \in 0 .. LogCapacity : PageOn(disk, count) => PageOn(d, count)
  \* The card in either case, and the recorder with either status.
  <1>8. ASSUME NEW transfer \in BOOLEAN, card' = [card EXCEPT !.transfer = transfer],
               GoodDisk(disk'), Keeps(disk'), faults' \in Nat
        PROVE  CardSide' /\ card'.initialized /\ card'.writeState = card.writeState
    <2>1. /\ card' \in Cards /\ card'.sector = card.sector /\ card'.data = card.data
          /\ card'.writeState = card.writeState /\ card'.initialized
      BY <1>1, <1>8 DEF Cards
    <2>2. GoodDisk(disk)'
      BY <1>8 DEF GoodDisk, PageOn
    <2>3. (card.writeState # "IDLE" => MayBeWritten(disk, card.sector, card.data))'
      <3> SUFFICES ASSUME card.writeState # "IDLE"
                   PROVE  MayBeWritten(disk', card.sector, card.data)
        BY <2>1 DEF MayBeWritten, PageOn
      <3>1. MayBeWritten(disk, card.sector, card.data)
        BY DEF IInv, CardSide
      <3>2. card.sector \in {0, 1} => card.data.logCount \in 0 .. LogCapacity
        BY <3>1, BelongsKind DEF MayBeWritten, Superblocks
      <3> QED BY <1>8, <3>1, <3>2 DEF MayBeWritten
    <2> QED BY <1>8, <2>1, <2>2, <2>3 DEF CardSide, Cards, Sectors, Contents
  <1>9. ASSUME NEW status \in {"READY", "ERROR"}, box' = [fresh EXCEPT !.status = status]
        PROVE  /\ BoxSide' /\ Closing' /\ box'.status = status /\ ~box'.writing
               /\ box'.queue = <<>> /\ box'.logCount = 0 /\ Superblock(box') = sb
    <2>1. status \in Statuses
      BY DEF Statuses
    <2>2. Sound(box') /\ box'.status = status /\ Same(fresh, box', {"status"})
      BY <1>4, <1>9, <2>1, StatusSet
    <2>3. /\ box'.ok /\ box'.queue = <<>> /\ ~box'.writing /\ box'.logCount = 0
          /\ Superblock(box') = sb
      BY <1>2, <2>2 DEF Same, Fields, Superblock, sb
    <2>4. Sound(box)'
      BY <2>2, <2>3 DEF Sound, IsBox, PagesFirst
    <2> QED BY <2>2, <2>3, <2>4 DEF BoxSide, Closing
  <1>10. CASE first.result # "OK"
    <2>1. /\ disk' = [disk EXCEPT ![0] = first.content]
          /\ card' = [card EXCEPT !.transfer = first.transfer]
          /\ box' = [fresh EXCEPT !.status = "ERROR"] /\ Counted(first.result)
      BY <1>3, <1>10
    <2>2. GoodDisk(disk') /\ Keeps(disk')
      BY <1>1, <1>6, <1>7, <2>1, Rewriting
    <2>3. faults' \in Nat
      BY <1>1, <2>1, Counting
    <2> HIDE DEF Keeps
    <2>4. CardSide' /\ card'.initialized
      BY <1>7, <1>8, <2>1, <2>2, <2>3
    <2>5. BoxSide' /\ Closing' /\ box'.status = "ERROR" /\ ~box'.writing
      BY <1>9, <2>1
    <2> QED BY <1>5, <2>4, <2>5 DEF IInv, Writing, ReadyMatchesCard
  <1>11. CASE first.result = "OK"
    <2>1. PICK second \in BlockingOutcomes(1, sb) :
            /\ disk' = [disk EXCEPT ![0] = sb, ![1] = second.content]
            /\ card' = [card EXCEPT !.transfer = second.transfer]
            /\ box' = [fresh EXCEPT !.status = IF second.result = "OK" THEN "READY" ELSE "ERROR"]
            /\ Counted(second.result)
      BY <1>3, <1>11
    <2>2. /\ second.content \in {disk[1], sb, Torn} /\ second.transfer \in BOOLEAN
          /\ second.result = "OK" => second.content = sb
      BY <1>1, BlockingEnds
    <2> DEFINE half == [disk EXCEPT ![0] = sb]
    <2>3. GoodDisk(half) /\ Keeps(half) /\ half[1] = disk[1]
      <3>1. MayBeWritten(disk, 0, sb) /\ sb \in {disk[0], sb, Torn}
        BY <1>1, <1>6
      <3>2. GoodDisk(half) /\ Keeps(half)
        BY <1>1, <3>1, Rewriting
      <3>3. half[1] = disk[1]
        BY <1>1
      <3> HIDE DEF half, Keeps
      <3> QED BY <3>2, <3>3
    <2>4. disk' = [half EXCEPT ![1] = second.content]
      BY <2>1
    <2> HIDE DEF half
    <2>5. GoodDisk(disk') /\ Keeps(disk')
      BY <1>6, <2>2, <2>3, <2>4, Rewriting
    <2>6. faults' \in Nat
      BY <1>1, <2>1, Counting
    <2> HIDE DEF Keeps
    <2>7. CardSide' /\ card'.initialized /\ card'.writeState = "IDLE"
      BY <1>7, <1>8, <1>11, <2>1, <2>2, <2>5, <2>6
    <2> DEFINE status == IF second.result = "OK" THEN "READY" ELSE "ERROR"
    <2>8. status \in {"READY", "ERROR"} /\ box' = [fresh EXCEPT !.status = status]
      BY <2>1
    <2>9. status = "READY" => disk'[0] = sb /\ disk'[1] = sb
      BY <1>1, <2>1, <2>2
    <2> HIDE DEF status
    <2>10. /\ BoxSide' /\ Closing' /\ box'.status = status /\ ~box'.writing
           /\ box'.queue = <<>> /\ box'.logCount = 0 /\ Superblock(box') = sb
      BY <1>9, <2>8
    <2>11. Writing'
      BY <2>7, <2>10 DEF Writing, PageIsWritten, PageOn
    <2>12. ReadyMatchesCard'
      BY <2>9, <2>10 DEF ReadyMatchesCard, CardSuperblock, Newest, Superblock
    <2> QED BY <1>5, <2>7, <2>10, <2>11, <2>12 DEF IInv
  <1> QED BY <1>10, <1>11

-----------------------------------------------------------------------------
(* The world around, and the boot.                                          *)

LEMMA OthersKeep ==
  ASSUME IInv, UNCHANGED <<disk, card, faults, box, damaged>>, WorldSide'
  PROVE  IInv' /\ ErrorIsCaused
  <1>1. CardSide'
    <2>1. GoodDisk(disk)'
      BY SameDisk DEF IInv, CardSide
    <2>2. (card.writeState # "IDLE" => MayBeWritten(disk, card.sector, card.data))'
      BY DEF IInv, CardSide, MayBeWritten, PageOn
    <2>3. (card \in Cards /\ faults \in Nat)'
      BY DEF IInv, CardSide, Cards, Sectors, Contents
    <2> QED BY <2>1, <2>2, <2>3 DEF CardSide
  <1>2. BoxSide'
    BY SameDisk DEF IInv, BoxSide
  <1>3. Writing' /\ Closing'
    BY DEF IInv, Writing, PageIsWritten, PageOn, Closing, EndsWithSuperblocks, Superblock
  <1>4. ReadyMatchesCard'
    BY DEF IInv, ReadyMatchesCard, CardSuperblock, Superblock
  <1>5. ErrorIsCaused
    BY DEF ErrorIsCaused
  <1> QED BY <1>1, <1>2, <1>3, <1>4, <1>5 DEF IInv

LEMMA LifecycleEventKeeps == IInv /\ LifecycleEvent => IInv' /\ ErrorIsCaused
  <1> SUFFICES ASSUME IInv, LifecycleEvent PROVE IInv' /\ ErrorIsCaused
    OBVIOUS
  <1>1. PICK event \in LifecycleEvents : Lifecycle!HandleEvent(event)
    BY DEF LifecycleEvent
  <1>2. event \in Lifecycle!Events
    BY <1>1, BlackboxAssumption
  <1>3. state' \in Lifecycle!States
    BY <1>1, <1>2 DEF Lifecycle!HandleEvent, Lifecycle!Events, Lifecycle!Target, Lifecycle!States
  <1> QED BY <1>3, OthersKeep DEF LifecycleEvent, cardVars, IInv, WorldSide

LEMMA UsbChangesKeeps == IInv /\ UsbChanges => IInv' /\ ErrorIsCaused
  BY OthersKeep DEF UsbChanges, cardVars, IInv, WorldSide

LEMMA InitialBox ==
  /\ IsBox(EmptyBox) /\ EmptyBox.queue = <<>> /\ EmptyBox.writing = FALSE /\ EmptyBox.ok = TRUE
  /\ EmptyBox.status = "NO_MEDIA" /\ EmptyBox.logCount = 0 /\ DOMAIN EmptyBox = Fields
  <1> DEFINE page == BlankPage(0)
  <1>1. page \in Pages
    <2>1. 0 \in 0 .. CatalogPages - 1
      BY Sizes
    <2> QED BY <2>1, BlankPages
  <1> HIDE DEF page
  <1>2. /\ EmptyBox.status = "NO_MEDIA" /\ EmptyBox.queue = <<>> /\ EmptyBox.writing = FALSE
        /\ EmptyBox.active = NoLog /\ EmptyBox.page = page /\ EmptyBox.pageValid = FALSE
        /\ EmptyBox.samplesInBlock = 0 /\ EmptyBox.captured = 0 /\ EmptyBox.dropped = 0
        /\ EmptyBox.checkpointAt = 0 /\ EmptyBox.tail = FALSE /\ EmptyBox.armedSeen = FALSE
        /\ EmptyBox.previous = "BOOT" /\ EmptyBox.sequence = 0 /\ EmptyBox.generation = 0
        /\ EmptyBox.nextSector = FirstDataSector /\ EmptyBox.nextLogId = 1
        /\ EmptyBox.logCount = 0 /\ EmptyBox.ok = TRUE
    BY DEF EmptyBox, page
  <1>3. DOMAIN EmptyBox = Fields
    BY DEF EmptyBox, Fields
  <1>4. NoLog \in Logs /\ <<>> \in Seq(Entries) /\ "BOOT" \in Lifecycle!States
    BY Sizes DEF NoLog, Logs, Lifecycle!States
  <1>5. /\ 0 \in 0 .. DroppedLimit /\ FirstDataSector \in FirstDataSector .. SectorCount
        /\ 0 \in 0 .. LogCapacity /\ 0 \in Nat /\ 1 \in Nat
    BY Sizes
  <1>6. IsBox(EmptyBox)
    BY <1>1, <1>2, <1>3, <1>4, <1>5 DEF IsBox, Statuses
  <1> QED BY <1>2, <1>3, <1>6

\* What blackbox_initialize makes of the superblocks of a good disk.
LEMMA Mounting ==
  ASSUME NEW d, GoodDisk(d), NEW p \in {d[0], Torn}, NEW q \in {d[1], Torn}
  PROVE  LET b == MountedBox(p, q)
         IN /\ IsBox(b) /\ b.queue = <<>> /\ b.writing = FALSE /\ b.ok = TRUE
            /\ b.status \in {"UNINITIALIZED", "READY", "FULL"}
            /\ b.status = "READY" => Superblock(b) = Newest(p, q) /\ PageOn(d, b.logCount)
  <1> DEFINE sb == Newest(p, q)
  <1> DEFINE b == MountedBox(p, q)
  <1>1. IsSuperblock(sb) => sb \in Superblocks /\ PageOn(d, sb.logCount)
    <2>1. 0 \in Sectors /\ 1 \in Sectors /\ ~IsSuperblock(Torn)
      BY Sizes DEF Sectors, IsSuperblock, Torn
    <2>2. IsSuperblock(p) => p \in Superblocks /\ PageOn(d, p.logCount)
      BY <2>1, OnDisk
    <2>3. IsSuperblock(q) => q \in Superblocks /\ PageOn(d, q.logCount)
      BY <2>1, OnDisk
    <2>4. sb = p \/ sb = q
      BY DEF Newest
    <2> QED BY <2>2, <2>3, <2>4
  <1> DEFINE e == EmptyBox
  <1>2. /\ IsBox(e) /\ e.queue = <<>> /\ e.writing = FALSE /\ e.ok = TRUE /\ DOMAIN e = Fields
    BY InitialBox
  <1> HIDE DEF sb, e
  <1>3. CASE ~IsSuperblock(sb)
    <2>1. b = [e EXCEPT !.status = "UNINITIALIZED"]
      BY <1>3 DEF MountedBox, sb, e
    <2> HIDE DEF b
    <2>2. DOMAIN b = Fields /\ b.status = "UNINITIALIZED" /\ Same(e, b, {"status"})
      BY <1>2, <2>1 DEF Fields, Same
    <2>3. IsBox(b)
      BY <1>2, <2>2 DEF IsBox, Same, Fields, Statuses
    <2>4. b.queue = <<>> /\ b.writing = FALSE /\ b.ok = TRUE
      BY <1>2, <2>2 DEF Same, Fields
    <2> QED BY <2>2, <2>3, <2>4 DEF b
  <1>4. CASE IsSuperblock(sb)
    <2>1. /\ sb \in Superblocks /\ sb.generation \in Nat
          /\ sb.nextSector \in FirstDataSector .. SectorCount
          /\ sb.nextLogId \in Nat /\ sb.logCount \in 0 .. LogCapacity
      BY <1>1, <1>4 DEF Superblocks
    <2> DEFINE loaded == LoadSuperblock(sb)
    <2> DEFINE full == sb.nextSector = SectorCount \/ sb.logCount = LogCapacity
    <2> DEFINE status == IF full THEN "FULL" ELSE "READY"
    <2>2. sb.nextSector \in FirstDataSector .. SectorCount /\ sb.logCount <= LogCapacity
      BY <2>1, Sizes
    <2>3. b = [loaded EXCEPT !.status = status]
      BY <1>4, <2>2 DEF MountedBox, sb
    <2>4. loaded = [e EXCEPT !.generation = sb.generation, !.nextSector = sb.nextSector,
                             !.nextLogId = sb.nextLogId, !.logCount = sb.logCount]
      BY DEF LoadSuperblock, e
    <2> HIDE DEF loaded
    <2>5. /\ DOMAIN loaded = Fields /\ loaded.generation = sb.generation
          /\ loaded.nextSector = sb.nextSector /\ loaded.nextLogId = sb.nextLogId
          /\ loaded.logCount = sb.logCount
          /\ Same(e, loaded, {"generation", "nextSector", "nextLogId", "logCount"})
      BY <1>2, <2>4 DEF Fields, Same
    <2>6. IsBox(loaded)
      BY <1>2, <2>1, <2>5 DEF IsBox, Same, Fields
    <2>7. status \in {"FULL", "READY"}
      OBVIOUS
    <2> HIDE DEF b, status
    <2>8. DOMAIN b = Fields /\ b.status = status /\ Same(loaded, b, {"status"})
      BY <2>3, <2>5 DEF Fields, Same
    <2>9. IsBox(b)
      BY <2>6, <2>7, <2>8 DEF IsBox, Same, Fields, Statuses
    <2>10. b.queue = <<>> /\ b.writing = FALSE /\ b.ok = TRUE
      BY <1>2, <2>5, <2>8 DEF Same, Fields
    <2>11. /\ b.generation = sb.generation /\ b.nextSector = sb.nextSector
           /\ b.nextLogId = sb.nextLogId /\ b.logCount = sb.logCount
      BY <2>5, <2>8 DEF Same, Fields
    <2>12. Superblock(b) = sb
      BY <2>1, <2>11 DEF Superblock, Superblocks
    <2> QED BY <1>1, <1>4, <2>7, <2>8, <2>9, <2>10, <2>11, <2>12 DEF b, sb
  <1> QED BY <1>3, <1>4

\* The state after a boot.
Booted ==
  /\ GoodDisk(disk) /\ faults \in Nat /\ WorldSide
  /\ \E result \in InitializeResults, p \in {disk[0], Torn}, q \in {disk[1], Torn} :
       /\ card = InitializedCard(result)
       /\ box = IF result = "OK" THEN MountedBox(p, q) ELSE EmptyBox
       /\ ~damaged => p = disk[0] /\ q = disk[1]

LEMMA BootedIsGood == Booted => IInv
  <1> SUFFICES ASSUME Booted PROVE IInv
    OBVIOUS
  <1>1. GoodDisk(disk) /\ faults \in Nat /\ WorldSide
    BY DEF Booted
  <1>2. PICK result \in InitializeResults, p \in {disk[0], Torn}, q \in {disk[1], Torn} :
          /\ card = InitializedCard(result)
          /\ box = IF result = "OK" THEN MountedBox(p, q) ELSE EmptyBox
          /\ ~damaged => p = disk[0] /\ q = disk[1]
    BY DEF Booted
  <1>3. /\ card \in Cards /\ card.writeState = "IDLE"
        /\ card.initialized <=> result = "OK"
    <2>1. 0 \in Sectors /\ Blank \in Contents
      BY Sizes DEF Sectors, Contents
    <2> QED BY <1>2, <2>1 DEF InitializedCard, Cards, WriteStates
  <1>4. CardSide
    BY <1>1, <1>3 DEF CardSide
  <1>5. /\ IsBox(box) /\ box.queue = <<>> /\ box.writing = FALSE /\ box.ok = TRUE
        /\ box.status \in {"NO_MEDIA", "UNINITIALIZED", "READY", "FULL"}
        /\ box.status # "NO_MEDIA" => result = "OK"
        /\ box.status = "READY" => Superblock(box) = Newest(p, q) /\ PageOn(disk, box.logCount)
    <2>1. CASE result = "OK"
      <3>1. box = MountedBox(p, q)
        BY <1>2, <2>1
      <3> DEFINE b == MountedBox(p, q)
      <3>2. /\ IsBox(b) /\ b.queue = <<>> /\ b.writing = FALSE /\ b.ok = TRUE
            /\ b.status \in {"UNINITIALIZED", "READY", "FULL"}
            /\ b.status = "READY" => Superblock(b) = Newest(p, q) /\ PageOn(disk, b.logCount)
        BY <1>1, Mounting
      <3> HIDE DEF b
      <3>3. box = b
        BY <3>1 DEF b
      <3> QED BY <2>1, <3>2, <3>3
    <2>2. CASE result # "OK"
      <3>1. box = EmptyBox
        BY <1>2, <2>2
      <3> QED BY <2>2, <3>1, InitialBox
    <2> QED BY <2>1, <2>2
  <1>6. BoxSide
    BY <1>5, Sizes DEF BoxSide, Sound, PagesFirst
  <1>7. Writing /\ Closing
    BY <1>3, <1>5 DEF Writing, Closing, PageIsWritten
  <1>8. ReadyMatchesCard
    BY <1>2, <1>5 DEF ReadyMatchesCard, CardSuperblock
  <1> QED BY <1>1, <1>4, <1>6, <1>7, <1>8 DEF IInv

LEMMA InitHolds == Init => IInv
  <1> SUFFICES ASSUME Init PROVE IInv
    OBVIOUS
  <1>1. FreshSuperblock \in Superblocks /\ FreshSuperblock.logCount = 0
    <2> DEFINE c == [EmptyBox EXCEPT !.generation = 1]
    <2>1. DOMAIN c = Fields /\ c.generation = 1 /\ Same(EmptyBox, c, {"generation"})
      BY InitialBox DEF Fields, Same
    <2> HIDE DEF c
    <2>2. IsBox(c) /\ c.logCount = 0
      <3> DEFINE e == EmptyBox
      <3>1. IsBox(e) /\ e.logCount = 0
        BY InitialBox
      <3>2. Same(e, c, {"generation"})
        BY <2>1
      <3> HIDE DEF e
      <3>3. IsBox(c)
        BY <2>1, <3>1, <3>2 DEF IsBox, Same, Fields
      <3> QED BY <3>1, <3>2, <3>3 DEF Same, Fields
    <2>3. Superblock(c) \in Superblocks /\ Superblock(c).logCount = 0
      BY <2>2 DEF Superblock, Superblocks, IsBox
    <2> QED BY <2>3 DEF FreshSuperblock, c
  <1>2. 0 \in Sectors /\ 1 \in Sectors /\ FirstCatalogSector = 2
    BY Sizes DEF Sectors
  <1>3. GoodDisk(disk)
    <2>1. Blank \in Contents /\ FreshSuperblock \in Contents /\ ~IsSuperblock(Blank)
      BY <1>1, ContentsAre DEF IsSuperblock, Blank
    <2>2. CASE disk = [s \in Sectors |-> Blank]
      <3>1. disk \in [Sectors -> Contents] /\ \A s \in Sectors : disk[s] = Blank
        BY <2>1, <2>2
      <3> QED BY <1>2, <2>1, <3>1 DEF GoodDisk
    <2>3. CASE disk = [s \in Sectors |-> IF s < FirstCatalogSector THEN FreshSuperblock
                                         ELSE Blank]
      <3>1. /\ disk \in [Sectors -> Contents]
            /\ disk[0] = FreshSuperblock /\ disk[1] = FreshSuperblock
            /\ \A s \in Sectors : s \notin {0, 1} => disk[s] = Blank
        BY <1>2, <2>1, <2>3, Sizes DEF Sectors
      <3>2. Belongs(0, FreshSuperblock) /\ Belongs(1, FreshSuperblock)
        BY <1>1 DEF Belongs
      <3>3. \A s \in Sectors : disk[s] \in {Blank, Torn} \/ Belongs(s, disk[s])
        BY <3>1, <3>2
      <3>4. \A s \in {0, 1} : PageOn(disk, disk[s].logCount)
        BY <1>1, <3>1 DEF PageOn
      <3> QED BY <3>1, <3>3, <3>4 DEF GoodDisk
    <2> QED BY <2>2, <2>3 DEF Init
  <1>4. WorldSide /\ faults \in Nat
    BY DEF Init, WorldSide, Lifecycle!States
  <1>5. \E result \in InitializeResults, p \in {disk[0], Torn}, q \in {disk[1], Torn} :
          /\ card = InitializedCard(result)
          /\ box = IF result = "OK" THEN MountedBox(p, q) ELSE EmptyBox
          /\ ~damaged => p = disk[0] /\ q = disk[1]
    <2>1. card = InitializedCard("OK") /\ box = MountedBox(disk[0], disk[1])
      BY DEF Init
    <2>2. "OK" \in InitializeResults
      BY DEF InitializeResults
    <2> QED BY <2>1, <2>2
  <1> QED BY <1>3, <1>4, <1>5, BootedIsGood DEF Booted

LEMMA PowerLossKeeps == IInv /\ PowerLoss => IInv' /\ ErrorIsCaused
  <1> SUFFICES ASSUME IInv, PowerLoss PROVE IInv' /\ ErrorIsCaused
    OBVIOUS
  <1>1. /\ GoodDisk(disk) /\ faults \in Nat /\ IsBox(box) /\ damaged \in BOOLEAN
        /\ card.writeState # "IDLE" => MayBeWritten(disk, card.sector, card.data)
    BY DEF IInv, CardSide, BoxSide, Sound, WorldSide
  <1>2. GoodDisk(disk')
    <2>1. CASE disk' \in DiskAfterPowerLoss
      <3>1. CASE card.writeState = "IDLE"
        BY <1>1, <2>1, <3>1 DEF DiskAfterPowerLoss
      <3>2. CASE card.writeState # "IDLE"
        <4>1. PICK c \in Written(card.sector, card.data, "LOST") :
                disk' = [disk EXCEPT ![card.sector] = c]
          BY <2>1, <3>2 DEF DiskAfterPowerLoss
        <4>2. c \in {disk[card.sector], card.data, Torn}
          BY DEF Written
        <4> QED BY <1>1, <3>2, <4>1, <4>2, Rewriting
      <3> QED BY <3>1, <3>2
    <2>2. CASE disk' \in DiskAfterInterruptedInitialize
      <3> DEFINE sb == Superblock(Reinitialized(box))
      <3>1. Belongs(0, sb) /\ Belongs(1, sb) /\ sb.logCount = 0
        BY <1>1, EmptySuperblock
      <3> HIDE DEF sb
      <3>2. 0 \in Sectors /\ 1 \in Sectors
        BY Sizes DEF Sectors
      <3>3. \A d : GoodDisk(d) => MayBeWritten(d, 0, sb) /\ MayBeWritten(d, 1, sb)
        BY <3>1, <3>2 DEF MayBeWritten, PageOn
      <3>4. \/ disk' \in {[disk EXCEPT ![0] = c] : c \in Written(0, sb, "LOST")}
            \/ disk' \in {[disk EXCEPT ![0] = sb, ![1] = c] : c \in Written(1, sb, "LOST")}
        BY <2>2 DEF DiskAfterInterruptedInitialize, sb
      <3>5. CASE disk' \in {[disk EXCEPT ![0] = c] : c \in Written(0, sb, "LOST")}
        <4>1. PICK c \in {disk[0], sb, Torn} : disk' = [disk EXCEPT ![0] = c]
          BY <3>5 DEF Written
        <4> QED BY <1>1, <3>3, <4>1, Rewriting
      <3>6. CASE disk' \in {[disk EXCEPT ![0] = sb, ![1] = c] : c \in Written(1, sb, "LOST")}
        <4>1. PICK c \in {disk[1], sb, Torn} : disk' = [disk EXCEPT ![0] = sb, ![1] = c]
          BY <3>6 DEF Written
        <4> DEFINE half == [disk EXCEPT ![0] = sb]
        <4>2. GoodDisk(half)
          <5>1. MayBeWritten(disk, 0, sb) /\ sb \in {disk[0], sb, Torn}
            BY <1>1, <3>3
          <5> QED BY <1>1, <5>1, Rewriting
        <4>3. half[1] = disk[1] /\ disk' = [half EXCEPT ![1] = c]
          BY <4>1
        <4> HIDE DEF half
        <4>4. MayBeWritten(half, 1, sb) /\ c \in {half[1], sb, Torn}
          BY <3>3, <4>1, <4>2, <4>3
        <4> HIDE DEF sb
        <4> QED BY <4>2, <4>3, <4>4, Rewriting
      <3> QED BY <3>4, <3>5, <3>6
    <2> QED BY <2>1, <2>2 DEF PowerLoss
  <1> DEFINE Content(s, unreadable) == IF s \in unreadable THEN Torn ELSE disk'[s]
  <1> DEFINE Losses == IF faults < MaxFaults THEN {{}, {0}, {1}} ELSE {{}}
  <1>3. PICK result \in Within(InitializeResults), unreadable \in Losses :
          /\ card' = InitializedCard(result)
          /\ box' = IF result = "OK"
                    THEN MountedBox(Content(0, unreadable), Content(1, unreadable)) ELSE EmptyBox
          /\ faults' = IF Faulty(result) \/ unreadable # {} THEN faults + 1 ELSE faults
          /\ History(unreadable # {})
    BY DEF PowerLoss
  <1> HIDE DEF Losses
  <1> DEFINE p == Content(0, unreadable)
  <1> DEFINE q == Content(1, unreadable)
  <1>4. p \in {disk'[0], Torn} /\ q \in {disk'[1], Torn} /\ result \in InitializeResults
    BY DEF Within
  <1>5. faults' \in Nat
    <2>1. faults' = faults + 1 \/ faults' = faults
      BY <1>3
    <2> QED BY <1>1, <2>1
  <1>6. damaged' \in BOOLEAN /\ (~damaged' => unreadable = {})
    BY <1>1, <1>3 DEF History
  <1>7. ~damaged' => p = disk'[0] /\ q = disk'[1]
    BY <1>6
  <1>8. box' = IF result = "OK" THEN MountedBox(p, q) ELSE EmptyBox
    BY <1>3
  <1> HIDE DEF p, q
  <1>9. WorldSide'
    BY <1>6 DEF PowerLoss, WorldSide, Lifecycle!States
  <1>10. Booted'
    <2>1. GoodDisk(disk)'
      BY <1>2 DEF GoodDisk, PageOn
    <2>2. card' = InitializedCard(result)
      BY <1>3
    <2> DEFINE Boot(r, x, y) ==
                 /\ card' = InitializedCard(r)
                 /\ box' = IF r = "OK" THEN MountedBox(x, y) ELSE EmptyBox
                 /\ ~damaged' => x = disk'[0] /\ y = disk'[1]
    <2>3. Boot(result, p, q)
      BY <1>7, <1>8, <2>2
    <2>4. \E r \in InitializeResults, x \in {disk'[0], Torn}, y \in {disk'[1], Torn} : Boot(r, x, y)
      <3> HIDE DEF Boot
      <3> QED BY <1>4, <2>3
    <2> QED BY <1>5, <1>9, <2>1, <2>4 DEF Booted, InitializedCard, MountedBox, EmptyBox
  <1>11. IInv'
    BY <1>10, BootedIsGood, PTL
  <1>12. box'.status # "ERROR"
    <2>1. CASE result = "OK"
      BY <1>2, <1>4, <1>8, <2>1, Mounting
    <2>2. CASE result # "OK"
      BY <1>8, <2>2, InitialBox
    <2> QED BY <2>1, <2>2
  <1> QED BY <1>11, <1>12 DEF ErrorIsCaused

-----------------------------------------------------------------------------
(* What holds of every behaviour.                                           *)

LEMMA StepKeeps == IInv /\ [Next]_vars => IInv' /\ (ErrorIsCaused \/ UNCHANGED vars)
  <1> SUFFICES ASSUME IInv, [Next]_vars PROVE IInv' /\ (ErrorIsCaused \/ UNCHANGED vars)
    OBVIOUS
  <1>1. CASE Next
    BY <1>1, StartRecordingKeeps, CaptureKeeps, FinishRecordingKeeps, ServiceStartKeeps,
       ServicePollKeeps, StorageInitializeKeeps, ListLogsKeeps, ReadLogSectorKeeps,
       LifecycleEventKeeps, UsbChangesKeeps, PowerLossKeeps DEF Next
  <1>2. CASE UNCHANGED vars
    BY <1>2, OthersKeep DEF vars, IInv, WorldSide
  <1> QED BY <1>1, <1>2

LEMMA TypesFollow == IInv => TypeOK
  <1> SUFFICES ASSUME IInv PROVE TypeOK
    OBVIOUS
  <1>1. \A s \in Sectors : disk[s] \in Contents
    BY DEF IInv, CardSide, GoodDisk
  <1>2. IsBox(box) /\ Len(box.queue) <= QueueCapacity /\ box.ok
    BY DEF IInv, BoxSide, Sound
  <1>3. box.logCount <= LogCapacity
    BY <1>2, Sizes DEF IsBox
  <1> QED BY <1>1, <1>2, <1>3 DEF TypeOK, IInv, CardSide, BoxSide, WorldSide, Open, IsBox, Cards

\* For every size of the card, the catalogue and the queue, what is on the card, in
\* the queue and in the recorder is of its type, the queue never grows past its
\* array (blackbox.c checks it in queue_sector), and while a log is recorded the block
\* buffer has a place for the next sample (which encode_sample does not check).
THEOREM RecorderKeepsItsTypes == Spec => []TypeOK
  <1>1. Init => IInv
    BY InitHolds
  <1>2. IInv /\ [Next]_vars => IInv'
    BY StepKeeps
  <1> QED BY <1>1, <1>2, TypesFollow, PTL DEF Spec

\* A recorder that says READY agrees with the card, however many writes failed and however
\* often power was lost before, as long as no superblock or page was torn: the superblock
\* the next boot takes is the one in memory, so a log that was closed is counted.
THEOREM ReadyAgrees == Spec => []ReadyMatchesCard
  <1>1. Init => IInv
    BY InitHolds
  <1>2. IInv /\ [Next]_vars => IInv'
    BY StepKeeps
  <1>3. IInv => ReadyMatchesCard
    BY DEF IInv
  <1> QED BY <1>1, <1>2, <1>3, PTL DEF Spec

\* The recorder gives up only when the card fails, has no sector left or has a torn page,
\* when the host initializes it, or when a checkpoint had taken the places of the queue that
\* closing the log needs: the queue, whose capacity start_flight and capture share, never
\* is the reason before the first checkpoint of a log.
THEOREM ErrorsAreCaused == Spec => ErrorHasCause
  <1>1. Init => IInv
    BY InitHolds
  <1>2. IInv /\ [Next]_vars => IInv'
    BY StepKeeps
  <1>3. IInv /\ [Next]_vars =>
          [ box.status # "ERROR" /\ box'.status = "ERROR" =>
              \/ faults' > faults
              \/ box'.nextSector = SectorCount
              \/ box.status = "RECORDING" /\ box'.checkpointAt > CheckpointInterval
              \/ box.status = "READY" /\ disk[FirstCatalogSector + PageOf(box.logCount)] = Torn
              \/ MayInitialize ]_vars
    BY StepKeeps DEF ErrorIsCaused
  <1> QED BY <1>1, <1>2, <1>3, PTL DEF Spec, ErrorHasCause

===============================================================================
