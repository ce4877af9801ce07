------------------------------- MODULE Blackbox -------------------------------
(***************************************************************************)
(* The flight blackbox: app/blackbox.c, the capture policy of              *)
(* app/flight_diagnostics.c, the storage task and the storage commands of  *)
(* app/usb_command_processor.c, over the SD card.                          *)
(*                                                                         *)
(* The flight task (Capture, FinishRecording), the storage task (Service)  *)
(* and the USB task (StorageInitialize, LogInformation) run one after the  *)
(* other on one scheduler; the card works on its own, and power may be     *)
(* lost between any two steps and in the middle of a write.                *)
(*                                                                         *)
(* A sector holds a superblock, a page of the catalogue or a block of a    *)
(* log; of a block the model keeps its type, its log, its number in the    *)
(* log and the counts it carries.                                          *)
(***************************************************************************)
EXTENDS Sequences, FiniteSetsExt, SdCard

CONSTANTS
  QueueCapacity,       \* BLACKBOX_QUEUE_CAPACITY
  CatalogPages,        \* BLACKBOX_CATALOG_PAGE_COUNT
  EntriesPerPage,      \* BLACKBOX_CATALOG_ENTRIES_PER_PAGE
  SamplesPerBlock,     \* BLACKBOX_SAMPLES_PER_BLOCK
  CheckpointInterval,  \* BLACKBOX_CHECKPOINT_SAMPLE_INTERVAL
  ConfigurationChunks, \* sectors the configuration snapshot takes
  DroppedLimit,        \* where the count of dropped samples saturates (UINT64_MAX)
  LifecycleEvents,     \* model bound: the lifecycle events that happen
  MaxSamples,          \* model bound: samples captured in one log
  MaxGeneration,       \* model bound: generations of the superblock
  MaxBoots             \* model bound: power losses

VARIABLES
  state,         \* the lifecycle
  usbConnected,  \* firmware_usb_connected
  box,           \* blackbox_t, lost with the power
  boots,         \* model bound
  damaged        \* history: a superblock or a page was torn, or unreadable at a boot

vars == <<disk, card, faults, state, usbConnected, box, boots, damaged>>

Lifecycle == INSTANCE SystemState

ASSUME BlackboxAssumption ==
  /\ {CatalogPages, EntriesPerPage, SamplesPerBlock, CheckpointInterval} \subseteq Nat \ {0}
  /\ {DroppedLimit, MaxSamples, MaxGeneration, MaxBoots} \subseteq Nat
  /\ ConfigurationChunks \in 0 .. 2
  /\ LifecycleEvents \subseteq Lifecycle!Events
  \* Starting a flight and closing it at once fit in the queue.
  /\ QueueCapacity \in Nat /\ QueueCapacity >= ConfigurationChunks + 8
  /\ SectorCount > 2 + CatalogPages

Statuses == {"NO_MEDIA", "UNINITIALIZED", "READY", "RECORDING", "FINISHING", "FULL", "ERROR"}

FirstCatalogSector == 2
FirstDataSector    == FirstCatalogSector + CatalogPages
LogCapacity        == CatalogPages * EntriesPerPage
Slots              == 0 .. EntriesPerPage - 1

NoLog == [id |-> 0, start |-> 0, end |-> 0, samples |-> 0, dropped |-> 0, complete |-> FALSE]

BlankPage(index) == [kind |-> "page", index |-> index, logs |-> [s \in Slots |-> NoLog]]

Superblock(b) ==
  [kind |-> "super", generation |-> b.generation, nextSector |-> b.nextSector,
   nextLogId |-> b.nextLogId, logCount |-> b.logCount]

Block(b, type, items, dropped) ==
  [kind |-> type, log |-> b.active.id, sequence |-> b.sequence,
   items |-> items, dropped |-> dropped]

(***************************************************************************)
(* The queue of sectors.  "ok" is what the last helper returned; the steps *)
(* of a sequence stop at the first that fails and leave what was queued.   *)
(***************************************************************************)
QueueSector(b, target, data) ==
  IF ~b.ok \/ Len(b.queue) >= QueueCapacity
  THEN [b EXCEPT !.ok = FALSE]
  ELSE [b EXCEPT !.queue = Append(@, [target |-> target, data |-> data])]

AllocateAndQueue(b, type, items, dropped) ==
  LET q == QueueSector(b, b.nextSector, Block(b, type, items, dropped))
  IN IF b.nextSector >= SectorCount \/ ~q.ok
     THEN [b EXCEPT !.sequence = @ + 1, !.ok = FALSE]
     ELSE [q EXCEPT !.sequence = @ + 1, !.active.end = b.nextSector, !.nextSector = @ + 1]

EnqueueCatalogPage(b) == QueueSector(b, FirstCatalogSector + b.page.index, b.page)

EnqueueSuperblocks(b) == QueueSector(QueueSector(b, 0, Superblock(b)), 1, Superblock(b))

\* The entry of the active log, then its page, then both superblocks.
EnqueueMetadata(b) ==
  EnqueueSuperblocks(EnqueueCatalogPage(
    [b EXCEPT !.page.logs[(b.logCount - 1) % EntriesPerPage] = b.active]))

(***************************************************************************)
(* The catalogue page in memory.                                           *)
(***************************************************************************)
IsPage(content, index) == content.kind = "page" /\ content.index = index

\* The page as it is after a load, given the result of the read if one is made.
LoadCatalogPage(b, index, result) ==
  LET content == disk[FirstCatalogSector + index]
  IN IF b.pageValid /\ b.page.index = index THEN [b EXCEPT !.ok = TRUE]
     ELSE IF result = "OK" /\ IsPage(content, index)
     THEN [b EXCEPT !.page = content, !.pageValid = TRUE, !.ok = TRUE]
     ELSE [b EXCEPT !.page = BlankPage(0), !.pageValid = FALSE, !.ok = FALSE]

\* The results the read can end with: none is made when the page is in memory.
PageReads(b, index) ==
  IF b.pageValid /\ b.page.index = index THEN {"OK"}
  ELSE ReadResults(FirstCatalogSector + index)

PageOf(index) == index \div EntriesPerPage


(***************************************************************************)
(* Recording a flight.                                                     *)
(***************************************************************************)
\* Wrong on purpose: the page of the catalogue is always a new one.
StartPageFresh(b, result) ==
  IF b.logCount >= LogCapacity \/ b.nextSector >= SectorCount \/ b.queue # <<>>
  THEN [b EXCEPT !.ok = FALSE]
  ELSE [b EXCEPT !.page = BlankPage(PageOf(b.logCount)), !.pageValid = TRUE]

\* start_flight up to the page of the catalogue that the flight goes to.
StartPage(b, result) ==
  IF b.logCount >= LogCapacity \/ b.nextSector >= SectorCount \/ b.queue # <<>>
  THEN [b EXCEPT !.ok = FALSE]
  ELSE IF b.logCount % EntriesPerPage = 0
  THEN [b EXCEPT !.page = BlankPage(PageOf(b.logCount)), !.pageValid = TRUE]
  ELSE LoadCatalogPage(b, PageOf(b.logCount), result)

StartReads(b) ==
  IF b.logCount >= LogCapacity \/ b.logCount % EntriesPerPage = 0 THEN {"OK"}
  ELSE PageReads(b, PageOf(b.logCount))

\* The header, then the chunks of the configuration; the first failure ends it.
ConfigurationBlock(b, chunk) ==
  IF ~b.ok \/ chunk > ConfigurationChunks THEN b
  ELSE AllocateAndQueue(b, "configuration", 1, 0)

StartBlocks(b) ==
  ConfigurationBlock(ConfigurationBlock(AllocateAndQueue(b, "header", 1, 0), 1), 2)

StartFlight(b, result) ==
  LET paged  == StartPage([b EXCEPT !.sequence = 0], result)
      opened == [paged EXCEPT
                   !.captured = 0, !.dropped = 0, !.logCount = @ + 1, !.nextLogId = @ + 1,
                   !.active = [NoLog EXCEPT !.id = paged.nextLogId, !.start = paged.nextSector]]
      blocks == StartBlocks(opened)
      queued == EnqueueMetadata([blocks EXCEPT !.generation = @ + 1])
  IN IF ~paged.ok THEN paged
     ELSE IF ~blocks.ok THEN blocks
     ELSE IF ~queued.ok THEN queued
     ELSE [queued EXCEPT !.checkpointAt = CheckpointInterval, !.samplesInBlock = 0,
                         !.armedSeen = FALSE, !.tail = FALSE, !.status = "RECORDING"]

Checkpoint(b) ==
  IF b.captured < b.checkpointAt \/ Len(b.queue) > QueueCapacity - 3 THEN b
  ELSE [EnqueueMetadata([b EXCEPT !.active.samples = b.captured, !.active.dropped = b.dropped,
                                  !.generation = @ + 1])
          EXCEPT !.checkpointAt = @ + CheckpointInterval]

FlushSampleBlock(b) ==
  LET flushed == AllocateAndQueue(b, "samples", b.samplesInBlock, 0)
  IN IF b.samplesInBlock = 0 THEN b
     ELSE IF flushed.ok THEN [flushed EXCEPT !.samplesInBlock = 0] ELSE flushed

FinishFlight(b) ==
  LET flushed == FlushSampleBlock(b)
      footed  == AllocateAndQueue(flushed, "footer", b.captured, b.dropped)
      closed  == EnqueueMetadata([footed EXCEPT !.active.samples = b.captured,
                                                !.active.dropped = b.dropped,
                                                !.active.complete = TRUE,
                                                !.generation = @ + 1])
  IN IF ~flushed.ok THEN [flushed EXCEPT !.status = "ERROR"]
     ELSE IF ~footed.ok THEN [footed EXCEPT !.status = "ERROR"]
     ELSE [closed EXCEPT !.status = IF closed.ok THEN "FINISHING" ELSE "ERROR"]

AddDropped(b, count) ==
  [b EXCEPT !.dropped = IF @ + count > DroppedLimit THEN DroppedLimit ELSE @ + count]

\* encode_sample into the next place of the block: of the sample only that it
\* is there.
EncodeSample(b) == [b EXCEPT !.samplesInBlock = @ + 1, !.captured = @ + 1]

\* Wrong on purpose: the block is written only when a third sample is in it.
TakeSampleUnflushed(b) ==
  LET taken   == EncodeSample(b)
      flushed == IF taken.samplesInBlock > SamplesPerBlock THEN FlushSampleBlock(taken) ELSE taken
  IN IF Len(b.queue) >= QueueCapacity - 4 THEN AddDropped(b, 1)
     ELSE IF ~flushed.ok THEN [flushed EXCEPT !.status = "ERROR"]
     ELSE Checkpoint(flushed)

\* Wrong on purpose: one place less is kept free for closing the log.
TakeSampleLate(b) ==
  LET taken   == EncodeSample(b)
      flushed == IF taken.samplesInBlock >= SamplesPerBlock THEN FlushSampleBlock(taken) ELSE taken
  IN IF Len(b.queue) > QueueCapacity - 4 THEN AddDropped(b, 1)
     ELSE IF ~flushed.ok THEN [flushed EXCEPT !.status = "ERROR"]
     ELSE Checkpoint(flushed)

\* The sample of a period: dropped when the queue is nearly full.
TakeSample(b) ==
  LET taken   == EncodeSample(b)
      flushed == IF taken.samplesInBlock >= SamplesPerBlock THEN FlushSampleBlock(taken) ELSE taken
  IN IF Len(b.queue) >= QueueCapacity - 4 THEN AddDropped(b, 1)
     ELSE IF ~flushed.ok THEN [flushed EXCEPT !.status = "ERROR"]
     ELSE Checkpoint(flushed)

\* The tail after a disarm: started, running, cancelled by another arming.
TailAfter(b) ==
  IF state = "ARMED" THEN FALSE
  ELSE b.tail \/ (b.armedSeen /\ state = "DISARMED")

\* A change of the lifecycle forces one sample and restarts the sampling clock.
PeriodsDue(b, periods) == IF state # b.previous THEN 1 ELSE periods

\* blackbox_capture while recording: "periods" of the sampling interval have
\* passed, "over" says that the tail's second has passed.
Record(b, periods, over) ==
  LET seen    == [b EXCEPT !.armedSeen = @ \/ state = "ARMED", !.tail = TailAfter(b)]
      stop    == state = "FAULT" \/ (seen.tail /\ over)
      due     == PeriodsDue(b, periods)
      counted == IF due > 1 THEN AddDropped(seen, due - 1) ELSE seen
      sampled == IF due > 0 \/ stop THEN TakeSample(counted) ELSE counted
  IN IF sampled.status = "ERROR" THEN sampled
     ELSE [(IF stop THEN FinishFlight(sampled) ELSE sampled) EXCEPT !.previous = state]

Settled(b) == [b EXCEPT !.ok = TRUE]

(***************************************************************************)
(* blackbox_initialize: the newest valid superblock of those that can be   *)
(* read; with the same generation in both, the first.                      *)
(***************************************************************************)
IsSuperblock(content) == content.kind = "super"

Newest(primary, backup) ==
  IF IsSuperblock(primary) /\ ~(IsSuperblock(backup) /\ backup.generation > primary.generation)
  THEN primary ELSE backup

EmptyBox ==
  [status |-> "NO_MEDIA", queue |-> <<>>, writing |-> FALSE, active |-> NoLog,
   page |-> BlankPage(0), pageValid |-> FALSE, samplesInBlock |-> 0, captured |-> 0,
   dropped |-> 0, checkpointAt |-> 0, tail |-> FALSE, armedSeen |-> FALSE,
   previous |-> "BOOT", sequence |-> 0, generation |-> 0, nextSector |-> FirstDataSector,
   nextLogId |-> 1, logCount |-> 0, ok |-> TRUE]

LoadSuperblock(sb) ==
  [EmptyBox EXCEPT !.generation = sb.generation, !.nextSector = sb.nextSector,
                   !.nextLogId = sb.nextLogId, !.logCount = sb.logCount]

\* "primary" and "backup" are what the reads of sectors 0 and 1 gave.
MountedBox(primary, backup) ==
  LET newest  == Newest(primary, backup)
      loaded  == LoadSuperblock(newest)
      inRange == newest.nextSector \in FirstDataSector .. SectorCount /\ newest.logCount <= LogCapacity
      full    == newest.nextSector = SectorCount \/ newest.logCount = LogCapacity
  IN IF ~IsSuperblock(newest) THEN [EmptyBox EXCEPT !.status = "UNINITIALIZED"]
     ELSE [loaded EXCEPT !.status = IF ~inRange THEN "ERROR" ELSE IF full THEN "FULL" ELSE "READY"]

(***************************************************************************)
(* Initial states: a card that has never been used, or one initialized by  *)
(* the host.                                                               *)
(***************************************************************************)
FreshSuperblock == Superblock([EmptyBox EXCEPT !.generation = 1])

Init ==
  /\ disk \in {[s \in Sectors |-> Blank],
               [s \in Sectors |-> IF s < FirstCatalogSector THEN FreshSuperblock ELSE Blank]}
  /\ card = InitializedCard("OK")
  /\ faults = 0
  /\ state = "INITIALIZING"
  /\ usbConnected = FALSE
  /\ box = MountedBox(disk[0], disk[1])
  /\ boots = 0
  /\ damaged = FALSE

\* History, for the steps that change the card.
History(misread) ==
  damaged' = (damaged \/ misread
                \/ \E s \in 0 .. FirstDataSector - 1 : disk'[s] = Torn /\ disk[s] # Torn)

(***************************************************************************)
(* The flight task: flight_diagnostics_capture.                            *)
(***************************************************************************)
\* A host on the USB keeps the recorder closed.  The two seconds the host is
\* given to appear are a delay of the first sample, which may come at any time.
RecordingAllowed == ~usbConnected

MustFinish == usbConnected /\ box.status = "RECORDING"

\* The first sample starts a log; the sampling clock starts with it.
StartRecording ==
  /\ RecordingAllowed
  /\ box.status = "READY"
  /\ state # "FAULT"
  /\ box.generation < MaxGeneration
  /\ \E result \in StartReads(box) :
       LET started == StartFlight(box, result)
           full    == started.logCount >= LogCapacity \/ started.nextSector >= SectorCount
       IN /\ box' = IF started.ok THEN Settled(Record(started, 1, FALSE))
                    ELSE [Settled(started) EXCEPT !.status = IF full THEN "FULL" ELSE "ERROR"]
          /\ Counted(result)
  /\ UNCHANGED <<disk, card, state, usbConnected, boots, damaged>>

\* A sample is due: the state changed, periods have passed, the tail is over.
Capture ==
  /\ RecordingAllowed
  /\ box.status = "RECORDING"
  /\ \E periods \in 0 .. 2, over \in BOOLEAN :
       /\ over => box.tail
       /\ state # box.previous \/ state = "FAULT" \/ over \/ periods > 0
       /\ box.captured < MaxSamples \/ over \/ state = "FAULT"
       /\ box' = Settled(Record(box, periods, over))
  /\ UNCHANGED <<cardVars, state, usbConnected, boots, damaged>>

\* A host has appeared while a log is open.
FinishRecording ==
  /\ MustFinish
  /\ box' = Settled(FinishFlight(box))
  /\ UNCHANGED <<cardVars, state, usbConnected, boots, damaged>>

(***************************************************************************)
(* The storage task: blackbox_service, one step of one write.              *)
(***************************************************************************)
ServiceStart ==
  /\ box.queue # <<>> /\ box.status # "ERROR" /\ ~box.writing
  /\ \E result \in StartResults(Head(box.queue).target) :
       /\ card' = StartedCard(Head(box.queue).target, Head(box.queue).data, result)
       /\ box' = CASE result = "OK"   -> [box EXCEPT !.writing = TRUE]
                   [] result = "BUSY" -> box
                   [] OTHER           -> [box EXCEPT !.status = "ERROR"]
       /\ Counted(result)
  /\ UNCHANGED <<disk, state, usbConnected, boots, damaged>>

\* Wrong on purpose: a closed log is taken for written after its first sector.
SectorWrittenEarly(b) ==
  LET popped == [b EXCEPT !.queue = Tail(@), !.writing = FALSE]
  IN IF b.status = "FINISHING"
     THEN [popped EXCEPT !.status = "READY", !.armedSeen = FALSE]
     ELSE popped

\* The sector at the head has been written: the flight is over when it was the last.
SectorWritten(b) ==
  LET popped == [b EXCEPT !.queue = Tail(@), !.writing = FALSE]
  IN IF b.status = "FINISHING" /\ popped.queue = <<>>
     THEN [popped EXCEPT !.status = "READY", !.armedSeen = FALSE]
     ELSE popped

ServicePoll ==
  /\ box.queue # <<>> /\ box.status # "ERROR" /\ box.writing
  /\ \E outcome \in PollOutcomes :
       /\ disk' \in DiskAfter(outcome)
       /\ card' = PolledCard(outcome)
       /\ box' = CASE outcome.result = "OK"   -> SectorWritten(box)
                   [] outcome.result = "BUSY" -> box
                   [] OTHER -> [box EXCEPT !.writing = FALSE, !.status = "ERROR"]
       /\ Counted(outcome.result)
  /\ History(FALSE)
  /\ UNCHANGED <<state, usbConnected, boots>>

(***************************************************************************)
(* The USB task: the storage commands, accepted while DISARMED.            *)
(***************************************************************************)
HostMayUseStorage == usbConnected /\ state = "DISARMED"

\* blackbox_storage_initialize up to the writes: the memory forgets the logs,
\* the queue and the write that may be under way.
Reinitialized(b) ==
  [b EXCEPT !.active = NoLog, !.page = BlankPage(0), !.pageValid = FALSE, !.queue = <<>>,
            !.writing = FALSE, !.logCount = 0, !.nextSector = FirstDataSector,
            !.nextLogId = 1, !.generation = @ + 1]

MayInitialize ==
  /\ HostMayUseStorage
  /\ card.initialized
  /\ box.status \notin {"NO_MEDIA", "RECORDING", "FINISHING"}
  /\ box.generation < MaxGeneration

StorageInitialize ==
  /\ MayInitialize
  /\ LET fresh == Reinitialized(box)
         sb    == Superblock(fresh)
     IN \E first \in BlockingOutcomes(0, sb) :
          \/ /\ first.result # "OK"
             /\ disk' = [disk EXCEPT ![0] = first.content]
             /\ card' = [card EXCEPT !.transfer = first.transfer]
             /\ box' = [fresh EXCEPT !.status = "ERROR"]
             /\ Counted(first.result)
          \/ /\ first.result = "OK"
             /\ \E second \in BlockingOutcomes(1, sb) :
                  /\ disk' = [disk EXCEPT ![0] = sb, ![1] = second.content]
                  /\ card' = [card EXCEPT !.transfer = second.transfer]
                  /\ box' = [fresh EXCEPT !.status = IF second.result = "OK" THEN "READY" ELSE "ERROR"]
                  /\ Counted(second.result)
  /\ History(FALSE)
  /\ UNCHANGED <<state, usbConnected, boots>>

\* blackbox_log_information: the page of the log takes the place of the one in
\* memory; an entry out of the range of the card is no log.
LogInformation(b, index, result) ==
  LET loaded == LoadCatalogPage(b, PageOf(index), result)
      log    == loaded.page.logs[index % EntriesPerPage]
  IN IF ~loaded.ok THEN loaded
     ELSE [loaded EXCEPT !.ok = /\ log.id # 0
                                /\ FirstDataSector <= log.start
                                /\ log.start <= log.end
                                /\ log.end < SectorCount]

\* The information of each log from "offset" to "last", the first there is none of
\* at the latest.  A page that was in memory is used until another takes its place.
\* (In UNINITIALIZED, where a list is also answered, there is no log.)
ListLogs ==
  /\ HostMayUseStorage
  /\ box.status \in {"READY", "FULL"}
  /\ \E offset \in 0 .. box.logCount - 1 : \E last \in offset .. box.logCount - 1 :
       \E result \in PageReads(box, PageOf(offset)) :
         LET cached(i) == IF PageOf(i) = PageOf(offset) THEN box
                          ELSE [box EXCEPT !.pageValid = FALSE]
             listed(i) == LogInformation(cached(i), i, result)
         IN /\ \A i \in offset .. last - 1 : listed(i).ok
            /\ box' = Settled(listed(last))
            /\ Counted(result)
  /\ UNCHANGED <<disk, card, state, usbConnected, boots, damaged>>

\* The identifier of a log is its index plus one; the sector is then read.
ReadLogSector ==
  /\ HostMayUseStorage
  /\ box.status \in {"READY", "FULL"}
  /\ \E id \in 1 .. box.nextLogId - 1 :
       /\ id - 1 < box.logCount
       /\ \E result \in PageReads(box, PageOf(id - 1)) :
            /\ box' = Settled(LogInformation(box, id - 1, result))
            /\ Counted(result)
  /\ UNCHANGED <<disk, card, state, usbConnected, boots, damaged>>

(***************************************************************************)
(* The world around: the lifecycle, the cable, the power.                  *)
(***************************************************************************)
LifecycleEvent ==
  /\ \E event \in LifecycleEvents : Lifecycle!HandleEvent(event)
  /\ UNCHANGED <<cardVars, usbConnected, box, boots, damaged>>

UsbChanges ==
  /\ usbConnected' = ~usbConnected
  /\ UNCHANGED <<cardVars, state, box, boots, damaged>>

\* What a power loss in the middle of StorageInitialize leaves.
DiskAfterInterruptedInitialize ==
  IF ~MayInitialize \/ "OK" \notin StartResults(0) THEN {}
  ELSE LET sb == Superblock(Reinitialized(box))
       IN {[disk EXCEPT ![0] = c] : c \in Written(0, sb, "LOST")}
            \cup {[disk EXCEPT ![0] = sb, ![1] = c] : c \in Written(1, sb, "LOST")}

\* Power is lost and returns: the memory is gone, the card is mounted again.
\* Either superblock may be unreadable at that boot.
PowerLoss ==
  /\ boots < MaxBoots
  /\ disk' \in DiskAfterPowerLoss \cup DiskAfterInterruptedInitialize
  /\ \E result \in Within(InitializeResults),
       unreadable \in IF faults < MaxFaults THEN {{}, {0}, {1}} ELSE {{}} :
       LET content(s) == IF s \in unreadable THEN Torn ELSE disk'[s]
       IN /\ unreadable # {} => result = "OK"
          /\ card' = InitializedCard(result)
          /\ box' = IF result = "OK" THEN MountedBox(content(0), content(1)) ELSE EmptyBox
          /\ faults' = IF Faulty(result) \/ unreadable # {} THEN faults + 1 ELSE faults
          /\ History(unreadable # {})
  /\ boots' = boots + 1
  /\ state' = "INITIALIZING"
  /\ usbConnected' = FALSE

Next ==
  \/ StartRecording \/ Capture \/ FinishRecording
  \/ ServiceStart \/ ServicePoll
  \/ StorageInitialize \/ ListLogs \/ ReadLogSector
  \/ LifecycleEvent \/ UsbChanges \/ PowerLoss

Spec == Init /\ [][Next]_vars

(***************************************************************************)
(* What a reader of the card finds: the logs of the catalogue that the     *)
(* newest superblock counts, and decode_log of the host tools.             *)
(***************************************************************************)
CardSuperblock == Newest(disk[0], disk[1])

CatalogEntry(index) ==
  LET page == disk[FirstCatalogSector + PageOf(index)]
  IN IF IsPage(page, PageOf(index))
     THEN page.logs[index % EntriesPerPage] ELSE NoLog

ListedLogs ==
  IF IsSuperblock(CardSuperblock) THEN 0 .. CardSuperblock.logCount - 1 ELSE {}

BlockTypes == {"header", "configuration", "samples", "footer"}

\* Every sector is a block of this log, the first its header.
DecodeLog(log) ==
  /\ \A s \in log.start .. log.end : disk[s].kind \in BlockTypes /\ disk[s].log = log.id
  /\ disk[log.start].kind = "header"

\* The blocks are in sequence, and the footer and the catalogue count the
\* samples the blocks hold.
Consistent(log) ==
  LET blocks == {s \in log.start .. log.end : disk[s].kind = "samples"}
  IN /\ \A s \in log.start .. log.end : disk[s].sequence = s - log.start
     /\ disk[log.end].kind = "footer"
     /\ disk[log.end].items = log.samples
     /\ disk[log.end].dropped = log.dropped
     /\ MapThenSumSet(LAMBDA s : disk[s].items, blocks) = log.samples

Readable(index) ==
  /\ index \in ListedLogs
  /\ CatalogEntry(index).complete
  /\ DecodeLog(CatalogEntry(index))

\* A complete log that the superblock in force places before the free sectors.
Durable(index) ==
  Readable(index) /\ CatalogEntry(index).end < CardSuperblock.nextSector

\* ... and so does each of the two superblocks.
DurableTwice(index) ==
  /\ Durable(index)
  /\ \A s \in {0, 1} : /\ IsSuperblock(disk[s])
                       /\ index < disk[s].logCount
                       /\ CatalogEntry(index).end < disk[s].nextSector

(***************************************************************************)
(* Properties.                                                             *)
(***************************************************************************)
Logs == [id : Nat, start : Nat, end : Nat, samples : Nat, dropped : 0 .. DroppedLimit,
         complete : BOOLEAN]

Contents ==
  {Blank, Torn}
    \cup [kind : {"super"}, generation : Nat, nextSector : FirstDataSector .. SectorCount,
          nextLogId : Nat, logCount : 0 .. LogCapacity]
    \cup [kind : {"page"}, index : 0 .. CatalogPages - 1, logs : [Slots -> Logs]]
    \cup [kind : BlockTypes, log : Nat, sequence : Nat, items : Nat, dropped : 0 .. DroppedLimit]

\* The state is of its type, the queue stays within its array, and while a log is
\* recorded the block buffer has a place for the next sample.  (A recorder that
\* gave up with a full block keeps it: start_flight empties the block.)
TypeOK ==
  /\ \A s \in Sectors : disk[s] \in Contents
  /\ card \in [initialized : BOOLEAN, writeState : WriteStates, transfer : BOOLEAN,
               sector : Sectors, data : Contents]
  /\ state \in Lifecycle!States
  /\ usbConnected \in BOOLEAN
  /\ damaged \in BOOLEAN
  /\ box.status \in Statuses
  /\ Len(box.queue) <= QueueCapacity
  /\ box.status = "RECORDING" => box.samplesInBlock < SamplesPerBlock
  /\ box.nextSector \in FirstDataSector .. SectorCount
  /\ box.logCount <= LogCapacity
  /\ box.ok

\* When the recorder says READY, the superblock a boot would use is the one in
\* memory: a log that has been closed needs no more writes.  (A superblock that
\* could not be read at the boot may be the newer one.)
ReadyMatchesCard ==
  box.status = "READY" /\ ~damaged => CardSuperblock = Superblock(box)

\* A complete log that a superblock on the card counts and places before the
\* free sectors is consistent, and stays so through later flights, failures and
\* power losses, until the host initializes the storage.  Two exceptions: the
\* one copy of its catalogue page is torn, or a superblock has been lost while
\* the other was from before the log was closed.
DurableLogsStay ==
  [][ \A index \in 0 .. LogCapacity - 1 :
        Durable(index) =>
          \/ /\ Durable(index)'
             /\ CatalogEntry(index)' = CatalogEntry(index)
             /\ Consistent(CatalogEntry(index))'
          \/ disk'[FirstCatalogSector + PageOf(index)] = Torn
          \/ damaged' /\ ~DurableTwice(index)
          \/ MayInitialize ]_vars

\* The recorder gives up only for a reason: the card failed or a page of the
\* catalogue is unreadable, the card has no sector left for the log, the log
\* was closed behind a checkpoint that had taken its place in the queue, or
\* the host initialized the storage while the card was busy, be it with a write
\* of the queue or with a transfer nobody collected.
ErrorHasCause ==
  [][ box.status # "ERROR" /\ box'.status = "ERROR" =>
        \/ faults' > faults
        \/ box'.nextSector = SectorCount
        \/ box.status = "RECORDING" /\ box'.checkpointAt > CheckpointInterval
        \/ box.status = "READY" /\ disk[FirstCatalogSector + PageOf(box.logCount)] = Torn
        \/ MayInitialize ]_vars

\* docs/blackbox.md: the recorder "never silently overwrites an earlier flight".
CompletedLogsStay ==
  [][ \A index \in 0 .. LogCapacity - 1 :
        Readable(index) => DecodeLog(CatalogEntry(index))' \/ MayInitialize ]_vars

=============================================================================
