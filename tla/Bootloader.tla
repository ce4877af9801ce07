------------------------------ MODULE Bootloader ------------------------------
(***************************************************************************)
(* The resident loader (firmware/bootloader) and the host tool that sends   *)
(* it an image (host_tools/.../usb_flash.py): one line at a time, each       *)
(* answered.  Power or the cable may be lost at any moment, in the middle of *)
(* a flash operation too; a flash call may fail part of the way; the host    *)
(* may be killed or run out of time, and another one starts with what the   *)
(* first left behind: a line not yet handled, half a line, an answer.        *)
(*                                                                         *)
(* The checksum is taken to tell every image from everything else.          *)
(***************************************************************************)
EXTENDS Naturals, Sequences

CONSTANTS
  ShortImages, LongImages,   \* two words, three words
  BadImages,                 \* those whose vectors point nowhere
  Blank, Mixed,              \* an erased word, and one cut off or written over
  MaxStale                   \* bound: answers to an earlier host, still to come

Images == ShortImages \cup LongImages

ASSUME BootloaderConstants ==
  /\ ShortImages \cap LongImages = {} /\ BadImages \subseteq Images
  /\ Blank # Mixed /\ {Blank, Mixed} \cap Images = {}
  /\ {Blank, Mixed} \cap {<<image, k>> : image \in Images, k \in 1 .. 3} = {}
  /\ {Blank, Mixed} \cap {<<x>> : x \in Images \cup {Mixed} \cup 1 .. 3} = {}
  /\ MaxStale \in Nat

LengthOf(image) == IF image \in ShortImages THEN 2 ELSE 3
Chunk == 2                   \* TRANSFER_CHUNK_BYTES

\* The words of the application region: the image, and the metadata in the
\* order of the commit.
Words == 1 .. 7
Version == 4
Length == 5
Checksum == 6
Magic == 7

VARIABLES
  unit,      \* "OFF", "LOADER", or "RUNNING" the application
  request,   \* the marker in the backup register
  flash,     \* the words of the application region
  state,     \* bootloader_protocol_state_t
  lines,     \* sent by the host, not yet handled
  cut,       \* half a line is in the framer
  answers,   \* sent by the loader, not yet read
  host       \* the image that is sent, and the answer that is awaited

pipe == <<lines, cut, answers>>
vars == <<unit, request, flash, state, pipe, host>>

Stopped == [receiving |-> FALSE, expected |-> 0, crc32 |-> Blank, received |-> 0,
            valid |-> FALSE, reset |-> FALSE]

Idle == [phase |-> "IDLE", offset |-> 0]

Whole(image) == \A k \in 1 .. LengthOf(image) : flash[k] = <<image, k>>
Metadata(image) == <<<<1>>, <<LengthOf(image)>>, <<image>>, <<1>>>>
MetadataWords == <<Version, Length, Checksum, Magic>>

\* A unit that was installed through the programmer, or holds no application.
Init ==
  /\ unit = "OFF" /\ request = FALSE
  /\ flash \in {[w \in Words |->
                   IF w >= Version THEN Metadata(image)[w - Version + 1]
                   ELSE IF w <= LengthOf(image) THEN <<image, w>> ELSE Blank] :
                  image \in Images \ BadImages}
               \cup {[w \in Words |-> Blank]}
  /\ state = Stopped
  /\ lines = <<>> /\ cut = FALSE /\ answers = <<>>
  /\ host = Idle

-----------------------------------------------------------------------------
(* Flash: what an operation leaves behind, done and cut off.                *)

\* Bits are only cleared by programming.
Programmed(old, value) == IF old \in {Blank, value} THEN value ELSE Mixed

\* The first n of a sequence of words, each with its value, are programmed.
After(words, values, n) ==
  [w \in Words |->
     IF \E i \in 1 .. n : words[i] = w
     THEN Programmed(flash[w], values[CHOOSE i \in 1 .. n : words[i] = w])
     ELSE flash[w]]

\* Cut off in the middle of a sequence, at a word that may be half programmed.
CutOff(words, values) ==
  UNION {{After(words, values, n - 1),
          [After(words, values, n - 1) EXCEPT ![words[n]] = Mixed],
          After(words, values, n)} : n \in DOMAIN words}

\* The sectors are erased in order; the last one holds the metadata.
Sectors == <<1 .. 2, 3 .. 7>>
Erased(n) ==
  [w \in Words |-> IF \E i \in 1 .. n : w \in Sectors[i] THEN Blank ELSE flash[w]]
\* A sector whose erase is cut off has words as they were and undefined ones
\* (a blank one among them makes no difference: nothing is programmed before a
\* later erase has succeeded).
Leftover(n) ==
  {[w \in Words |-> IF w \notin Sectors[n] THEN Erased(n)[w]
                    ELSE IF w \in lost THEN Mixed ELSE flash[w]] :
     lost \in SUBSET Sectors[n]}
HalfErased == Leftover(1) \cup Leftover(2)

\* The checksum over the first words: the image that they are, if any.
Crc32(length) ==
  IF \E image \in Images : LengthOf(image) = length /\ Whole(image)
  THEN CHOOSE image \in Images : LengthOf(image) = length /\ Whole(image)
  ELSE Mixed

\* The initial stack pointer and the reset handler are in the first word.
VectorsAreValid == flash[1] \in {<<image, 1>> : image \in Images \ BadImages}

\* Wrong on purpose: the metadata alone decides.
ApplicationIsMarked ==
  /\ flash[Magic] = <<1>> /\ flash[Version] = <<1>>
  /\ flash[Length] \in {<<2>>, <<3>>}
  /\ VectorsAreValid

ApplicationIsValid ==
  /\ flash[Magic] = <<1>> /\ flash[Version] = <<1>>
  /\ flash[Length] \in {<<2>>, <<3>>}
  /\ VectorsAreValid
  /\ flash[Checksum] = <<Crc32(flash[Length][1])>>

-----------------------------------------------------------------------------
(* The loader: a line is handled and answered.                              *)

Line == Head(lines)
Answer(answer) == answers' = Append(answers, answer)
Handled == lines' = Tail(lines) /\ UNCHANGED <<unit, request, host>>

\* The next line after half a line is joined with it, and is no command.
Is(type) == unit = "LOADER" /\ lines # <<>> /\ Line.type = type /\ ~cut

HandleJoined ==
  /\ unit = "LOADER" /\ lines # <<>> /\ cut
  /\ cut' = FALSE /\ Answer([type |-> "ERR"]) /\ Handled /\ UNCHANGED <<flash, state>>

HandleInfo ==
  Is("INFO") /\ Answer([type |-> "OFCBOOT"]) /\ Handled /\ UNCHANGED <<flash, state, cut>>

HandleBegin ==
  /\ Is("BEGIN")
  /\ \/ /\ flash' = Erased(2)
        /\ state' = [state EXCEPT !.receiving = TRUE, !.expected = LengthOf(Line.image),
                       !.crc32 = Line.image, !.received = 0, !.valid = FALSE]
        /\ Answer([type |-> "READY"])
     \/ /\ flash' \in HalfErased
        /\ state' = [state EXCEPT !.receiving = FALSE]
        /\ Answer([type |-> "ERR"])
  /\ Handled /\ UNCHANGED cut

\* The words of a chunk, and how many there are.
ChunkEnd(offset, image) ==
  IF offset + Chunk <= LengthOf(image) THEN offset + Chunk ELSE LengthOf(image)
ChunkWords(line) ==
  [i \in 1 .. ChunkEnd(line.offset, line.image) - line.offset |-> line.offset + i]
ChunkValues(line) == [i \in DOMAIN ChunkWords(line) |-> <<line.image, line.offset + i>>]

DataIsAccepted(line) ==
  /\ state.receiving /\ line.offset = state.received
  /\ ChunkEnd(line.offset, line.image) <= state.expected
  /\ Len(ChunkWords(line)) > 0

HandleData ==
  /\ Is("DATA")
  /\ \/ /\ DataIsAccepted(Line)
        /\ flash' = After(ChunkWords(Line), ChunkValues(Line), Len(ChunkWords(Line)))
        /\ state' = [state EXCEPT !.received = @ + Len(ChunkWords(Line))]
        /\ Answer([type |-> "ACK", offset |-> state'.received])
     \/ /\ IF DataIsAccepted(Line) THEN flash' \in CutOff(ChunkWords(Line), ChunkValues(Line))
           ELSE UNCHANGED flash
        /\ Answer([type |-> "ERR"]) /\ UNCHANGED state
  /\ Handled /\ UNCHANGED cut

Verified ==
  /\ state.receiving /\ state.received = state.expected
  /\ Crc32(state.expected) = state.crc32

\* Wrong on purpose: a commit that fails is not noticed.
HandleEndBlindly ==
  /\ Is("END")
  /\ \/ /\ Verified
        /\ flash' \in CutOff(MetadataWords, Metadata(state.crc32))
        /\ state' = [state EXCEPT !.receiving = FALSE, !.valid = TRUE]
        /\ Answer([type |-> "OK"])
     \/ ~Verified /\ Answer([type |-> "ERR"]) /\ UNCHANGED <<flash, state>>
  /\ Handled /\ UNCHANGED cut

HandleEnd ==
  /\ Is("END")
  /\ \/ /\ Verified
        /\ flash' = After(MetadataWords, Metadata(state.crc32), 4)
        /\ ApplicationIsValid'
        /\ state' = [state EXCEPT !.receiving = FALSE, !.valid = TRUE]
        /\ Answer([type |-> "OK"])
     \/ /\ Verified
        /\ flash' \in CutOff(MetadataWords, Metadata(state.crc32))
        /\ Answer([type |-> "ERR"]) /\ UNCHANGED state
     \/ ~Verified /\ Answer([type |-> "ERR"]) /\ UNCHANGED <<flash, state>>
  /\ Handled /\ UNCHANGED cut

HandleBoot ==
  /\ Is("BOOT")
  /\ Answer([type |-> IF state.valid THEN "BOOTING" ELSE "ERR"])
  /\ state' = [state EXCEPT !.reset = @ \/ state.valid]
  /\ Handled /\ UNCHANGED <<flash, cut>>

\* main: the application, unless the loader was asked for.
Start ==
  /\ unit = "OFF"
  /\ unit' = IF ~request /\ ApplicationIsValid THEN "RUNNING" ELSE "LOADER"
  /\ request' = FALSE
  /\ state' = [Stopped EXCEPT !.valid = ApplicationIsValid]
  /\ UNCHANGED <<flash, pipe, host>>

\* The answers have left; what the host has not read is in its own buffer.
ResetAfterBoot ==
  /\ unit = "LOADER" /\ state.reset
  /\ unit' = "OFF" /\ state' = Stopped /\ lines' = <<>> /\ cut' = FALSE
  /\ UNCHANGED <<request, flash, answers, host>>

-----------------------------------------------------------------------------
(* What may go wrong.                                                       *)

\* What the operation under way may have left in the flash.
FlashMayHold ==
  {flash} \cup (CASE Is("BEGIN") -> HalfErased \cup {Erased(2)}
                  [] Is("DATA") /\ DataIsAccepted(Line) ->
                       CutOff(ChunkWords(Line), ChunkValues(Line))
                  [] Is("END") /\ Verified -> CutOff(MetadataWords, Metadata(state.crc32))
                  [] OTHER -> {})

\* The marker is lost with the power, if nothing holds the backup domain.
PowerLoss ==
  /\ unit' = "OFF" /\ state' = Stopped
  /\ request' \in {request, FALSE}
  /\ flash' \in FlashMayHold
  /\ lines' = <<>> /\ cut' = FALSE /\ answers' = <<>>
  /\ UNCHANGED host

\* The framer keeps its half line.
CableLoss ==
  /\ lines' = <<>> /\ answers' = <<>>
  /\ UNCHANGED <<unit, request, flash, state, cut, host>>

-----------------------------------------------------------------------------
(* The host.                                                                *)

Waiting == host.phase \notin {"IDLE", "DONE"}
Send(line) == lines' = Append(lines, line)

\* bootloader_enter, acknowledged by the application, which then resets.
RequestBootloader ==
  /\ ~Waiting /\ unit = "RUNNING"
  /\ unit' = "OFF" /\ request' = TRUE
  /\ host' = Idle
  /\ UNCHANGED <<flash, state, pipe>>

\* Opening the port drops the answers that have arrived, if not those to come.
\* A line of an earlier host is handled before: later is the same, its answer
\* being one of those.
StreamApplication(image) ==
  /\ ~Waiting /\ unit = "LOADER"
  /\ lines = <<>> /\ Len(answers) <= MaxStale
  /\ Send([type |-> "INFO"])
  /\ answers' \in {answers, <<>>}
  /\ host' = [phase |-> "OFCBOOT", image |-> image, offset |-> 0]
  /\ UNCHANGED <<unit, request, flash, state, cut>>

SendChunk(offset) ==
  /\ Send([type |-> "DATA", image |-> host.image, offset |-> offset])
  /\ host' = [host EXCEPT !.phase = "ACK", !.offset = ChunkEnd(offset, host.image)]

\* An answer is read: the next line if it is the one awaited, else the end.
HostReads ==
  /\ Waiting /\ answers # <<>>
  /\ answers' = Tail(answers)
  /\ LET answer == Head(answers)
         expected == /\ answer.type = host.phase
                     /\ answer.type = "ACK" => answer.offset = host.offset
         Next(phase) == host' = [host EXCEPT !.phase = phase]
     IN \/ ~expected /\ host' = Idle /\ UNCHANGED lines
        \/ /\ expected /\ host.phase = "OFCBOOT"
           /\ Send([type |-> "BEGIN", image |-> host.image]) /\ Next("READY")
        \/ expected /\ host.phase = "READY" /\ SendChunk(0)
        \/ /\ expected /\ host.phase = "ACK" /\ host.offset < LengthOf(host.image)
           /\ SendChunk(host.offset)
        \/ /\ expected /\ host.phase = "ACK" /\ host.offset = LengthOf(host.image)
           /\ Send([type |-> "END"]) /\ Next("OK")
        \/ /\ expected /\ host.phase = "OK"
           /\ Send([type |-> "BOOT"]) /\ Next("BOOTING")
        \/ expected /\ host.phase = "BOOTING" /\ Next("DONE") /\ UNCHANGED lines
  /\ UNCHANGED <<unit, request, flash, state, cut>>

\* Killed or out of time: the last line may be cut, if it is not yet handled.
HostStops ==
  /\ Waiting
  /\ host' = Idle
  /\ \/ UNCHANGED <<lines, cut>>
     \/ /\ lines # <<>> /\ unit = "LOADER"
        /\ lines' = SubSeq(lines, 1, Len(lines) - 1)
        /\ cut' = (cut \/ Len(lines) = 1)
  /\ UNCHANGED <<unit, request, flash, state, answers>>

-----------------------------------------------------------------------------
Next ==
  \/ Start \/ HandleJoined \/ HandleInfo \/ HandleBegin \/ HandleData \/ HandleEnd
  \/ HandleBoot \/ ResetAfterBoot
  \/ PowerLoss \/ CableLoss
  \/ RequestBootloader \/ HostReads \/ HostStops
  \/ \E image \in Images : StreamApplication(image)

Spec == Init /\ [][Next]_vars

-----------------------------------------------------------------------------
(* Properties. *)

\* docs/usb-firmware-update.md:20: whatever was lost during an erase, a
\* transfer or a commit, only an image that is there as a whole is started, and
\* it is the one that was committed.
OnlyWholeImagesRun ==
  unit = "RUNNING" =>
    \E image \in Images \ BadImages :
      Whole(image) /\ \A i \in 1 .. 4 : flash[MetadataWords[i]] = Metadata(image)[i]

\* An update that the host reports as done is installed: the unit starts this
\* image and no other, although the host may have been the last of several and
\* never saw the flash.
ReportedUpdateIsInstalled ==
  host.phase = "DONE" => Whole(host.image) /\ ApplicationIsValid

=============================================================================
