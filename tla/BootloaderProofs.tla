--------------------------- MODULE BootloaderProofs ---------------------------
(***************************************************************************)
(* The loader and the host tool: for every set of images, only a whole and *)
(* committed image is started, and an update that the host reports as done *)
(* is installed.                                                           *)
(*                                                                         *)
(* The first rests on what the flash may hold; the second on the dialogue. *)
(* A host that waits is either in step with the loader, or it has a stale  *)
(* answer before it that will end it, or it lives on stale answers alone,  *)
(* which are too few to bring it to the end.                               *)
(***************************************************************************)
EXTENDS Bootloader, SequenceTheorems, TLAPS

-----------------------------------------------------------------------------
(* What the flash holds.                                                    *)

\* What is ever programmed into a word.
ValuesOf(w) ==
  CASE w \in 1 .. 3           -> {<<image, w>> : image \in Images}
    [] w \in {Version, Magic} -> {<<1>>}
    [] w = Length             -> {<<2>>, <<3>>}
    [] w = Checksum           -> {<<image>> : image \in Images}

IsContents(f) ==
  /\ f = [w \in Words |-> f[w]]
  /\ \A w \in Words : f[w] \in ValuesOf(w) \cup {Blank, Mixed}

-----------------------------------------------------------------------------
(* Types.                                                                   *)

LineRecords ==
  [type : {"INFO", "END", "BOOT"}] \cup [type : {"BEGIN"}, image : Images]
    \cup {line \in [type : {"DATA"}, image : Images, offset : {0, 2}] :
            line.offset < LengthOf(line.image)}

AnswerRecords ==
  [type : {"ERR", "OFCBOOT", "READY", "OK", "BOOTING"}] \cup [type : {"ACK"}, offset : {2, 3}]

Phases == {"OFCBOOT", "READY", "ACK", "OK", "BOOTING", "DONE"}

\* A host that awaits an acknowledgement has sent a part of its image.
Hosts ==
  {h \in [phase : Phases, image : Images, offset : {0, 2, 3}] :
     h.phase = "ACK" => h.offset \in 2 .. LengthOf(h.image)}

States == [receiving : BOOLEAN, expected : Nat, crc32 : Images \cup {Blank},
           received : Nat, valid : BOOLEAN, reset : BOOLEAN]

TypeOK ==
  /\ unit \in {"OFF", "LOADER", "RUNNING"} /\ request \in BOOLEAN
  /\ IsContents(flash)
  /\ state \in States
  /\ lines \in Seq(LineRecords) /\ cut \in BOOLEAN /\ answers \in Seq(AnswerRecords)
  /\ host \in Hosts \cup {Idle}

-----------------------------------------------------------------------------
(* The loader.                                                              *)

\* Only the loader changes the flash.
RunningIsValid == unit = "RUNNING" => ApplicationIsValid

LoaderState ==
  /\ state.receiving => /\ unit = "LOADER" /\ state.crc32 \in Images
                        /\ state.expected = LengthOf(state.crc32)
  /\ request => unit = "OFF"

-----------------------------------------------------------------------------
(* The dialogue.  Its answers have a rank: OFCBOOT 0, READY 1, the offsets  *)
(* of the ACKs, OK and BOOTING.  A line has the rank of its answer.         *)

Rank(e, type) ==
  CASE type \in {"READY", "BEGIN"}  -> 1
    [] type = "ACK"                 -> e.offset
    [] type = "DATA"                -> ChunkEnd(e.offset, e.image)
    [] type \in {"OK", "END"}       -> LengthOf(host.image) + 1
    [] type \in {"BOOTING", "BOOT"} -> LengthOf(host.image) + 2
    [] OTHER                        -> 0

RankOf(e) == Rank(e, e.type)
Awaited   == Rank(host, host.phase)

\* The fewest answers that make a dialogue.
Shortest == 5

Installed == Whole(host.image) /\ ApplicationIsValid

\* One line or one answer is under way, and it is the host's own.
InStep ==
  /\ Len(answers) + Len(lines) <= 1
  /\ \A i \in DOMAIN lines : RankOf(lines[i]) = Awaited
  /\ host.phase \in {"ACK", "OK"} /\ Len(answers) + Len(lines) = 1 /\ state.receiving =>
       state.crc32 = host.image
  /\ host.phase = "READY" /\ answers # <<>> /\ Head(answers).type = "READY" =>
       (state.receiving => state.crc32 = host.image)
  /\ host.phase = "OK" /\ answers # <<>> /\ Head(answers).type = "OK" => Installed
  /\ host.phase = "BOOTING" /\ answers # <<>> /\ Head(answers).type = "BOOTING" => Installed
  /\ host.phase = "BOOTING" /\ lines # <<>> =>
       Installed \/ unit = "RUNNING" \/ ~state.valid

\* An answer comes too late for its line: the host reads it before the end, and
\* it is not the one that the host awaits by then.
Late(e, awaited) == RankOf(e) < awaited /\ awaited < Shortest
Behind ==
  \/ \E j \in DOMAIN answers : Late(answers[j], Awaited + j - 1)
  \/ \E j \in DOMAIN lines : Late(lines[j], Awaited + Len(answers) + j - 1)

\* The loader has restarted; only stale answers are left, and they are too few.
OnStaleAnswers ==
  /\ lines = <<>> /\ answers # <<>> /\ Awaited + Len(answers) < Shortest
  /\ ~state.receiving
  /\ unit = "RUNNING" \/ ~state.valid

Dialogue ==
  /\ Waiting => /\ ~request
                /\ \A i \in DOMAIN lines :
                     lines[i].type \in {"BEGIN", "DATA"} => lines[i].image = host.image
                /\ InStep \/ Behind \/ OnStaleAnswers
  /\ host.phase = "DONE" => lines = <<>> /\ Installed

Loader == TypeOK /\ RunningIsValid /\ LoaderState

IInv == Loader /\ Dialogue

-----------------------------------------------------------------------------
(* The operations on the flash keep to its contents.                        *)

\* A word is what it was, what was programmed, or neither.
LEMMA AfterIsContents ==
  ASSUME IsContents(flash), NEW words, NEW values, NEW n \in Nat,
         \A i \in 1 .. n : words[i] \in Words => values[i] \in ValuesOf(words[i])
  PROVE  IsContents(After(words, values, n))
<1> DEFINE f == After(words, values, n)
<1>1. f = [w \in Words |-> f[w]]
  BY DEF After
<1>2. ASSUME NEW w \in Words
      PROVE  f[w] \in ValuesOf(w) \cup {Blank, Mixed}
  <2>1. CASE \E i \in 1 .. n : words[i] = w
    <3> DEFINE i == CHOOSE k \in 1 .. n : words[k] = w
    <3>1. i \in 1 .. n /\ words[i] = w
      BY <2>1
    <3>2. f[w] = Programmed(flash[w], values[i])
      BY <2>1 DEF After
    <3> HIDE DEF i, f
    <3>3. values[i] \in ValuesOf(w)
      BY <3>1
    <3> QED BY <3>2, <3>3 DEF Programmed
  <2>2. CASE ~\E i \in 1 .. n : words[i] = w
    <3>1. f[w] = flash[w]
      BY <2>2 DEF After
    <3> HIDE DEF f
    <3> QED BY <3>1 DEF IsContents
  <2> QED BY <2>1, <2>2
<1> HIDE DEF f
<1>3. IsContents(f)
  BY <1>1, <1>2 DEF IsContents
<1> QED BY <1>3 DEF f

\* So does a sequence that is cut off.
LEMMA CutOffIsContents ==
  ASSUME IsContents(flash), NEW words, NEW values, NEW N \in Nat, DOMAIN words = 1 .. N,
         \A i \in 1 .. N : words[i] \in Words => values[i] \in ValuesOf(words[i]),
         NEW f \in CutOff(words, values)
  PROVE  IsContents(f)
<1>1. PICK n \in 1 .. N :
        f \in {After(words, values, n - 1),
               [After(words, values, n - 1) EXCEPT ![words[n]] = Mixed],
               After(words, values, n)}
  BY DEF CutOff
<1>2. IsContents(After(words, values, n - 1)) /\ IsContents(After(words, values, n))
  <2>1. n \in Nat /\ n - 1 \in Nat /\ 1 .. n \subseteq 1 .. N /\ 1 .. n - 1 \subseteq 1 .. N
    BY <1>1
  <2> QED BY <2>1, AfterIsContents
<1>3. ASSUME f = [After(words, values, n - 1) EXCEPT ![words[n]] = Mixed]
      PROVE  IsContents(f)
  <2> DEFINE g == After(words, values, n - 1)
  <2>1. IsContents(g) /\ f = [g EXCEPT ![words[n]] = Mixed]
    BY <1>2, <1>3
  <2> HIDE DEF g
  <2>2. DOMAIN g = Words
    BY <2>1 DEF IsContents
  <2>3. f = [w \in Words |-> f[w]]
    BY <2>1, <2>2
  <2>4. \A w \in Words : f[w] \in {g[w], Mixed}
    BY <2>1, <2>2
  <2> QED BY <2>1, <2>3, <2>4 DEF IsContents
<1> QED BY <1>1, <1>2, <1>3

\* And an erase, done or cut off.
LEMMA ErasedIsContents ==
  ASSUME IsContents(flash)
  PROVE  /\ IsContents(Erased(2))
         /\ \A f \in HalfErased : IsContents(f)
<1>1. \A n : Erased(n) = [w \in Words |-> Erased(n)[w]]
             /\ \A w \in Words : Erased(n)[w] \in {Blank, flash[w]}
  BY DEF Erased
<1>2. \A n : IsContents(Erased(n))
  BY <1>1 DEF IsContents
<1>3. ASSUME NEW n, NEW f \in Leftover(n)
      PROVE  IsContents(f)
  <2>1. PICK lost \in SUBSET Sectors[n] :
          f = [w \in Words |-> IF w \notin Sectors[n] THEN Erased(n)[w]
                               ELSE IF w \in lost THEN Mixed ELSE flash[w]]
    BY DEF Leftover
  <2>2. f = [w \in Words |-> f[w]]
    BY <2>1
  <2>3. \A w \in Words : f[w] \in {Erased(n)[w], flash[w], Mixed}
    BY <2>1
  <2> QED BY <1>2, <2>2, <2>3 DEF IsContents
<1> QED BY <1>2, <1>3 DEF HalfErased

\* A chunk is one or two words of its image.
LEMMA ChunkIsOfImage ==
  ASSUME NEW line \in LineRecords, line.type = "DATA"
  PROVE  /\ line.image \in Images /\ line.offset \in {0, 2}
         /\ ChunkEnd(line.offset, line.image) \in 2 .. LengthOf(line.image)
         /\ ChunkEnd(line.offset, line.image) > line.offset
         /\ LengthOf(line.image) \in {2, 3}
         /\ Len(ChunkWords(line)) = ChunkEnd(line.offset, line.image) - line.offset
         /\ DOMAIN ChunkWords(line) = 1 .. Len(ChunkWords(line))
         /\ \A i \in 1 .. Len(ChunkWords(line)) :
              /\ ChunkWords(line)[i] \in 1 .. 3
              /\ ChunkValues(line)[i] \in ValuesOf(ChunkWords(line)[i])
<1> DEFINE N == ChunkEnd(line.offset, line.image) - line.offset
<1>1. line.image \in Images /\ line.offset \in {0, 2} /\ line.offset < LengthOf(line.image)
  BY DEF LineRecords
<1>2. LengthOf(line.image) \in {2, 3}
  BY DEF LengthOf
<1>3. ChunkEnd(line.offset, line.image) \in 2 .. LengthOf(line.image)
      /\ ChunkEnd(line.offset, line.image) > line.offset
  BY <1>1, <1>2 DEF ChunkEnd, Chunk
<1>4. N \in Nat /\ line.offset + N \in 2 .. 3
  BY <1>1, <1>2, <1>3
<1>5. ChunkWords(line) = [i \in 1 .. N |-> line.offset + i]
  BY DEF ChunkWords
<1> HIDE DEF N
<1>6. Len(ChunkWords(line)) = N /\ DOMAIN ChunkWords(line) = 1 .. N
  BY <1>4, <1>5
<1>7. ASSUME NEW i \in 1 .. N
      PROVE  /\ ChunkWords(line)[i] \in 1 .. 3
             /\ ChunkValues(line)[i] \in ValuesOf(ChunkWords(line)[i])
  <2>1. ChunkWords(line)[i] = line.offset + i /\ line.offset + i \in 1 .. 3
    BY <1>1, <1>4, <1>5
  <2>2. ChunkValues(line)[i] = <<line.image, line.offset + i>>
    BY <1>6 DEF ChunkValues
  <2> DEFINE w == line.offset + i
  <2> HIDE DEF w
  <2>3. ASSUME w \in 1 .. 3 PROVE <<line.image, w>> \in ValuesOf(w)
    BY <1>1, <2>3 DEF ValuesOf, Version, Length, Checksum, Magic
  <2> QED BY <2>1, <2>2, <2>3 DEF w
<1> QED BY <1>1, <1>2, <1>3, <1>6, <1>7 DEF N

LEMMA MetadataIsTyped ==
  ASSUME NEW image \in Images
  PROVE  /\ DOMAIN MetadataWords = 1 .. 4
         /\ \A i \in 1 .. 4 : /\ MetadataWords[i] = i + 3
                              /\ Metadata(image)[i] \in ValuesOf(MetadataWords[i])
<1>1. LengthOf(image) \in {2, 3}
  BY DEF LengthOf
<1>2. \A i \in 1 .. 4 : MetadataWords[i] = i + 3
  BY DEF MetadataWords, Version, Length, Checksum, Magic
<1>3. /\ Metadata(image)[1] = <<1>> /\ Metadata(image)[2] = <<LengthOf(image)>>
      /\ Metadata(image)[3] = <<image>> /\ Metadata(image)[4] = <<1>>
  BY DEF Metadata
<1>4. /\ <<1>> \in ValuesOf(4) /\ <<LengthOf(image)>> \in ValuesOf(5)
      /\ <<image>> \in ValuesOf(6) /\ <<1>> \in ValuesOf(7)
  BY <1>1 DEF ValuesOf, Version, Length, Checksum, Magic
<1>5. DOMAIN MetadataWords = 1 .. 4
  BY DEF MetadataWords
<1>6. \A i \in 1 .. 4 : i = 1 \/ i = 2 \/ i = 3 \/ i = 4
  OBVIOUS
<1> QED BY <1>2, <1>3, <1>4, <1>5, <1>6

\* A unit that starts an application has it as a whole, committed and startable.
LEMMA ValidIsWhole ==
  ASSUME IsContents(flash), ApplicationIsValid
  PROVE  \E image \in Images \ BadImages :
           Whole(image) /\ \A i \in 1 .. 4 : flash[MetadataWords[i]] = Metadata(image)[i]
<1> DEFINE n == flash[Length][1]
           image == Crc32(n)
<1>1. n \in {2, 3} /\ flash[Length] = <<n>>
  BY DEF ApplicationIsValid
<1>2. flash[Checksum] = <<image>>
  BY DEF ApplicationIsValid
<1>3. image \in Images \cup {Mixed}
  BY DEF Crc32
<1>4. flash[Checksum] \in {<<i>> : i \in Images}
  <2>1. flash[Checksum] \in ValuesOf(Checksum) \cup {Blank, Mixed}
    BY DEF IsContents, Checksum, Words
  <2>2. flash[Checksum] \notin {Blank, Mixed}
    BY <1>2, <1>3, BootloaderConstants
  <2> QED BY <2>1, <2>2 DEF ValuesOf, Version, Length, Checksum, Magic
<1>5. image \in Images
  BY <1>2, <1>4
<1>6. LengthOf(image) = n /\ Whole(image)
  <2>1. image # Mixed
    BY <1>5, BootloaderConstants
  <2> QED BY <2>1 DEF Crc32
<1>7. image \notin BadImages
  <2>1. 1 \in 1 .. LengthOf(image)
    BY <1>1, <1>6
  <2>2. flash[1] = <<image, 1>>
    BY <1>6, <2>1 DEF Whole
  <2>3. PICK good \in Images \ BadImages : flash[1] = <<good, 1>>
    BY DEF ApplicationIsValid, VectorsAreValid
  <2> QED BY <2>2, <2>3
<1>8. /\ flash[MetadataWords[1]] = Metadata(image)[1]
      /\ flash[MetadataWords[2]] = Metadata(image)[2]
      /\ flash[MetadataWords[3]] = Metadata(image)[3]
      /\ flash[MetadataWords[4]] = Metadata(image)[4]
  <2>1. flash[Version] = <<1>> /\ flash[Magic] = <<1>>
    BY DEF ApplicationIsValid
  <2> HIDE DEF n, image
  <2> QED BY <1>1, <1>2, <1>6, <2>1 DEF MetadataWords, Metadata
<1>9. \A i \in 1 .. 4 : flash[MetadataWords[i]] = Metadata(image)[i]
  <2>1. \A i \in 1 .. 4 : i = 1 \/ i = 2 \/ i = 3 \/ i = 4
    OBVIOUS
  <2> QED BY <1>8, <2>1
<1> QED BY <1>5, <1>6, <1>7, <1>9

-----------------------------------------------------------------------------
(* The loader's part of the invariant.                                      *)

LEMMA NothingIsTyped ==
  <<>> \in Seq(LineRecords) /\ <<>> \in Seq(AnswerRecords)
OBVIOUS

LEMMA LinesAreTyped ==
  ASSUME TypeOK, lines # <<>>
  PROVE  Line \in LineRecords /\ Tail(lines) \in Seq(LineRecords)
BY HeadTailProperties DEF TypeOK, Line

LEMMA AnswersAreTyped ==
  ASSUME TypeOK, NEW answer \in AnswerRecords, Answer(answer)
  PROVE  answers' \in Seq(AnswerRecords)
BY DEF TypeOK, Answer

LEMMA JoinedKeepsLoader ==
  ASSUME Loader, HandleJoined
  PROVE  Loader'
<1>1. [type |-> "ERR"] \in AnswerRecords
  BY DEF AnswerRecords
<1> QED BY <1>1, LinesAreTyped, AnswersAreTyped
        DEF Loader, TypeOK, RunningIsValid, LoaderState, HandleJoined, Handled,
            IsContents

LEMMA InfoKeepsLoader ==
  ASSUME Loader, HandleInfo
  PROVE  Loader'
<1>1. [type |-> "OFCBOOT"] \in AnswerRecords
  BY DEF AnswerRecords
<1> QED BY <1>1, LinesAreTyped, AnswersAreTyped
        DEF Loader, TypeOK, RunningIsValid, LoaderState, HandleInfo, Is, Handled,
            IsContents

LEMMA BeginKeepsLoader ==
  ASSUME Loader, HandleBegin
  PROVE  Loader'
<1>1. /\ unit = "LOADER" /\ UNCHANGED <<unit, request, host, cut>>
      /\ Line \in LineRecords /\ lines' \in Seq(LineRecords) /\ Line.type = "BEGIN"
  BY LinesAreTyped DEF HandleBegin, Is, Handled, Loader
<1>2. Line.image \in Images
  BY <1>1 DEF LineRecords
<1>3. LengthOf(Line.image) \in Nat
  BY DEF LengthOf
<1>4. IsContents(flash)'
  <2>1. IsContents(flash)
    BY DEF Loader, TypeOK
  <2>2. IsContents(flash')
    BY <2>1, ErasedIsContents DEF HandleBegin
  <2> QED BY <2>2 DEF IsContents
<1>5. answers' \in Seq(AnswerRecords)
  <2>1. [type |-> "READY"] \in AnswerRecords /\ [type |-> "ERR"] \in AnswerRecords
    BY DEF AnswerRecords
  <2> QED BY <2>1, AnswersAreTyped DEF HandleBegin, Loader
<1>6. \/ state' = [state EXCEPT !.receiving = TRUE, !.expected = LengthOf(Line.image),
                     !.crc32 = Line.image, !.received = 0, !.valid = FALSE]
      \/ state' = [state EXCEPT !.receiving = FALSE]
  BY DEF HandleBegin
<1> HIDE DEF Line
<1>7. TypeOK'
  <2>1. state' \in States
    <3>1. state \in States
      BY DEF Loader, TypeOK
    <3>2. CASE state' = [state EXCEPT !.receiving = FALSE]
      BY <3>1, <3>2 DEF States
    <3>3. CASE state' = [state EXCEPT !.receiving = TRUE, !.expected = LengthOf(Line.image),
                           !.crc32 = Line.image, !.received = 0, !.valid = FALSE]
      BY <1>2, <1>3, <3>1, <3>3 DEF States
    <3> QED BY <1>6, <3>2, <3>3
  <2> QED BY <1>1, <1>4, <1>5, <2>1 DEF Loader, TypeOK
<1>8. LoaderState'
  BY <1>1, <1>2, <1>6 DEF Loader, LoaderState, TypeOK, States
<1> QED BY <1>1, <1>7, <1>8 DEF Loader, RunningIsValid

LEMMA DataKeepsLoader ==
  ASSUME Loader, HandleData
  PROVE  Loader'
<1>1. /\ unit = "LOADER" /\ UNCHANGED <<unit, request, host, cut>>
      /\ Line \in LineRecords /\ lines' \in Seq(LineRecords) /\ Line.type = "DATA"
  BY LinesAreTyped DEF HandleData, Is, Handled, Loader
<1> DEFINE N == Len(ChunkWords(Line))
<1>2. /\ N \in Nat /\ DOMAIN ChunkWords(Line) = 1 .. N
      /\ N = ChunkEnd(Line.offset, Line.image) - Line.offset
      /\ ChunkEnd(Line.offset, Line.image) \in {2, 3} /\ Line.offset \in {0, 2}
      /\ \A i \in 1 .. N : ChunkValues(Line)[i] \in ValuesOf(ChunkWords(Line)[i])
  <2> HIDE DEF Line
  <2> QED BY <1>1, ChunkIsOfImage
<1>3. IsContents(flash)'
  <2>1. IsContents(flash)
    BY DEF Loader, TypeOK
  <2>2. IsContents(flash')
    <3>1. flash' \in CutOff(ChunkWords(Line), ChunkValues(Line)) \/ flash' = flash
            \/ flash' = After(ChunkWords(Line), ChunkValues(Line), N)
      BY DEF HandleData
    <3> QED BY <1>2, <2>1, <3>1, AfterIsContents, CutOffIsContents
  <2> QED BY <2>2 DEF IsContents
<1>4. \/ /\ DataIsAccepted(Line)
         /\ state' = [state EXCEPT !.received = @ + N]
         /\ Answer([type |-> "ACK", offset |-> state'.received])
      \/ Answer([type |-> "ERR"]) /\ UNCHANGED state
  BY DEF HandleData
<1> HIDE DEF N, Line
<1>5. answers' \in Seq(AnswerRecords)
  <2>1. ASSUME DataIsAccepted(Line), state' = [state EXCEPT !.received = @ + N]
        PROVE  [type |-> "ACK", offset |-> state'.received] \in AnswerRecords
    <3>1. state'.received = ChunkEnd(Line.offset, Line.image)
      BY <1>2, <2>1 DEF Loader, TypeOK, States, DataIsAccepted
    <3> QED BY <1>2, <3>1 DEF AnswerRecords
  <2>2. [type |-> "ERR"] \in AnswerRecords
    BY DEF AnswerRecords
  <2> QED BY <1>4, <2>1, <2>2, AnswersAreTyped DEF Loader
<1>6. TypeOK'
  <2>1. state' \in States
    <3>1. state \in States
      BY DEF Loader, TypeOK
    <3>2. CASE state' = [state EXCEPT !.received = @ + N]
      BY <1>2, <3>1, <3>2 DEF States
    <3> QED BY <1>4, <3>1, <3>2
  <2> QED BY <1>1, <1>3, <1>5, <2>1 DEF Loader, TypeOK
<1>7. LoaderState'
  BY <1>1, <1>4 DEF Loader, LoaderState, TypeOK, States
<1> QED BY <1>1, <1>6, <1>7 DEF Loader, RunningIsValid

LEMMA EndKeepsLoader ==
  ASSUME Loader, HandleEnd
  PROVE  Loader'
<1>1. /\ unit = "LOADER" /\ UNCHANGED <<unit, request, host, cut>>
      /\ Line \in LineRecords /\ lines' \in Seq(LineRecords)
  BY LinesAreTyped DEF HandleEnd, Is, Handled, Loader
<1>2. IsContents(flash)'
  <2>1. IsContents(flash)
    BY DEF Loader, TypeOK
  <2>2. ASSUME Verified
        PROVE  /\ IsContents(After(MetadataWords, Metadata(state.crc32), 4))
               /\ \A f \in CutOff(MetadataWords, Metadata(state.crc32)) : IsContents(f)
    <3>1. state.crc32 \in Images
      BY <2>2 DEF Verified, Loader, LoaderState
    <3> QED BY <2>1, <3>1, MetadataIsTyped, AfterIsContents, CutOffIsContents
  <2>3. IsContents(flash')
    BY <2>1, <2>2 DEF HandleEnd
  <2> QED BY <2>3 DEF IsContents
<1>3. answers' \in Seq(AnswerRecords)
  <2>1. [type |-> "OK"] \in AnswerRecords /\ [type |-> "ERR"] \in AnswerRecords
    BY DEF AnswerRecords
  <2> QED BY <2>1, AnswersAreTyped DEF HandleEnd, Loader
<1>4. state' = [state EXCEPT !.receiving = FALSE, !.valid = TRUE] \/ state' = state
  BY DEF HandleEnd
<1> QED BY <1>1, <1>2, <1>3, <1>4 DEF Loader, LoaderState, TypeOK, States, RunningIsValid

LEMMA BootKeepsLoader ==
  ASSUME Loader, HandleBoot
  PROVE  Loader'
<1>1. answers' \in Seq(AnswerRecords)
  <2>1. [type |-> IF state.valid THEN "BOOTING" ELSE "ERR"] \in AnswerRecords
    BY DEF AnswerRecords
  <2> QED BY <2>1, AnswersAreTyped DEF HandleBoot, Loader
<1>2. lines' \in Seq(LineRecords) /\ unit = "LOADER"
  BY LinesAreTyped DEF HandleBoot, Is, Handled, Loader
<1> QED BY <1>1, <1>2
        DEF Loader, LoaderState, TypeOK, States, RunningIsValid, HandleBoot, Handled, IsContents

LEMMA InitIsLoader ==
  ASSUME Init
  PROVE  Loader
<1>1. IsContents(flash)
  <2>1. ASSUME NEW image \in Images,
               flash = [w \in Words |->
                          IF w >= Version THEN Metadata(image)[w - Version + 1]
                          ELSE IF w <= LengthOf(image) THEN <<image, w>> ELSE Blank]
        PROVE  IsContents(flash)
    <3>1. LengthOf(image) \in {2, 3}
      BY DEF LengthOf
    <3>2. /\ flash[4] = Metadata(image)[1] /\ flash[5] = Metadata(image)[2]
          /\ flash[6] = Metadata(image)[3] /\ flash[7] = Metadata(image)[4]
      BY <2>1 DEF Words, Version
    <3>3. \A w \in 1 .. 3 : flash[w] \in {<<image, w>>, Blank}
      BY <2>1, <3>1 DEF Words, Version
    <3>4. \A w \in 4 .. 7 : flash[w] \in ValuesOf(w)
      <4>1. \A w \in 4 .. 7 : w = 4 \/ w = 5 \/ w = 6 \/ w = 7
        OBVIOUS
      <4>2. /\ Metadata(image)[1] \in ValuesOf(4) /\ Metadata(image)[2] \in ValuesOf(5)
            /\ Metadata(image)[3] \in ValuesOf(6) /\ Metadata(image)[4] \in ValuesOf(7)
        <5>1. /\ Metadata(image)[1] \in ValuesOf(MetadataWords[1])
              /\ Metadata(image)[2] \in ValuesOf(MetadataWords[2])
              /\ Metadata(image)[3] \in ValuesOf(MetadataWords[3])
              /\ Metadata(image)[4] \in ValuesOf(MetadataWords[4])
          BY MetadataIsTyped
        <5> QED BY <5>1 DEF MetadataWords, Version, Length, Checksum, Magic
      <4> QED BY <3>2, <4>1, <4>2
    <3>5. ASSUME NEW w \in 1 .. 3 PROVE flash[w] \in ValuesOf(w) \cup {Blank}
      BY <3>3 DEF ValuesOf, Version, Length, Checksum, Magic
    <3>6. flash = [w \in Words |-> flash[w]]
      BY <2>1
    <3>7. \A w \in Words : w \in 1 .. 3 \/ w \in 4 .. 7
      BY DEF Words
    <3> QED BY <3>4, <3>5, <3>6, <3>7 DEF IsContents
  <2>2. ASSUME flash = [w \in Words |-> Blank]
        PROVE  IsContents(flash)
    BY <2>2 DEF IsContents
  <2> QED BY <2>1, <2>2 DEF Init
<1>2. state \in States /\ ~state.receiving
  BY DEF Init, Stopped, States
<1>3. /\ unit = "OFF" /\ request = FALSE /\ lines = <<>> /\ cut = FALSE
      /\ answers = <<>> /\ host = Idle
  BY DEF Init
<1> QED BY <1>1, <1>2, <1>3, NothingIsTyped DEF Loader, TypeOK, RunningIsValid, LoaderState

LEMMA StartKeepsLoader ==
  ASSUME Loader, Start
  PROVE  Loader'
<1>1. state' \in States /\ ~state'.receiving
  BY DEF Start, Stopped, States, ApplicationIsValid
<1>2. unit' \in {"LOADER", "RUNNING"} /\ (unit' = "RUNNING" => ApplicationIsValid)
      /\ UNCHANGED <<flash, lines, cut, answers, host>> /\ request' = FALSE
  BY DEF Start, pipe
<1>3. unit' = "RUNNING" => ApplicationIsValid'
  BY <1>2 DEF ApplicationIsValid, VectorsAreValid, Crc32, Whole
<1> QED BY <1>1, <1>2, <1>3 DEF Loader, TypeOK, RunningIsValid, LoaderState, IsContents

LEMMA ResetKeepsLoader ==
  ASSUME Loader, ResetAfterBoot
  PROVE  Loader'
<1>1. Stopped \in States /\ ~Stopped.receiving
  BY DEF Stopped, States
<1>2. /\ unit' = "OFF" /\ state' = Stopped /\ lines' = <<>> /\ cut' = FALSE
      /\ UNCHANGED <<request, flash, answers, host>>
  BY DEF ResetAfterBoot
<1> QED BY <1>1, <1>2, NothingIsTyped DEF Loader, TypeOK, RunningIsValid, LoaderState, IsContents

\* Whatever operation the power cuts off.
LEMMA PowerLossKeepsLoader ==
  ASSUME Loader, PowerLoss
  PROVE  Loader'
<1>1. IsContents(flash)'
  <2> USE DEF Loader, TypeOK
  <2>1. CASE Is("BEGIN")
    <3>1. flash' \in {flash} \cup HalfErased \cup {Erased(2)}
      BY <2>1 DEF PowerLoss, FlashMayHold, Is
    <3>2. IsContents(flash')
      BY <3>1, ErasedIsContents
    <3> QED BY <3>2 DEF IsContents
  <2>2. CASE Is("DATA") /\ DataIsAccepted(Line)
    <3>1. flash' \in {flash} \cup CutOff(ChunkWords(Line), ChunkValues(Line))
      BY <2>2 DEF PowerLoss, FlashMayHold, Is
    <3>2. Line \in LineRecords /\ Line.type = "DATA"
      BY <2>2, LinesAreTyped DEF Is
    <3> DEFINE N == Len(ChunkWords(Line))
    <3>3. N \in Nat /\ DOMAIN ChunkWords(Line) = 1 .. N
          /\ \A i \in 1 .. N : ChunkValues(Line)[i] \in ValuesOf(ChunkWords(Line)[i])
      <4> HIDE DEF Line
      <4> QED BY <3>2, ChunkIsOfImage
    <3> HIDE DEF N
    <3>4. IsContents(flash')
      BY <3>1, <3>3, CutOffIsContents
    <3> QED BY <3>4 DEF IsContents
  <2>3. CASE Is("END") /\ Verified
    <3>1. flash' \in {flash} \cup CutOff(MetadataWords, Metadata(state.crc32))
      BY <2>3 DEF PowerLoss, FlashMayHold, Is
    <3>2. state.crc32 \in Images
      BY <2>3 DEF Verified, LoaderState
    <3>3. IsContents(flash')
      BY <3>1, <3>2, MetadataIsTyped, CutOffIsContents
    <3> QED BY <3>3 DEF IsContents
  <2>4. CASE /\ ~Is("BEGIN") /\ ~(Is("DATA") /\ DataIsAccepted(Line))
             /\ ~(Is("END") /\ Verified)
    <3>1. flash' = flash
      BY <2>4 DEF PowerLoss, FlashMayHold
    <3> QED BY <3>1 DEF IsContents
  <2> QED BY <2>1, <2>2, <2>3, <2>4
<1>2. Stopped \in States /\ ~Stopped.receiving
  BY DEF Stopped, States
<1>3. /\ unit' = "OFF" /\ state' = Stopped /\ request' \in {request, FALSE}
      /\ lines' = <<>> /\ cut' = FALSE /\ answers' = <<>> /\ host' = host
  BY DEF PowerLoss
<1> QED BY <1>1, <1>2, <1>3, NothingIsTyped DEF Loader, TypeOK, RunningIsValid, LoaderState

\* A step of the host, or of the cable: the loader and its flash stay.
LEMMA OutsideKeepsLoader ==
  ASSUME Loader, UNCHANGED <<unit, request, flash, state>>,
         lines' \in Seq(LineRecords), cut' \in BOOLEAN, answers' \in Seq(AnswerRecords),
         host' \in Hosts \cup {Idle}
  PROVE  Loader'
<1>1. ApplicationIsValid' = ApplicationIsValid
  BY DEF ApplicationIsValid, VectorsAreValid, Crc32, Whole
<1> QED BY <1>1 DEF Loader, TypeOK, RunningIsValid, LoaderState, IsContents

LEMMA RequestKeepsLoader ==
  ASSUME Loader, RequestBootloader
  PROVE  Loader'
BY DEF Loader, TypeOK, RunningIsValid, LoaderState, RequestBootloader, pipe, IsContents

-----------------------------------------------------------------------------
(* The steps of the host.                                                   *)

\* An answer that is not the end of a host is the awaited one; the host goes on
\* to the next rank, and sends its line, or is done.
LEMMA HostGoesOn ==
  ASSUME TypeOK, HostReads, host' # Idle
  PROVE  /\ host \in Hosts /\ Awaited \in 0 .. 5
         /\ RankOf(Head(answers)) = Awaited /\ Head(answers).type = host.phase
         /\ host' \in Hosts /\ host'.image = host.image
         /\ \/ /\ host.phase = "BOOTING" /\ Awaited \in 4 .. 5
               /\ host'.phase = "DONE" /\ lines' = lines
            \/ /\ Awaited' = Awaited + 1
               /\ \/ host.phase = "OFCBOOT" /\ host'.phase = "READY"
                  \/ host.phase \in {"READY", "ACK"} /\ host'.phase = "ACK"
                  \/ host.phase = "ACK" /\ host'.phase = "OK"
                  \/ host.phase = "OK" /\ host'.phase = "BOOTING"
               /\ \E line \in LineRecords :
                    /\ lines' = Append(lines, line)
                    /\ line.type \in {"BEGIN", "DATA"} => line.image = host.image
                    /\ RankOf(line)' = Awaited'
<1> DEFINE answer == Head(answers)
<1>1. /\ host \in Hosts /\ host.phase # "DONE" /\ host.image \in Images
      /\ host.phase = "ACK" => host.offset \in 2 .. LengthOf(host.image)
      /\ LengthOf(host.image) \in {2, 3}
  BY DEF TypeOK, HostReads, Waiting, Idle, Hosts, LengthOf
<1>2. /\ answer.type = host.phase
      /\ answer.type = "ACK" => answer.offset = host.offset
  BY DEF HostReads
<1>3. RankOf(answer) = Awaited
  BY <1>1, <1>2 DEF RankOf, Awaited, Rank, Hosts, Phases
<1>4. Awaited \in 0 .. 5
  <2>1. host.phase \in Phases
    BY <1>1 DEF Hosts
  <2> QED BY <1>1, <2>1 DEF Awaited, Rank, Phases
<1> HIDE DEF answer
<1>5. CASE host.phase = "OFCBOOT"
  <2>1. /\ lines' = Append(lines, [type |-> "BEGIN", image |-> host.image])
        /\ host' = [host EXCEPT !.phase = "READY"]
    BY <1>2, <1>5 DEF HostReads, Send, answer
  <2>2. host' \in Hosts /\ host'.image = host.image /\ host'.phase = "READY"
    BY <1>1, <2>1 DEF Hosts, Phases
  <2>3. Awaited = 0 /\ Awaited' = 1
    BY <1>5, <2>2 DEF Awaited, Rank
  <2>4. PICK line \in LineRecords : line = [type |-> "BEGIN", image |-> host.image]
    BY <1>1 DEF LineRecords
  <2>5. line.image = host.image /\ RankOf(line)' = 1
    BY <2>4 DEF RankOf, Rank
  <2> QED BY <1>1, <1>2, <1>3, <1>4, <1>5, <2>1, <2>2, <2>3, <2>4, <2>5 DEF answer
<1>6. ASSUME NEW offset \in {0, 2}, SendChunk(offset), offset < LengthOf(host.image),
             host.phase \in {"READY", "ACK"}, ChunkEnd(offset, host.image) = Awaited + 1
      PROVE  /\ host' \in Hosts /\ host'.image = host.image /\ host'.phase = "ACK"
             /\ Awaited' = Awaited + 1
             /\ \E line \in LineRecords :
                    /\ lines' = Append(lines, line)
                    /\ line.type \in {"BEGIN", "DATA"} => line.image = host.image
                    /\ RankOf(line)' = Awaited'
  <2>1. ChunkEnd(offset, host.image) \in 2 .. LengthOf(host.image)
    BY <1>1, <1>6 DEF ChunkEnd, Chunk
  <2>2. host' = [host EXCEPT !.phase = "ACK", !.offset = ChunkEnd(offset, host.image)]
    BY <1>6 DEF SendChunk
  <2>3. /\ host'.image = host.image /\ host'.phase = "ACK"
        /\ host'.offset = ChunkEnd(offset, host.image)
    BY <1>1, <2>2 DEF Hosts
  <2>4. host' \in Hosts
    <3>1. host \in [phase : Phases, image : Images, offset : {0, 2, 3}]
      BY <1>1 DEF Hosts
    <3>2. ChunkEnd(offset, host.image) \in {0, 2, 3} /\ "ACK" \in Phases
      BY <1>1, <2>1 DEF Phases
    <3>3. host' \in [phase : Phases, image : Images, offset : {0, 2, 3}]
      BY <2>2, <3>1, <3>2
    <3> QED BY <2>1, <2>3, <3>3 DEF Hosts
  <2>5. Awaited' = Awaited + 1
    BY <1>6, <2>3 DEF Awaited, Rank
  <2>6. PICK line \in LineRecords :
          line = [type |-> "DATA", image |-> host.image, offset |-> offset]
    BY <1>1, <1>6 DEF LineRecords
  <2>7. line.image = host.image /\ RankOf(line)' = Awaited + 1
    BY <1>6, <2>6 DEF RankOf, Rank
  <2>8. lines' = Append(lines, line)
    BY <1>6, <2>6 DEF SendChunk, Send
  <2> QED BY <2>3, <2>4, <2>5, <2>7, <2>8
<1>7. CASE host.phase = "READY"
  <2>1. SendChunk(0) /\ Awaited = 1
    BY <1>2, <1>7 DEF HostReads, answer, Awaited, Rank
  <2>2. ChunkEnd(0, host.image) = 2
    BY <1>1 DEF ChunkEnd, Chunk
  <2> QED BY <1>1, <1>2, <1>3, <1>4, <1>6, <1>7, <2>1, <2>2 DEF answer
<1>8. CASE host.phase = "ACK" /\ host.offset < LengthOf(host.image)
  <2>1. SendChunk(host.offset) /\ Awaited = host.offset /\ host.offset = 2
        /\ LengthOf(host.image) = 3
    BY <1>1, <1>2, <1>8 DEF HostReads, answer, Awaited, Rank
  <2>2. ChunkEnd(2, host.image) = 3
    BY <2>1 DEF ChunkEnd, Chunk
  <2> QED BY <1>1, <1>2, <1>3, <1>4, <1>6, <1>8, <2>1, <2>2 DEF answer
<1>9. CASE host.phase = "ACK" /\ host.offset = LengthOf(host.image)
  <2>1. /\ lines' = Append(lines, [type |-> "END"])
        /\ host' = [host EXCEPT !.phase = "OK"]
    BY <1>1, <1>2, <1>9 DEF HostReads, Send, answer
  <2>2. host' \in Hosts /\ host'.image = host.image /\ host'.phase = "OK"
    BY <1>1, <2>1 DEF Hosts, Phases
  <2>3. Awaited = LengthOf(host.image) /\ Awaited' = LengthOf(host.image) + 1
    BY <1>9, <2>2 DEF Awaited, Rank
  <2> DEFINE line == [type |-> "END"]
  <2>4. /\ line \in LineRecords /\ line.type \notin {"BEGIN", "DATA"}
        /\ RankOf(line)' = LengthOf(host.image) + 1
    BY <2>2 DEF LineRecords, RankOf, Rank
  <2> HIDE DEF line
  <2> QED BY <1>1, <1>2, <1>3, <1>4, <1>9, <2>1, <2>2, <2>3, <2>4 DEF answer, line
<1>10. CASE host.phase = "OK"
  <2>1. /\ lines' = Append(lines, [type |-> "BOOT"])
        /\ host' = [host EXCEPT !.phase = "BOOTING"]
    BY <1>2, <1>10 DEF HostReads, Send, answer
  <2>2. host' \in Hosts /\ host'.image = host.image /\ host'.phase = "BOOTING"
    BY <1>1, <2>1 DEF Hosts, Phases
  <2>3. Awaited = LengthOf(host.image) + 1 /\ Awaited' = LengthOf(host.image) + 2
    BY <1>10, <2>2 DEF Awaited, Rank
  <2> DEFINE line == [type |-> "BOOT"]
  <2>4. /\ line \in LineRecords /\ line.type \notin {"BEGIN", "DATA"}
        /\ RankOf(line)' = LengthOf(host.image) + 2
    BY <2>2 DEF LineRecords, RankOf, Rank
  <2> HIDE DEF line
  <2> QED BY <1>1, <1>2, <1>3, <1>4, <1>10, <2>1, <2>2, <2>3, <2>4 DEF answer, line
<1>11. CASE host.phase = "BOOTING"
  <2>1. lines' = lines /\ host' = [host EXCEPT !.phase = "DONE"]
    BY <1>2, <1>11 DEF HostReads, answer
  <2>2. host' \in Hosts /\ host'.image = host.image /\ host'.phase = "DONE"
    BY <1>1, <2>1 DEF Hosts, Phases
  <2>3. Awaited = LengthOf(host.image) + 2
    BY <1>11 DEF Awaited, Rank
  <2> QED BY <1>1, <1>2, <1>3, <1>4, <1>11, <2>1, <2>2, <2>3 DEF answer
<1> QED BY <1>1, <1>5, <1>7, <1>8, <1>9, <1>10, <1>11 DEF Hosts, Phases

LEMMA ReadsKeepsLoader ==
  ASSUME Loader, HostReads
  PROVE  Loader'
<1>1. answers' \in Seq(AnswerRecords)
  BY HeadTailProperties DEF HostReads, Loader, TypeOK
<1>2. host' \in Hosts \cup {Idle} /\ lines' \in Seq(LineRecords)
  <2>1. CASE host' = Idle
    <3>1. lines' = lines
      <4>1. Idle.phase = "IDLE"
        BY DEF Idle
      <4>2. host.phase \in {"OFCBOOT", "READY", "OK", "BOOTING"} =>
              \A phase : [host EXCEPT !.phase = phase].phase = phase
        BY DEF Loader, TypeOK, Hosts, Idle
      <4>3. \A o : [host EXCEPT !.phase = "ACK", !.offset = o].phase = "ACK"
                   /\ [host EXCEPT !.phase = "OK"].phase = "OK"
        BY DEF Loader, TypeOK, Hosts, Idle
      <4> QED BY <2>1, <4>1, <4>2, <4>3 DEF HostReads, SendChunk
    <3> QED BY <2>1, <3>1 DEF Loader, TypeOK
  <2>2. CASE host' # Idle
    <3>1. /\ host' \in Hosts
          /\ lines' = lines \/ \E line \in LineRecords : lines' = Append(lines, line)
      BY <2>2, HostGoesOn DEF Loader, TypeOK
    <3>2. lines \in Seq(LineRecords)
      BY DEF Loader, TypeOK
    <3> QED BY <3>1, <3>2
  <2> QED BY <2>1, <2>2
<1>3. UNCHANGED <<unit, request, flash, state, cut>>
  BY DEF HostReads
<1> QED BY <1>1, <1>2, <1>3, OutsideKeepsLoader DEF Loader, TypeOK

LEMMA StopsKeepsLoader ==
  ASSUME Loader, HostStops
  PROVE  Loader'
<1>1. lines # <<>> => SubSeq(lines, 1, Len(lines) - 1) \in Seq(LineRecords)
  BY DEF Loader, TypeOK
<1>2. UNCHANGED <<unit, request, flash, state, answers>> /\ host' = Idle
      /\ cut' \in BOOLEAN /\ lines' \in Seq(LineRecords)
  BY <1>1 DEF HostStops, Loader, TypeOK
<1> QED BY <1>2, OutsideKeepsLoader DEF Loader, TypeOK

LEMMA StreamKeepsLoader ==
  ASSUME Loader, NEW image \in Images, StreamApplication(image)
  PROVE  Loader' /\ host' \in Hosts /\ lines' = <<[type |-> "INFO"]>>
<1>1. [type |-> "INFO"] \in LineRecords
  BY DEF LineRecords
<1>2. lines' = <<[type |-> "INFO"]>> /\ lines' \in Seq(LineRecords)
  BY <1>1 DEF StreamApplication, Send
<1>3. host' \in Hosts
  BY DEF StreamApplication, Hosts, Phases
<1>4. answers' \in Seq(AnswerRecords) /\ UNCHANGED <<unit, request, flash, state, cut>>
  BY NothingIsTyped DEF StreamApplication, Loader, TypeOK
<1> QED BY <1>2, <1>3, <1>4, OutsideKeepsLoader DEF Loader, TypeOK

LEMMA CableKeepsLoader ==
  ASSUME Loader, CableLoss
  PROVE  Loader'
BY NothingIsTyped, OutsideKeepsLoader DEF CableLoss, Loader, TypeOK

LEMMA StepKeepsLoader ==
  ASSUME Loader, [Next]_vars
  PROVE  Loader'
<1>1. CASE UNCHANGED vars
  BY <1>1, OutsideKeepsLoader DEF vars, pipe, Loader, TypeOK
<1> QED BY <1>1, StartKeepsLoader, JoinedKeepsLoader, InfoKeepsLoader, BeginKeepsLoader,
           DataKeepsLoader, EndKeepsLoader, BootKeepsLoader, ResetKeepsLoader,
           PowerLossKeepsLoader, CableKeepsLoader, RequestKeepsLoader, ReadsKeepsLoader,
           StopsKeepsLoader, StreamKeepsLoader DEF Next

THEOREM LoaderInvariant == Spec => []Loader
<1>1. Init => Loader
  BY InitIsLoader
<1>2. Loader /\ [Next]_vars => Loader'
  BY StepKeepsLoader
<1> QED BY <1>1, <1>2, PTL DEF Spec

\* Whatever was lost during an erase, a transfer or a commit, and whatever lines
\* came: a unit that runs has an image as a whole, with the metadata of its
\* commit (bootloader_main.c, bootloader_flash.c).
THEOREM WholeImagesRun == Spec => []OnlyWholeImagesRun
<1>1. Loader => OnlyWholeImagesRun
  BY ValidIsWhole DEF Loader, TypeOK, RunningIsValid, OnlyWholeImagesRun
<1> QED BY <1>1, LoaderInvariant, PTL

-----------------------------------------------------------------------------
(* The dialogue's part.                                                     *)

\* What is installed stays so while the flash does.
LEMMA InstalledStays ==
  ASSUME UNCHANGED flash, host'.image = host.image
  PROVE  Installed' = Installed
BY DEF Installed, Whole, ApplicationIsValid, VectorsAreValid, Crc32

\* With nothing under way there is nothing to say.
LEMMA NothingIsInStep ==
  ASSUME lines = <<>>, answers = <<>>
  PROVE  InStep
BY DEF InStep

\* A line handled and answered keeps its place before the host.
LEMMA HandledStaysBehind ==
  ASSUME Loader, lines # <<>>, lines' = Tail(lines), host' = host,
         NEW answer \in AnswerRecords, Answer(answer), RankOf(answer) <= RankOf(Line),
         Awaited \in Nat, RankOf(answer) \in Nat, RankOf(Line) \in Nat, Behind
  PROVE  Behind'
<1>1. /\ answers \in Seq(AnswerRecords) /\ lines \in Seq(LineRecords)
      /\ answers' = Append(answers, answer)
  BY DEF Loader, TypeOK, Answer
<1>2. /\ Len(answers') = Len(answers) + 1 /\ answers'[Len(answers) + 1] = answer
      /\ \A j \in DOMAIN answers : answers'[j] = answers[j]
      /\ DOMAIN answers = 1 .. Len(answers) /\ DOMAIN answers' = 1 .. Len(answers) + 1
      /\ Len(answers) \in Nat
  BY <1>1
<1>3. /\ Len(lines) \in Nat \ {0} /\ DOMAIN lines = 1 .. Len(lines)
      /\ DOMAIN lines' = 1 .. Len(lines) - 1
      /\ \A j \in 2 .. Len(lines) : lines'[j - 1] = lines[j]
      /\ Line = lines[1]
  BY <1>1, HeadTailProperties DEF Line
<1>4. Awaited' = Awaited /\ \A e : RankOf(e)' = RankOf(e)
  BY DEF Awaited, RankOf, Rank
<1>5. CASE \E j \in DOMAIN answers : Late(answers[j], Awaited + j - 1)
  <2>1. PICK j \in DOMAIN answers : Late(answers[j], Awaited + j - 1)
    BY <1>5
  <2>2. j \in DOMAIN answers' /\ answers'[j] = answers[j]
    BY <1>2
  <2>3. (Late(answers[j], Awaited + j - 1))'
    BY <1>4, <2>1, <2>2 DEF Late
  <2> QED BY <2>2, <2>3 DEF Behind
<1>6. CASE \E j \in DOMAIN lines : Late(lines[j], Awaited + Len(answers) + j - 1)
  <2>1. PICK j \in DOMAIN lines : Late(lines[j], Awaited + Len(answers) + j - 1)
    BY <1>6
  <2>2. CASE j = 1
    <3> DEFINE k == Len(answers) + 1
    <3>1. k \in DOMAIN answers' /\ answers'[k] = answer
      BY <1>2
    <3>2. RankOf(Line) < Awaited + k - 1 /\ Awaited + k - 1 < Shortest
      BY <1>2, <1>3, <2>1, <2>2 DEF Late
    <3>3. RankOf(answer) < Awaited + k - 1
      BY <1>2, <3>2
    <3>4. PICK n \in DOMAIN answers' : n = k
      BY <3>1
    <3>5. (Late(answers[n], Awaited + n - 1))'
      BY <1>4, <3>1, <3>2, <3>3, <3>4 DEF Late
    <3> QED BY <3>5 DEF Behind
  <2>3. CASE j # 1
    <3>1. PICK n \in DOMAIN lines' : n = j - 1 /\ lines'[n] = lines[j]
      BY <1>3, <2>3
    <3>2. Awaited + Len(answers) + j - 1 = Awaited + (Len(answers) + 1) + n - 1
      BY <1>2, <1>3, <3>1
    <3>3. (Late(lines[n], Awaited + Len(answers) + n - 1))'
      BY <1>2, <1>4, <2>1, <3>1, <3>2 DEF Late
    <3> QED BY <3>3 DEF Behind
  <2> QED BY <2>2, <2>3
<1> QED BY <1>5, <1>6 DEF Behind

LEMMA RanksAreTyped ==
  ASSUME host \in Hosts
  PROVE  /\ Awaited \in 0 .. 5
         /\ \A e \in LineRecords \cup AnswerRecords : RankOf(e) \in 0 .. 5
<1>1. LengthOf(host.image) \in {2, 3}
  BY DEF LengthOf
<1>2. Awaited \in 0 .. 5
  BY <1>1 DEF Awaited, Rank, Hosts, Phases
<1>3. ASSUME NEW e \in LineRecords PROVE RankOf(e) \in 0 .. 5
  <2>1. CASE e.type = "DATA"
    <3>1. ChunkEnd(e.offset, e.image) \in 2 .. 3
      BY <2>1, ChunkIsOfImage
    <3> QED BY <2>1, <3>1 DEF RankOf, Rank
  <2>2. CASE e.type # "DATA"
    BY <1>1, <2>2 DEF LineRecords, RankOf, Rank
  <2> QED BY <2>1, <2>2
<1>4. ASSUME NEW e \in AnswerRecords PROVE RankOf(e) \in 0 .. 5
  BY <1>1 DEF AnswerRecords, RankOf, Rank
<1> QED BY <1>2, <1>3, <1>4

\* A line is answered: with the answer of its rank, or refused.
LEMMA HandledKeepsDialogue ==
  ASSUME Loader, Dialogue, lines # <<>>, Handled,
         NEW answer \in AnswerRecords, Answer(answer),
         Waiting => RankOf(answer) <= RankOf(Line),
         Waiting /\ InStep =>
           /\ host.phase \in {"ACK", "OK"} \/ answer.type = "READY" =>
                (state'.receiving => state'.crc32 = host.image)
           /\ host.phase = "OK" /\ answer.type = "OK" => Installed'
           /\ host.phase = "BOOTING" /\ answer.type = "BOOTING" => Installed'
  PROVE  Dialogue'
<1>1. /\ host' = host /\ request' = request /\ lines' = Tail(lines)
      /\ answers' = Append(answers, answer)
      /\ lines \in Seq(LineRecords) /\ answers \in Seq(AnswerRecords)
  BY DEF Handled, Answer, Loader, TypeOK
<1>2. host.phase # "DONE" /\ Waiting' = Waiting
  BY <1>1 DEF Dialogue, Waiting
<1>3. ASSUME Waiting PROVE (InStep \/ Behind)'
  <2>1. host \in Hosts /\ Line \in LineRecords
    BY <1>3, LinesAreTyped DEF Loader, TypeOK, Waiting, Idle
  <2>2. Awaited \in Nat /\ RankOf(answer) \in Nat /\ RankOf(Line) \in Nat
    BY <2>1, RanksAreTyped
  <2>3. ~OnStaleAnswers
    BY DEF OnStaleAnswers
  <2>4. CASE Behind
    BY <1>1, <1>3, <2>2, <2>4, HandledStaysBehind
  <2>5. CASE InStep
    <3>1. Len(lines) = 1 /\ Len(answers) = 0
      <4> DEFINE m == Len(lines)
                 n == Len(answers)
      <4>1. m \in Nat /\ m # 0 /\ n \in Nat
        BY <1>1
      <4>2. n + m <= 1
        BY <2>5 DEF InStep
      <4> HIDE DEF m, n
      <4>3. m = 1 /\ n = 0
        BY <4>1, <4>2
      <4> QED BY <4>3 DEF m, n
    <3>2. /\ Len(lines') = 0 /\ lines' = <<>> /\ DOMAIN lines' = {}
          /\ Len(answers') = 1 /\ Head(answers') = answer
      BY <1>1, <3>1
    <3>3. /\ host.phase \in {"ACK", "OK"} \/ answer.type = "READY" =>
                (state'.receiving => state'.crc32 = host.image)
          /\ host.phase = "OK" /\ answer.type = "OK" => Installed'
          /\ host.phase = "BOOTING" /\ answer.type = "BOOTING" => Installed'
      BY <1>3, <2>5
    <3> QED BY <1>1, <3>2, <3>3 DEF InStep
  <2> QED BY <1>3, <2>3, <2>4, <2>5 DEF Dialogue
<1>4. Waiting => \A i \in DOMAIN lines' :
                   lines'[i].type \in {"BEGIN", "DATA"} => lines'[i].image = host.image
  <2>1. DOMAIN lines' = 1 .. Len(lines) - 1 /\ DOMAIN lines = 1 .. Len(lines)
        /\ \A i \in DOMAIN lines' : lines'[i] = lines[i + 1] /\ i + 1 \in DOMAIN lines
    BY <1>1, HeadTailProperties
  <2> QED BY <2>1 DEF Dialogue
<1> QED BY <1>1, <1>2, <1>3, <1>4 DEF Dialogue

\* In step, the line under way is the host's.
LEMMA LineIsInStep ==
  ASSUME Loader, Dialogue, Waiting, lines # <<>>
  PROVE  /\ host \in Hosts /\ Line \in LineRecords
         /\ Line.type \in {"BEGIN", "DATA"} => Line.image = host.image
         /\ InStep => /\ RankOf(Line) = Awaited /\ Len(answers) + Len(lines) = 1
<1>1. host \in Hosts /\ Line \in LineRecords
  BY LinesAreTyped DEF Loader, TypeOK, Waiting, Idle
<1>2. 1 \in DOMAIN lines /\ Line = lines[1] /\ Len(lines) >= 1 /\ Len(answers) \in Nat
      /\ Len(lines) \in Nat
  BY DEF Line, Loader, TypeOK
<1> HIDE DEF Line
<1> QED BY <1>1, <1>2 DEF Dialogue, InStep

LEMMA JoinedKeepsDialogue ==
  ASSUME Loader, Dialogue, HandleJoined
  PROVE  Dialogue'
<1>1. [type |-> "ERR"] \in AnswerRecords /\ RankOf([type |-> "ERR"]) = 0
  BY DEF AnswerRecords, RankOf, Rank
<1>2. Waiting => RankOf(Line) >= 0
  BY LineIsInStep, RanksAreTyped DEF HandleJoined
<1>3. lines # <<>> /\ Handled /\ Answer([type |-> "ERR"]) /\ state' = state
  BY DEF HandleJoined
<1>4. Waiting /\ InStep => Len(answers) + Len(lines) = 1
  BY <1>3, LineIsInStep
<1> QED BY <1>1, <1>2, <1>3, <1>4, HandledKeepsDialogue DEF InStep

LEMMA InfoKeepsDialogue ==
  ASSUME Loader, Dialogue, HandleInfo
  PROVE  Dialogue'
<1>1. [type |-> "OFCBOOT"] \in AnswerRecords /\ RankOf([type |-> "OFCBOOT"]) = 0
  BY DEF AnswerRecords, RankOf, Rank
<1>2. Waiting => RankOf(Line) >= 0
  BY LineIsInStep, RanksAreTyped DEF HandleInfo, Is
<1>3. lines # <<>> /\ Handled /\ Answer([type |-> "OFCBOOT"]) /\ state' = state
  BY DEF HandleInfo, Is
<1>4. Waiting /\ InStep => Len(answers) + Len(lines) = 1
  BY <1>3, LineIsInStep
<1> QED BY <1>1, <1>2, <1>3, <1>4, HandledKeepsDialogue DEF InStep

\* READY answers a BEGIN, of this image.
LEMMA BeginKeepsDialogue ==
  ASSUME Loader, Dialogue, HandleBegin
  PROVE  Dialogue'
<1>1. /\ [type |-> "READY"] \in AnswerRecords /\ RankOf([type |-> "READY"]) = 1
      /\ [type |-> "ERR"] \in AnswerRecords /\ RankOf([type |-> "ERR"]) = 0
  BY DEF AnswerRecords, RankOf, Rank
<1>2. lines # <<>> /\ Handled /\ Line.type = "BEGIN"
  BY DEF HandleBegin, Is
<1>3. RankOf(Line) = 1
  BY <1>2 DEF RankOf, Rank
<1>4. Waiting => Line.image = host.image
  BY <1>2, LineIsInStep
<1>5. /\ state'.receiving => state'.crc32 = Line.image
      /\ Answer([type |-> "READY"]) \/ Answer([type |-> "ERR"])
  BY DEF HandleBegin, Loader, TypeOK, States
<1> QED BY <1>1, <1>2, <1>3, <1>4, <1>5, HandledKeepsDialogue

\* ACK answers a chunk, with its end.
LEMMA DataKeepsDialogue ==
  ASSUME Loader, Dialogue, HandleData
  PROVE  Dialogue'
<1>1. lines # <<>> /\ Handled /\ Line.type = "DATA" /\ Line \in LineRecords
  BY LinesAreTyped DEF HandleData, Is, Loader
<1>2. RankOf(Line) = ChunkEnd(Line.offset, Line.image)
      /\ ChunkEnd(Line.offset, Line.image) \in 2 .. 3
  <2>1. ChunkEnd(Line.offset, Line.image) \in 2 .. 3
    BY <1>1, ChunkIsOfImage
  <2> QED BY <1>1, <2>1 DEF RankOf, Rank
<1>3. state'.receiving = state.receiving /\ state'.crc32 = state.crc32
  BY DEF HandleData, Loader, TypeOK, States
<1>4. CASE Answer([type |-> "ERR"])
  <2>1. [type |-> "ERR"] \in AnswerRecords /\ RankOf([type |-> "ERR"]) = 0
    BY DEF AnswerRecords, RankOf, Rank
  <2>2. Waiting /\ InStep => Len(answers) + Len(lines) = 1
    BY <1>1, LineIsInStep
  <2> QED BY <1>1, <1>2, <1>3, <1>4, <2>1, <2>2, HandledKeepsDialogue DEF InStep
<1>5. CASE ~Answer([type |-> "ERR"])
  <2>1. /\ DataIsAccepted(Line) /\ Answer([type |-> "ACK", offset |-> state'.received])
        /\ state' = [state EXCEPT !.received = @ + Len(ChunkWords(Line))]
    BY <1>5 DEF HandleData
  <2>2. state'.received = ChunkEnd(Line.offset, Line.image)
    <3>1. /\ Len(ChunkWords(Line)) = ChunkEnd(Line.offset, Line.image) - Line.offset
          /\ Line.offset \in {0, 2}
      BY <1>1, ChunkIsOfImage
    <3> QED BY <1>2, <2>1, <3>1 DEF DataIsAccepted, Loader, TypeOK, States
  <2>3. PICK n \in {2, 3} : n = ChunkEnd(Line.offset, Line.image)
    BY <1>2
  <2> DEFINE answer == [type |-> "ACK", offset |-> n]
  <2>4. answer \in AnswerRecords /\ RankOf(answer) = n /\ answer.type = "ACK"
    BY <2>3 DEF AnswerRecords, RankOf, Rank
  <2>5. Answer(answer)
    BY <2>1, <2>2, <2>3
  <2>6. Waiting /\ InStep => Len(answers) + Len(lines) = 1
    BY <1>1, LineIsInStep
  <2> HIDE DEF answer
  <2>7. Waiting /\ InStep =>
          /\ host.phase \in {"ACK", "OK"} \/ answer.type = "READY" =>
               (state'.receiving => state'.crc32 = host.image)
          /\ host.phase = "OK" /\ answer.type = "OK" => Installed'
          /\ host.phase = "BOOTING" /\ answer.type = "BOOTING" => Installed'
    BY <1>3, <2>4, <2>6 DEF InStep
  <2>8. RankOf(answer) <= RankOf(Line)
    BY <1>2, <2>3, <2>4
  <2> QED BY <1>1, <2>4, <2>5, <2>7, <2>8, HandledKeepsDialogue
<1> QED BY <1>4, <1>5

\* OK answers an END: the image that was begun is there, and committed.
LEMMA EndKeepsDialogue ==
  ASSUME Loader, Dialogue, HandleEnd
  PROVE  Dialogue'
<1>1. lines # <<>> /\ Handled /\ Line.type = "END" /\ Line \in LineRecords
  BY LinesAreTyped DEF HandleEnd, Is, Loader
<1>2. Waiting /\ InStep => Len(answers) + Len(lines) = 1
  BY <1>1, LineIsInStep
<1>3. CASE Answer([type |-> "ERR"]) /\ UNCHANGED state
  <2>1. [type |-> "ERR"] \in AnswerRecords /\ RankOf([type |-> "ERR"]) = 0
    BY DEF AnswerRecords, RankOf, Rank
  <2>2. Waiting => RankOf(Line) >= 0
    BY <1>1, LineIsInStep, RanksAreTyped
  <2> QED BY <1>1, <1>2, <1>3, <2>1, <2>2, HandledKeepsDialogue DEF InStep
<1>4. CASE ~(Answer([type |-> "ERR"]) /\ UNCHANGED state)
  <2>1. /\ Verified /\ ApplicationIsValid' /\ Answer([type |-> "OK"])
        /\ flash' = After(MetadataWords, Metadata(state.crc32), 4)
        /\ state' = [state EXCEPT !.receiving = FALSE, !.valid = TRUE]
    BY <1>4 DEF HandleEnd
  <2>2. [type |-> "OK"] \in AnswerRecords
    BY DEF AnswerRecords
  <2>3. RankOf([type |-> "OK"]) = RankOf(Line)
    BY <1>1 DEF RankOf, Rank
  <2>4. ~state'.receiving
    BY <2>1 DEF Loader, TypeOK, States
  <2>5. ASSUME Waiting, InStep, host.phase = "OK" PROVE Installed'
    <3>1. state.receiving /\ state.crc32 = host.image /\ host.image \in Images
          /\ state.expected = LengthOf(host.image) /\ Crc32(state.expected) = host.image
      BY <1>2, <2>1, <2>5 DEF InStep, Verified, Loader, LoaderState
    <3>2. Whole(host.image)
      <4>1. host.image # Mixed
        BY <3>1, BootloaderConstants
      <4> QED BY <3>1, <4>1 DEF Crc32
    <3>3. ASSUME NEW k \in 1 .. LengthOf(host.image) PROVE flash'[k] = flash[k]
      <4>1. k \in Words /\ k < 4
        BY DEF LengthOf, Words
      <4>2. \A i \in 1 .. 4 : MetadataWords[i] # k
        BY <3>1, <4>1, MetadataIsTyped
      <4> QED BY <2>1, <4>1, <4>2 DEF After
    <3>4. host' = host
      BY <1>1 DEF Handled
    <3> QED BY <2>1, <3>2, <3>3, <3>4 DEF Installed, Whole
  <2>6. [type |-> "OK"].type = "OK"
    OBVIOUS
  <2>7. Waiting => RankOf(Line) \in Nat
    BY <1>1, LineIsInStep, RanksAreTyped
  <2> QED BY <1>1, <2>1, <2>2, <2>3, <2>4, <2>5, <2>6, <2>7, HandledKeepsDialogue
<1> QED BY <1>3, <1>4

\* BOOTING answers a BOOT.
LEMMA BootKeepsDialogue ==
  ASSUME Loader, Dialogue, HandleBoot
  PROVE  Dialogue'
<1>1. lines # <<>> /\ Handled /\ Line.type = "BOOT" /\ Line \in LineRecords
      /\ UNCHANGED flash /\ unit = "LOADER"
  BY LinesAreTyped DEF HandleBoot, Is, Loader
<1>2. state'.receiving = state.receiving /\ state'.crc32 = state.crc32
  BY DEF HandleBoot, Loader, TypeOK, States
<1>3. Waiting /\ InStep => Len(answers) + Len(lines) = 1
  BY <1>1, LineIsInStep
<1>4. Waiting => RankOf(Line) \in Nat
  BY <1>1, LineIsInStep, RanksAreTyped
<1>5. CASE state.valid
  <2>1. [type |-> "BOOTING"] \in AnswerRecords /\ Answer([type |-> "BOOTING"])
    BY <1>5 DEF AnswerRecords, HandleBoot
  <2>2. RankOf([type |-> "BOOTING"]) = RankOf(Line)
    BY <1>1 DEF RankOf, Rank
  <2>3. InStep /\ host.phase = "BOOTING" => Installed'
    BY <1>1, <1>5, InstalledStays DEF InStep, Handled
  <2>4. InStep /\ Waiting /\ host.phase \in {"ACK", "OK"} =>
          (state'.receiving => state'.crc32 = host.image)
    BY <1>2, <1>3 DEF InStep
  <2> QED BY <1>1, <1>4, <2>1, <2>2, <2>3, <2>4, HandledKeepsDialogue
<1>6. CASE ~state.valid
  <2>1. [type |-> "ERR"] \in AnswerRecords /\ Answer([type |-> "ERR"])
    BY <1>6 DEF AnswerRecords, HandleBoot
  <2>2. RankOf([type |-> "ERR"]) = 0
    BY DEF RankOf, Rank
  <2>3. Waiting => RankOf(Line) >= 0
    BY <1>1, LineIsInStep, RanksAreTyped
  <2> QED BY <1>1, <1>2, <1>3, <2>1, <2>2, <2>3, HandledKeepsDialogue DEF InStep
<1> QED BY <1>5, <1>6

\* The loader starts while a host waits only if there is nothing to start.
LEMMA StartKeepsDialogue ==
  ASSUME Loader, Dialogue, Start
  PROVE  Dialogue'
<1>1. /\ unit' = (IF ~request /\ ApplicationIsValid THEN "RUNNING" ELSE "LOADER")
      /\ ~request' /\ ~state'.receiving /\ state'.valid = ApplicationIsValid
      /\ UNCHANGED <<flash, lines, answers, host>>
  BY DEF Start, Stopped, pipe
<1>2. Installed' = Installed
  BY <1>1, InstalledStays
<1>3. Waiting => unit' = "RUNNING" \/ ~state'.valid
  BY <1>1 DEF Dialogue
<1>4. Awaited' = Awaited /\ \A e : RankOf(e)' = RankOf(e)
  BY <1>1 DEF Awaited, RankOf, Rank
<1>5. Behind => Behind'
  BY <1>1, <1>4 DEF Behind, Late
<1>6. Waiting /\ InStep => InStep'
  BY <1>1, <1>2, <1>3, <1>4 DEF InStep
<1>7. Waiting /\ OnStaleAnswers => OnStaleAnswers'
  BY <1>1, <1>3, <1>4 DEF OnStaleAnswers
<1> QED BY <1>1, <1>2, <1>5, <1>6, <1>7 DEF Dialogue, Waiting

\* A reset drops the lines: those that are behind leave stale answers.
LEMMA ResetKeepsDialogue ==
  ASSUME Loader, Dialogue, ResetAfterBoot
  PROVE  Dialogue'
<1>1. /\ UNCHANGED <<request, flash, answers, host>> /\ lines' = <<>>
      /\ ~state'.receiving /\ ~state'.valid /\ Len(lines') = 0 /\ DOMAIN lines' = {}
  BY DEF ResetAfterBoot, Stopped
<1>2. Installed' = Installed
  BY <1>1, InstalledStays
<1>3. Awaited' = Awaited /\ \A e : RankOf(e)' = RankOf(e)
  BY <1>1 DEF Awaited, RankOf, Rank
<1>4. ASSUME Waiting PROVE (InStep \/ Behind \/ OnStaleAnswers)'
  <2>1. Len(answers) \in Nat /\ Len(lines) \in Nat
    BY DEF Loader, TypeOK
  <2>2. Awaited \in 0 .. 5
    BY <1>4, RanksAreTyped DEF Loader, TypeOK, Waiting, Idle
  <2>3. CASE InStep
    <3>1. Len(answers') + Len(lines') <= 1
      BY <1>1, <2>1, <2>3 DEF InStep
    <3> QED BY <1>1, <1>2, <2>3, <3>1 DEF InStep
  <2>4. CASE \E j \in DOMAIN answers : Late(answers[j], Awaited + j - 1)
    BY <1>1, <1>3, <2>4 DEF Behind, Late
  <2>5. CASE \E j \in DOMAIN lines : Late(lines[j], Awaited + Len(answers) + j - 1)
    <3>1. PICK j \in DOMAIN lines : Late(lines[j], Awaited + Len(answers) + j - 1)
      BY <2>5
    <3>2. j >= 1 /\ j \in Nat
      BY DEF Loader, TypeOK
    <3>3. Awaited + Len(answers) < Shortest
      BY <2>1, <2>2, <3>1, <3>2 DEF Late, Shortest
    <3>4. CASE answers = <<>>
      <4>1. answers' = <<>>
        BY <1>1, <3>4
      <4>2. InStep'
        BY <1>1, <4>1 DEF InStep
      <4> QED BY <4>2
    <3>5. CASE answers # <<>>
      BY <1>1, <1>3, <3>3, <3>5 DEF OnStaleAnswers
    <3> QED BY <3>4, <3>5
  <2>6. CASE OnStaleAnswers
    BY <1>1, <1>3, <2>6 DEF OnStaleAnswers
  <2> QED BY <1>4, <2>3, <2>4, <2>5, <2>6 DEF Dialogue, Behind
<1> QED BY <1>1, <1>2, <1>4 DEF Dialogue, Waiting

\* With the power or the cable everything under way is lost.
LEMMA LossKeepsDialogue ==
  ASSUME Loader, Dialogue, PowerLoss \/ CableLoss
  PROVE  Dialogue'
<1>1. lines' = <<>> /\ answers' = <<>> /\ host' = host
  BY DEF PowerLoss, CableLoss
<1>2. Waiting => ~request'
  BY DEF PowerLoss, CableLoss, Dialogue
<1>3. InStep'
  <2>1. Len(lines') = 0 /\ Len(answers') = 0 /\ DOMAIN lines' = {}
    BY <1>1
  <2> QED BY <1>1, <2>1 DEF InStep
<1>4. lines = <<>> => flash' = flash
  BY DEF PowerLoss, CableLoss, FlashMayHold, Is
<1>5. host.phase = "DONE" => Installed'
  BY <1>1, <1>4, InstalledStays DEF Dialogue
<1>6. DOMAIN lines' = {}
  BY <1>1
<1>7. (Waiting => InStep)' /\ Waiting' = Waiting
  BY <1>1, <1>3 DEF Waiting
<1> QED BY <1>1, <1>2, <1>5, <1>6, <1>7 DEF Dialogue

\* The next host is in step, unless there are stale answers before its own.
LEMMA StreamKeepsDialogue ==
  ASSUME Loader, Dialogue, MaxStale < Shortest, NEW image \in Images,
         StreamApplication(image)
  PROVE  Dialogue'
<1>1. /\ lines' = <<[type |-> "INFO"]>> /\ host' \in Hosts
      /\ host'.phase = "OFCBOOT" /\ request' = request /\ unit = "LOADER"
  BY StreamKeepsLoader DEF StreamApplication
<1>2. DOMAIN lines' = {1} /\ Len(lines') = 1 /\ lines'[1].type = "INFO"
  BY <1>1
<1>3. Awaited' = 0 /\ RankOf(lines[1])' = 0
  BY <1>1, <1>2 DEF Awaited, RankOf, Rank
<1>4. ~request'
  BY <1>1 DEF Loader, LoaderState
<1>5. CASE answers' = <<>>
  <2>1. Len(answers') = 0
    BY <1>5
  <2>2. InStep'
    BY <1>1, <1>2, <1>3, <1>5, <2>1 DEF InStep
  <2> QED BY <1>1, <1>2, <1>4, <2>2 DEF Dialogue
<1>6. CASE answers' # <<>>
  <2>1. answers' = answers /\ Len(answers) \in Nat \ {0} /\ Len(answers) <= MaxStale
    BY <1>6 DEF StreamApplication, Loader, TypeOK
  <2>2. MaxStale \in Nat
    BY BootloaderConstants
  <2>3. RankOf(lines[1])' < Awaited' + Len(answers') + 1 - 1
        /\ Awaited' + Len(answers') + 1 - 1 < Shortest
    BY <1>3, <2>1, <2>2 DEF Shortest
  <2>4. (Late(lines[1], Awaited + Len(answers) + 1 - 1))'
    BY <2>3 DEF Late
  <2>5. Behind'
    BY <1>2, <2>4 DEF Behind
  <2> QED BY <1>1, <1>2, <1>4, <2>5 DEF Dialogue
<1> QED BY <1>5, <1>6

\* A host that stops, or has the application start the loader, waits for nothing.
LEMMA IdleKeepsDialogue ==
  ASSUME HostStops \/ RequestBootloader \/ host' = Idle
  PROVE  Dialogue'
<1>1. host' = Idle
  BY DEF HostStops, RequestBootloader
<1> QED BY <1>1 DEF Dialogue, Waiting, Idle

\* A host that goes on was not behind at this answer; on stale answers alone it
\* cannot be done, and its line comes after them.
LEMMA ReadsKeepsDialogue ==
  ASSUME Loader, Dialogue, HostReads, host' # Idle
  PROVE  Dialogue'
<1>1. /\ UNCHANGED <<unit, request, flash, state>> /\ Waiting /\ answers # <<>>
      /\ answers' = Tail(answers) /\ lines \in Seq(LineRecords)
      /\ answers \in Seq(AnswerRecords) /\ ~request
  BY DEF HostReads, Loader, TypeOK, Dialogue
<1>2. /\ host \in Hosts /\ Awaited \in 0 .. 5
      /\ RankOf(Head(answers)) = Awaited /\ Head(answers).type = host.phase
      /\ host' \in Hosts /\ host'.image = host.image
  BY HostGoesOn DEF Loader, TypeOK
<1>3. /\ Len(answers) \in Nat \ {0} /\ DOMAIN answers = 1 .. Len(answers)
      /\ Len(answers') = Len(answers) - 1 /\ DOMAIN answers' = 1 .. Len(answers) - 1
      /\ \A j \in 2 .. Len(answers) : answers'[j - 1] = answers[j]
      /\ Head(answers) = answers[1]
      /\ Len(lines) \in Nat /\ DOMAIN lines = 1 .. Len(lines)
  BY <1>1, HeadTailProperties
<1>4. Installed' = Installed /\ \A e : RankOf(e)' = RankOf(e)
  BY <1>1, <1>2, InstalledStays DEF RankOf, Rank
<1>5. CASE host'.phase = "DONE"
  <2>1. /\ host.phase = "BOOTING" /\ Awaited \in 4 .. 5 /\ lines' = lines
    BY <1>5, HostGoesOn DEF Loader, TypeOK
  <2>2. ~Behind
    <3>1. ASSUME NEW j \in DOMAIN answers, Late(answers[j], Awaited + j - 1) PROVE FALSE
      <4>1. j = 1
        BY <1>3, <2>1, <3>1 DEF Late, Shortest
      <4> QED BY <1>2, <1>3, <3>1, <4>1 DEF Late
    <3>2. ASSUME NEW j \in DOMAIN lines, Late(lines[j], Awaited + Len(answers) + j - 1)
          PROVE  FALSE
      BY <1>3, <2>1, <3>2 DEF Late, Shortest
    <3> QED BY <3>1, <3>2 DEF Behind
  <2>3. ~OnStaleAnswers
    BY <1>3, <2>1 DEF OnStaleAnswers, Shortest
  <2>4. InStep
    BY <1>1, <2>2, <2>3 DEF Dialogue
  <2>5. Installed
    BY <1>1, <1>2, <2>1, <2>4 DEF InStep
  <2>6. lines = <<>>
    <3> DEFINE m == Len(answers)
               n == Len(lines)
    <3>1. m \in Nat \ {0} /\ n \in Nat /\ m + n <= 1
      BY <1>3, <2>4 DEF InStep
    <3> HIDE DEF m, n
    <3>2. n = 0
      BY <3>1
    <3> QED BY <1>1, <3>2 DEF n
  <2> QED BY <1>4, <1>5, <2>1, <2>5, <2>6 DEF Dialogue, Waiting
<1>6. CASE host'.phase # "DONE"
  <2>1. /\ Awaited' = Awaited + 1
        /\ \/ host.phase = "OFCBOOT" /\ host'.phase = "READY"
           \/ host.phase \in {"READY", "ACK"} /\ host'.phase = "ACK"
           \/ host.phase = "ACK" /\ host'.phase = "OK"
           \/ host.phase = "OK" /\ host'.phase = "BOOTING"
    BY <1>6, HostGoesOn DEF Loader, TypeOK
  <2>2. PICK line \in LineRecords :
          /\ lines' = Append(lines, line)
          /\ line.type \in {"BEGIN", "DATA"} => line.image = host.image
          /\ RankOf(line)' = Awaited'
    BY <1>6, HostGoesOn DEF Loader, TypeOK
  <2>3. /\ Len(lines') = Len(lines) + 1 /\ DOMAIN lines' = 1 .. Len(lines) + 1
        /\ lines'[Len(lines) + 1] = line
        /\ \A j \in 1 .. Len(lines) : lines'[j] = lines[j]
    BY <1>1, <2>2
  <2>4. \A i \in DOMAIN lines' :
          lines'[i].type \in {"BEGIN", "DATA"} => lines'[i].image = host'.image
    <3>1. \A i \in DOMAIN lines' : i \in DOMAIN lines \/ i = Len(lines) + 1
      BY <1>3, <2>3
    <3> QED BY <1>1, <1>2, <1>3, <2>2, <2>3, <3>1 DEF Dialogue
  <2>5. CASE InStep
    <3> DEFINE m == Len(answers)
               n == Len(lines)
    <3>1. m \in Nat \ {0} /\ n \in Nat /\ m + n <= 1
      BY <1>3, <2>5 DEF InStep
    <3> HIDE DEF m, n
    <3>2. m = 1 /\ n = 0
      BY <3>1
    <3>3. /\ Len(answers') = 0 /\ answers' = <<>> /\ Len(lines') = 1 /\ DOMAIN lines' = {1}
          /\ lines'[1] = line
      BY <1>1, <1>3, <2>3, <3>2 DEF m, n
    <3>4. host'.phase \in {"ACK", "OK"} /\ state'.receiving => state'.crc32 = host'.image
      BY <1>1, <1>2, <2>1, <2>5, <3>2 DEF InStep, m, n
    <3>5. host'.phase = "BOOTING" => Installed'
      BY <1>1, <1>2, <1>4, <2>1, <2>5 DEF InStep
    <3>6. \A i \in DOMAIN lines' : RankOf(lines[i])' = Awaited'
      BY <2>2, <3>3
    <3>7. InStep'
      BY <3>3, <3>4, <3>5, <3>6 DEF InStep
    <3> QED BY <1>1, <1>6, <2>4, <3>7 DEF Dialogue
  <2>6. CASE \E j \in DOMAIN answers : Late(answers[j], Awaited + j - 1)
    <3>1. PICK j \in DOMAIN answers : Late(answers[j], Awaited + j - 1)
      BY <2>6
    <3>2. j # 1
      BY <1>2, <1>3, <3>1 DEF Late
    <3>3. PICK n \in DOMAIN answers' : n = j - 1 /\ answers'[n] = answers[j]
      BY <1>3, <3>2
    <3>4. Awaited + j - 1 = Awaited' + n - 1
      BY <1>2, <1>3, <2>1, <3>3
    <3>5. (Late(answers[n], Awaited + n - 1))'
      BY <1>4, <3>1, <3>3, <3>4 DEF Late
    <3>6. Behind'
      BY <3>5 DEF Behind
    <3> QED BY <1>1, <1>6, <2>4, <3>6 DEF Dialogue
  <2>7. CASE \E j \in DOMAIN lines : Late(lines[j], Awaited + Len(answers) + j - 1)
    <3>1. PICK j \in DOMAIN lines : Late(lines[j], Awaited + Len(answers) + j - 1)
      BY <2>7
    <3>2. Awaited + Len(answers) + j - 1 = Awaited' + Len(answers') + j - 1
      BY <1>2, <1>3, <2>1
    <3>3. j \in DOMAIN lines' /\ lines'[j] = lines[j]
      BY <1>3, <2>3
    <3>4. (Late(lines[j], Awaited + Len(answers) + j - 1))'
      BY <1>4, <3>1, <3>2, <3>3 DEF Late
    <3>5. Behind'
      BY <3>3, <3>4 DEF Behind
    <3> QED BY <1>1, <1>6, <2>4, <3>5 DEF Dialogue
  <2>8. CASE OnStaleAnswers
    <3>1. /\ Len(lines) = 0 /\ ~state.receiving /\ (unit = "RUNNING" \/ ~state.valid)
          /\ Awaited + Len(answers) < Shortest
      BY <2>8 DEF OnStaleAnswers
    <3>2. Len(lines') = 1 /\ DOMAIN lines' = {1} /\ lines'[1] = line
      BY <2>3, <3>1
    <3>3. RankOf(lines[1])' = Awaited'
      BY <2>2, <3>2
    <3>4. CASE Len(answers) = 1
      <4>1. Len(answers') = 0 /\ answers' = <<>>
        BY <1>1, <1>3, <3>4
      <4>2. ~state'.receiving /\ (unit' = "RUNNING" \/ ~state'.valid)
        BY <1>1, <3>1
      <4>3. \A i \in DOMAIN lines' : RankOf(lines[i])' = Awaited'
        BY <3>2, <3>3
      <4>4. Len(answers') + Len(lines') <= 1
        BY <3>2, <4>1
      <4>5. InStep'
        BY <4>1, <4>2, <4>3, <4>4 DEF InStep
      <4> QED BY <1>1, <1>6, <2>4, <4>5 DEF Dialogue
    <3>5. CASE Len(answers) # 1
      <4>1. RankOf(lines[1])' < Awaited' + Len(answers') + 1 - 1
            /\ Awaited' + Len(answers') + 1 - 1 < Shortest
        BY <1>2, <1>3, <2>1, <3>1, <3>3, <3>5 DEF Shortest
      <4>2. (Late(lines[1], Awaited + Len(answers) + 1 - 1))'
        BY <4>1 DEF Late
      <4>3. Behind'
        BY <3>2, <4>2 DEF Behind
      <4> QED BY <1>1, <1>6, <2>4, <4>3 DEF Dialogue
    <3> QED BY <3>4, <3>5
  <2> QED BY <1>1, <2>5, <2>6, <2>7, <2>8 DEF Dialogue, Behind
<1> QED BY <1>5, <1>6

LEMMA InitIsDialogue ==
  ASSUME Init
  PROVE  Dialogue
BY DEF Init, Dialogue, Waiting, Idle

LEMMA StepKeepsDialogue ==
  ASSUME Loader, Dialogue, MaxStale < Shortest, [Next]_vars
  PROVE  Dialogue'
<1>1. CASE UNCHANGED vars
  <2>1. UNCHANGED <<unit, request, flash, state, lines, answers, host>>
    BY <1>1 DEF vars, pipe
  <2>2. Awaited' = Awaited /\ \A e : RankOf(e)' = RankOf(e)
    BY <2>1 DEF Awaited, RankOf, Rank
  <2>3. Installed' = Installed
    BY <2>1, InstalledStays
  <2>4. InStep' = InStep
    BY <2>1, <2>2, <2>3 DEF InStep
  <2>5. Behind' = Behind
    BY <2>1, <2>2 DEF Behind, Late
  <2>6. OnStaleAnswers' = OnStaleAnswers
    BY <2>1, <2>2 DEF OnStaleAnswers
  <2> QED BY <2>1, <2>3, <2>4, <2>5, <2>6 DEF Dialogue, Waiting
<1>2. CASE HostReads
  BY <1>2, ReadsKeepsDialogue, IdleKeepsDialogue
<1> QED BY <1>1, <1>2, StartKeepsDialogue, JoinedKeepsDialogue, InfoKeepsDialogue,
           BeginKeepsDialogue, DataKeepsDialogue, EndKeepsDialogue, BootKeepsDialogue,
           ResetKeepsDialogue, LossKeepsDialogue, IdleKeepsDialogue, StreamKeepsDialogue
           DEF Next

\* An update that the host reports as done is installed, for every set of images
\* and whatever was lost or left behind before: as long as a host that opens the
\* port finds fewer stale answers than the shortest dialogue has (usb_flash.py,
\* _stream_application; bootloader_protocol.c).
THEOREM ReportedIsInstalled ==
  ASSUME MaxStale < Shortest
  PROVE  Spec => []ReportedUpdateIsInstalled
<1>1. Init => IInv
  BY InitIsLoader, InitIsDialogue DEF IInv
<1>2. IInv /\ [Next]_vars => IInv'
  BY StepKeepsLoader, StepKeepsDialogue DEF IInv
<1>3. IInv => ReportedUpdateIsInstalled
  BY DEF IInv, Dialogue, Installed, ReportedUpdateIsInstalled
<1> QED BY <1>1, <1>2, <1>3, PTL DEF Spec

===============================================================================
