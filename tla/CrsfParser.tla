----------------------------- MODULE CrsfParser -----------------------------
(***************************************************************************)
(* The frames of the radio receiver: peripherals/crsf/crsf_parser.c,       *)
(* crsf_decoder.c and crsf_receiver_source.c.  A frame is an address, a    *)
(* length, a type, a payload and a checksum of the two; nothing marks      *)
(* where a frame begins.  Bytes are numbers, and the checksum is the real  *)
(* one.  MCFlightControl evaluates what is assumed here.                   *)
(***************************************************************************)
EXTENDS Integers, FiniteSets, SequencesExt, Bitwise

Addresses == {0, 200, 234, 236, 238}
Lengths   == 2 .. 62
RC_CHANNELS_PACKED == 22
LINK_STATISTICS    == 20
ByteBudget == 512

\* What the operator makes of the bytes, one after the other.  TLC nests the steps
\* of a fold, and the whole of a frame would be too deep: eight at a time.
Along(Op(_, _), base, bytes) ==
  LET Piece(k)   == SubSeq(bytes, 8 * k + 1, IF 8 * k + 8 < Len(bytes) THEN 8 * k + 8 ELSE Len(bytes))
      Next(r, k) == CHOOSE after \in { FoldLeft(Op, before, Piece(k - 1)) : before \in {r} } : TRUE
  IN FoldLeft(Next, base, [k \in 1 .. (Len(bytes) + 7) \div 8 |-> k])

\* crsf_crc8.  What the eight shifts make of a byte does not depend on the rest.
Shifted ==
  LET Shift(crc, bit) == IF crc >= 128 THEN ((crc - 128) * 2) ^^ 213 ELSE crc * 2
  IN [crc \in 0 .. 255 |-> FoldLeft(Shift, crc, << 7, 6, 5, 4, 3, 2, 1, 0 >>)]
Crc8(bytes) ==
  LET Added(crc, byte) == Shifted[crc ^^ byte] IN Along(Added, 0, bytes)

(***************************************************************************)
(* crsf_parser_push_byte.                                                  *)
(***************************************************************************)
\* crsf_parser_initialize, and what a finished or rejected frame leaves.
InStep == [buffer |-> <<>>, expected |-> 0]

Started(byte) ==
  IF byte \in Addresses THEN [InStep EXCEPT !.buffer = << byte >>] ELSE InStep

\* A frame is its type and payload; <<>> stands for none.
NoFrame == <<>>
Outcome(p, frame, rejected) == [parser |-> p, frame |-> frame, rejected |-> rejected]

LengthByte(p, byte) ==
  IF byte \in Lengths
  THEN Outcome([buffer |-> Append(p.buffer, byte), expected |-> byte + 2], NoFrame, FALSE)
  ELSE Outcome(Started(byte), NoFrame, TRUE)

\* The last byte is the checksum of all but itself and the first two.
LastByte(p, byte) ==
  LET content == SubSeq(p.buffer, 3, Len(p.buffer))
      valid   == Crc8(content) = byte
  IN Outcome(InStep, IF valid THEN content ELSE NoFrame, ~valid)

PushByte(p, byte) ==
  CASE p.buffer = <<>>                -> Outcome(Started(byte), NoFrame, FALSE)
    [] Len(p.buffer) = 1              -> LengthByte(p, byte)
    [] Len(p.buffer) = p.expected - 1 -> LastByte(p, byte)
    [] OTHER -> Outcome([p EXCEPT !.buffer = Append(@, byte)], NoFrame, FALSE)

(***************************************************************************)
(* crsf_receiver_source_read.                                              *)
(***************************************************************************)
IsChannels(frame) == frame # NoFrame /\ frame[1] = RC_CHANNELS_PACKED /\ Len(frame) > 22

\* One call takes bytes until a channel frame is complete.  An error the UART
\* had reported before leaves the bytes alone, one of the meantime (`failing')
\* only outweighs what else the call would report.
ReadFrame(p, bytes, failed, failing) ==
  LET none == [parser |-> p, taken |-> 0, frame |-> NoFrame, invalid |-> FALSE]
      Take(r, byte) ==
        IF IsChannels(r.frame) \/ r.taken = ByteBudget THEN r
        ELSE LET o == PushByte(r.parser, byte)
             IN [parser |-> o.parser, taken |-> r.taken + 1,
                 frame  |-> IF IsChannels(o.frame) THEN o.frame ELSE NoFrame,
                 invalid |-> r.invalid \/ o.rejected]
      read == IF failed THEN none ELSE Along(Take, none, bytes)
  IN [read |-> read,
      result |-> IF IsChannels(read.frame) THEN "FRAME_AVAILABLE"
                 ELSE IF failed \/ failing THEN "ERROR"
                 ELSE IF read.invalid THEN "INVALID_FRAME" ELSE "NO_FRAME"]

\* crsf_receiver_source_discard_partial_frame.
DiscardPartialFrame(p) == InStep

\* crsf_decode_channels: the 16 channels of 11 bits, out of up to three bytes
\* each (a bit below, bits above the channel are cut off).
Channel(payload, c) ==
  LET offset == (c * 11) \div 8
      shift  == (c * 11) % 8
      At(i)  == IF i < 22 THEN payload[i + 1] ELSE 0
      packed == At(offset) + At(offset + 1) * 256 + At(offset + 2) * 65536
  IN (packed \div 2^shift) % 2048
DecodedChannels(frame) == [c \in 0 .. 15 |-> Channel(Tail(frame), c)]

(***************************************************************************)
(* What the driver does, on streams of frames.                             *)
(***************************************************************************)
\* A frame on the wire.
Wire(frame) == << 200, Len(frame) + 1 >> \o frame \o << Crc8(frame) >>

\* The frames that a parser finds in a stream, and the parser afterwards.
Parse(p, bytes) ==
  LET Take(found, byte) ==
        LET o == PushByte(found.parser, byte)
        IN [parser |-> o.parser,
            frames |-> IF o.frame = NoFrame THEN found.frames ELSE Append(found.frames, o.frame)]
  IN Along(Take, [parser |-> p, frames |-> <<>>], bytes)

\* Short frames whose payload looks like the start of another one.
TrickyFrames == { << RC_CHANNELS_PACKED >> \o s : s \in SeqOf({0, 2, 200}, 2) }
                  \cup { << LINK_STATISTICS, 200, 62 >> }

\* A parser in step finds every frame, whatever their payloads look like.
ASSUME FramesAreFound ==
  \A f, g \in TrickyFrames :
    Parse(InStep, Wire(f) \o Wire(g)) = [parser |-> InStep, frames |-> << f, g >>]

\* A damaged byte of a frame, be it the length or the checksum, may cost frames,
\* but never delivers one that was not sent.
Damaged(bytes, i, by) == [bytes EXCEPT ![i] = @ ^^ by]
ASSUME DamageIsNotDelivered ==
  \A f \in TrickyFrames, by \in {1, 2, 128, 255} :
    \A i \in 1 .. Len(Wire(f)) :
      ToSet(Parse(InStep, Damaged(Wire(f), i, by) \o Wire(f) \o Wire(f)).frames) \subseteq {f}

\* The buffer of 64 bytes is never overrun, and the longest frame uses its last
\* byte: byte by byte it is taken, and then delivered.
ASSUME BufferSuffices ==
  LET longest  == << RC_CHANNELS_PACKED >> \o [i \in 1 .. 60 |-> 255]
      wire     == Wire(longest)
      After(n) == [buffer |-> SubSeq(wire, 1, n), expected |-> 64]
  IN /\ Len(wire) = 64 /\ \A length \in Lengths : length + 2 <= 64
     /\ PushByte(Started(wire[1]), wire[2]).parser = After(2)
     /\ \A n \in 2 .. 62 : PushByte(After(n), wire[n + 1]).parser = After(n + 1)
     /\ PushByte(After(63), wire[64]) = Outcome(InStep, longest, FALSE)

\* A channel is bits 11c to 11c + 10 of the payload, the lowest first.
PayloadBit(payload, n) == (payload[(n \div 8) + 1] \div 2^(n % 8)) % 2
ASSUME ChannelsAreTheirBits ==
  \A payload \in { [i \in 1 .. 22 |-> (i * k + k \div 7) % 256] : k \in {1, 37, 91, 255} } :
    \A c \in 0 .. 15 :
      LET Bits(value, b) == value + PayloadBit(payload, 11 * c + b) * 2^b
      IN DecodedChannels(<< RC_CHANNELS_PACKED >> \o payload)[c]
           = FoldLeft(Bits, 0, << 0, 1, 2, 3, 4, 5, 6, 7, 8, 9, 10 >>)

\* A call passes over other frames, stops behind the first channel frame and
\* leaves what follows for the next call, be there an error in the meantime or
\* not; half a frame is kept for the next call.
Steady == << RC_CHANNELS_PACKED >> \o [i \in 1 .. 22 |-> i + 30]
ASSUME OneFrameAtATime ==
  LET other  == Wire(<< LINK_STATISTICS, 1 >>)
      stream == other \o Wire(Steady) \o << 200 >>
      half   == SubSeq(Wire(Steady), 1, 10)
      first  == ReadFrame(InStep, stream, FALSE, TRUE)
  IN /\ first.result = "FRAME_AVAILABLE" /\ first.read.frame = Steady
     /\ first.read.taken = Len(stream) - 1 /\ first.read.parser = InStep
     /\ ReadFrame(InStep, half, FALSE, TRUE).result = "ERROR"
     /\ ReadFrame(InStep, half, FALSE, FALSE).read.parser.buffer = half
     /\ ReadFrame(InStep, stream, TRUE, FALSE).read.taken = 0

\* The parsers that begin in the middle of a frame, as after the recovery of the
\* UART, and what the same frame, sent again, makes of them.
Late(frame) ==
  { Parse(DiscardPartialFrame(InStep), SubSeq(Wire(frame), k, Len(Wire(frame)))).parser :
      k \in 2 .. Len(Wire(frame)) }
Later(frame, parsers) == { Parse(p, Wire(frame)).parser : p \in parsers }

\* With most payloads they are in step two frames later ...
ASSUME LateStartFindsFrames == Later(Steady, Later(Steady, Late(Steady))) = {InStep}

\* ... but channels that happen to hold an address and the length of their own
\* frame keep a parser out of step for as long as they do not change.
ASSUME StillChannelsKeepItOut ==
  LET still == [Steady EXCEPT ![8] = 200, ![9] = 24]
  IN \E p \in Late(still) : Parse(p, Wire(still)) = [parser |-> p, frames |-> <<>>]

=============================================================================
