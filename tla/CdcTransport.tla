----------------------------- MODULE CdcTransport -----------------------------
(***************************************************************************)
(* The USB serial transport: peripherals/usb/usb_cdc_transport.c with the  *)
(* framer of newline_framer.c.  The callbacks of the USB stack (Attach,    *)
(* Detach, PartArrives, TransferEnds) run in the interrupt, between the    *)
(* steps of the task (Receive, Transmit and the writes of UsbService).     *)
(*                                                                         *)
(* What the host sends comes in parts: a request is two of them, the       *)
(* second one ends the line.  A part knows its request, so that a line put *)
(* together from two requests shows.  What the device sends are whole      *)
(* messages, numbered in the order in which they were queued.              *)
(***************************************************************************)
EXTENDS Naturals, Sequences, SequencesExt

CONSTANTS
  RingCapacity,    \* USB_CDC_RAW_RECEIVE_CAPACITY; one place stays free
  LineCapacity,    \* NEWLINE_FRAMER_MAX_LINE_LENGTH, in parts
  LineDepth,       \* USB_CDC_RECEIVE_LINE_QUEUE_DEPTH
  TransmitDepth    \* USB_CDC_TRANSMIT_QUEUE_DEPTH

VARIABLES
  link,       \* usb_device.dev_state: "DETACHED" or "CONFIGURED"
  ring,       \* the bytes between raw_receive_tail and raw_receive_head
  overflow,   \* receive_overflow_pending
  framer,     \* the line so far, and whether it is being discarded
  lines,      \* received_lines
  tx,         \* the transmit queue, its flags, and whether the USB stack is sending
  completed,  \* the task's copy of transmit_completed, while it finishes a transfer
  heard       \* the host: has the head of the queue; has had nothing since it attached

receiveVars  == <<ring, overflow, framer, lines>>
transmitVars == <<tx, completed, heard>>
cdcVars      == <<link, receiveVars, transmitVars>>

ASSUME CdcAssumption ==
  {RingCapacity, LineCapacity, LineDepth, TransmitDepth} \subseteq Nat \ {0}

EmptyFramer == [line |-> <<>>, discarding |-> FALSE]

\* usb_cdc_transport_initialize.
CdcInit ==
  /\ link = "DETACHED"
  /\ ring = <<>> /\ overflow = FALSE /\ framer = EmptyFramer /\ lines = <<>>
  /\ tx = [queue |-> <<>>, active |-> FALSE, done |-> FALSE, sending |-> FALSE]
  /\ completed = FALSE
  /\ heard = [head |-> FALSE, fresh |-> FALSE]

(***************************************************************************)
(* The interrupt.                                                          *)
(***************************************************************************)
\* cdc_initialize.
Attach ==
  /\ link = "DETACHED"
  /\ link' = "CONFIGURED"
  /\ tx' = [tx EXCEPT !.active = FALSE, !.done = FALSE, !.sending = FALSE]
  /\ heard' = [heard EXCEPT !.fresh = TRUE]
  /\ UNCHANGED <<receiveVars, completed>>

\* cdc_deinitialize.
Detach ==
  /\ link = "CONFIGURED"
  /\ link' = "DETACHED"
  /\ tx' = [tx EXCEPT !.active = FALSE, !.done = FALSE, !.sending = FALSE]
  /\ UNCHANGED <<receiveVars, completed, heard>>

\* cdc_receive: a part that finds the ring full is lost, and the flag is set.
PartArrives(part) ==
  /\ link = "CONFIGURED"
  /\ IF Len(ring) + 1 >= RingCapacity
     THEN overflow' = TRUE /\ UNCHANGED ring
     ELSE ring' = Append(ring, part) /\ UNCHANGED overflow
  /\ UNCHANGED <<link, framer, lines, transmitVars>>

\* cdc_transmit_complete: the host has the message at the head of the queue.
TransferEnds ==
  /\ link = "CONFIGURED" /\ tx.sending
  /\ tx' = [tx EXCEPT !.done = TRUE, !.sending = FALSE]
  /\ heard' = [head |-> TRUE, fresh |-> FALSE]
  /\ UNCHANGED <<link, receiveVars, completed>>

(***************************************************************************)
(* The framer.                                                             *)
(***************************************************************************)
DiscardCurrentLine == [line |-> <<>>, discarding |-> TRUE]

EndsLine(part) == part.at = 2

\* newline_framer_consume: the framer after a part.
Framed(f, part) ==
  CASE f.discarding                 -> [f EXCEPT !.discarding = ~EndsLine(part)]
    [] ~f.discarding /\ EndsLine(part) -> EmptyFramer
    [] OTHER -> IF Len(f.line) = LineCapacity THEN DiscardCurrentLine
                ELSE [f EXCEPT !.line = Append(@, part)]

\* Wrong on purpose: the depth of the queue is not checked.
LinesAfterUnchecked(f, part) ==
  IF EndsLine(part) /\ ~f.discarding THEN Append(lines, Append(f.line, part)) ELSE lines

\* completed_line: the line that the part ends; with the queue full it is lost.
LinesAfter(f, part) ==
  IF EndsLine(part) /\ ~f.discarding /\ Len(lines) < LineDepth
  THEN Append(lines, Append(f.line, part)) ELSE lines

(***************************************************************************)
(* The task: usb_cdc_transport_process, one part at a time.                *)
(***************************************************************************)
\* Wrong on purpose: the flag of the completed transfer is read and not cleared.
ReceiveUncleared ==
  LET f == IF overflow THEN DiscardCurrentLine ELSE framer
  IN /\ overflow' = FALSE
     /\ IF ring = <<>>
        THEN framer' = f /\ UNCHANGED <<ring, lines>>
        ELSE /\ ring' = Tail(ring)
             /\ framer' = Framed(f, Head(ring))
             /\ lines' = LinesAfter(f, Head(ring))
     /\ completed' = tx.done
     /\ UNCHANGED <<tx, link, heard>>

\* process_received_bytes takes a part from the tail of the ring together with
\* the flag, whatever the place of the ring the loss belongs to; then
\* finish_completed_transmission takes the other flag.
Receive ==
  LET f == IF overflow THEN DiscardCurrentLine ELSE framer
  IN /\ overflow' = FALSE
     /\ IF ring = <<>>
        THEN framer' = f /\ UNCHANGED <<ring, lines>>
        ELSE /\ ring' = Tail(ring)
             /\ framer' = Framed(f, Head(ring))
             /\ lines' = LinesAfter(f, Head(ring))
     /\ completed' = tx.done
     /\ tx' = [tx EXCEPT !.done = FALSE]
     /\ UNCHANGED <<link, heard>>

\* The rest of finish_completed_transmission.
Finished(t) ==
  IF completed /\ t.active THEN [t EXCEPT !.active = FALSE, !.queue = Tail(@)] ELSE t

\* start_pending_transmission; the USB stack refuses while it is sending.
Started(t) ==
  IF t.active \/ t.queue = <<>> \/ link # "CONFIGURED" \/ t.sending THEN t
  ELSE [t EXCEPT !.active = TRUE, !.sending = TRUE]

Transmit ==
  /\ tx' = Started(Finished(tx))
  /\ heard' = [heard EXCEPT !.head = @ /\ Len(tx'.queue) = Len(tx.queue)]
  /\ completed' = FALSE
  /\ UNCHANGED <<link, receiveVars>>

\* usb_cdc_transport_try_write and its result; a message is never empty or too long.
WriteResult(t) == IF Len(t.queue) = TransmitDepth THEN "BUSY" ELSE "ACCEPTED"

WrittenTo(t, message) ==
  IF WriteResult(t) = "BUSY" THEN t
  ELSE [t EXCEPT !.queue = Append(@, message)]

=============================================================================
