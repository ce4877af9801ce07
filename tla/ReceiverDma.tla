----------------------------- MODULE ReceiverDma -----------------------------
(***************************************************************************)
(* The byte stream of the radio receiver (board_receiver.c): DMA writes a  *)
(* circular buffer, an interrupt counts its laps, and the receiver task    *)
(* reads behind it.  Task, interrupt and DMA share two counters and a      *)
(* position, and none of them waits for another.                           *)
(***************************************************************************)
EXTENDS Integers

CONSTANTS
  DmaCapacity,  \* FLIGHTCOMPUTER_V1_RECEIVER_DMA_CAPACITY
  CountWidth    \* the byte counters are uint32_t: 2^32

ASSUME ReceiverDmaConstants ==
  DmaCapacity \in Nat \ {0} /\ CountWidth \in Nat \ {0}

(***************************************************************************)
(* The DMA stream since it was last started; receiver_restart_dma starts   *)
(* it, and both counters, anew.  A lap may be over and its interrupt still *)
(* pending.                                                                *)
(***************************************************************************)
Streams ==
  { s \in [laps : Nat, position : 0 .. DmaCapacity - 1, wraps : Nat] :
      s.laps \in {s.wraps, s.wraps + 1} }

Restarted == [laps |-> 0, position |-> 0, wraps |-> 0]

\* HAL_UART_RxCpltCallback.
LapIsPending(s) == s.laps # s.wraps

\* The bytes received, numbered from 0, and those that are still in the buffer.
Received(s) == s.laps * DmaCapacity + s.position
Held(s)     == { n \in 0 .. Received(s) - 1 : n >= Received(s) - DmaCapacity }

(***************************************************************************)
(* receiver_read_byte.                                                     *)
(***************************************************************************)
\* receiver_dma_produced_byte_count.  The wraps are read before and after the
\* position, until they agree; a lap that ends in between is one more of the
\* moments at which its interrupt is pending.
Produced(s) == (s.wraps * DmaCapacity + s.position) % CountWidth

Backlog(read, s) == Produced(s) - read
Dropped(read, s) ==
  IF Backlog(read, s) > DmaCapacity THEN Backlog(read, s) - DmaCapacity ELSE 0

\* The byte that is delivered is the one of this number, if there is one.
Delivers(read, s) == Backlog(read, s) > 0
Number(read, s)   == read + Dropped(read, s)

ReadCount(read, s) ==
  IF Delivers(read, s) THEN (Number(read, s) + 1) % CountWidth ELSE read

=============================================================================
