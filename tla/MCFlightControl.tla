---------------------------- MODULE MCFlightControl ----------------------------
(***************************************************************************)
(* Flying by receiver, with what is taken for granted there: the frames    *)
(* that the driver finds in the byte stream, and the clock.  Instances:    *)
(* MCFlightControl.cfg and MCFlightControlLatch.cfg.                       *)
(***************************************************************************)
EXTENDS FlightControl, ControlCore, CrsfParser, ReceiverDma, Timebase

=============================================================================
