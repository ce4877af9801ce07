----------------------------- MODULE ControlTrace -----------------------------
(***************************************************************************)
(* The control trace: the ring of app/control_trace.c that the flight task *)
(* fills and a host empties over the USB, as operators on its state.  Of a *)
(* sample the model keeps the lifecycle it shows, whether anything else    *)
(* that counts as an event changed, and whether the sampling period is     *)
(* over; of a record its sequence number.                                  *)
(***************************************************************************)
EXTENDS Naturals, Sequences, SequencesExt

CONSTANTS
  TraceCapacity,     \* CONTROL_TRACE_CAPACITY
  TraceRecordLimit   \* CONTROL_TRACE_USB_RECORD_LIMIT

ASSUME TraceAssumption == {TraceCapacity, TraceRecordLimit} \subseteq Nat \ {0}

\* control_trace_initialize.  "pending" are the records produced and not consumed.
IdleTrace ==
  [level |-> "OFF", capture |-> 0, produced |-> 0, pending |-> <<>>,
   observed |-> FALSE, previous |-> "STARTING", armedSeen |-> FALSE]

Capturing(trace) == trace.level # "OFF"

\* control_trace_start, when it accepts; the capture starts from nothing.
StartedTrace(trace, level) == [IdleTrace EXCEPT !.level = level, !.capture = trace.capture + 1]

StoppedTrace(trace) == [trace EXCEPT !.level = "OFF"]

\* Only the sampled levels have a period.
PeriodicLevels == {"LOW_RATE", "HIGH_RATE", "FULL_RATE"}

\* observe_events: whether the sample is an event, and what is remembered of it.
IsEvent(trace, mode, changed) == ~trace.observed \/ mode # trace.previous \/ changed

Observed(trace, mode) ==
  [trace EXCEPT !.observed = TRUE, !.previous = mode, !.armedSeen = @ \/ mode = "ARMED"]

\* The sample that ends a capture: a fault, or the end of an armed time.
IsTerminal(trace, mode) ==
  mode = "FAULT" \/ (trace.armedSeen /\ mode \in {"DISARMED", "FAILSAFE"})

\* Wrong on purpose: no place is kept for the sample that ends the capture.
PlacesUnreserved(terminal) == TraceCapacity

\* A sample that does not end the capture leaves one place for the one that does.
Places(terminal) == IF terminal THEN TraceCapacity ELSE TraceCapacity - 1

\* control_trace_record.
RecordedTrace(trace, mode, changed, due) ==
  LET seen     == Observed(trace, mode)
      terminal == IsTerminal(seen, mode)
      wanted   == IsEvent(trace, mode, changed) \/ terminal
                    \/ (due /\ trace.level \in PeriodicLevels)
      kept     == IF Len(trace.pending) >= Places(terminal)
                  THEN seen
                  ELSE [seen EXCEPT !.produced = @ + 1, !.pending = Append(@, seen.produced + 1)]
  IN IF ~Capturing(trace) THEN trace
     ELSE IF ~wanted THEN seen
     ELSE IF terminal THEN StoppedTrace(kept) ELSE kept

\* control_trace_peek: how many records a read is offered.
BatchCount(trace) ==
  IF Len(trace.pending) < TraceRecordLimit THEN Len(trace.pending) ELSE TraceRecordLimit

\* control_trace_discard.
DiscardedTrace(trace, count) ==
  IF count > Len(trace.pending) THEN trace
  ELSE [trace EXCEPT !.pending = SubSeq(@, count + 1, Len(@))]

\* usb_control_trace_read_response_build: the first "count" records of the
\* batch, those that fit in the response; with records there, at least one fits.
ReadableCounts(trace) ==
  IF trace.pending = <<>> THEN {0} ELSE 1 .. BatchCount(trace)

=============================================================================
