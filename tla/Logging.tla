-------------------------------- MODULE Logging --------------------------------
(***************************************************************************)
(* The log queue (app/logging.c) and its USB backend                       *)
(* (app/usb_logging_backend.c), as operators on the number of records in    *)
(* the queue.                                                              *)
(***************************************************************************)
EXTENDS Naturals, Sequences, SequencesExt

CONSTANTS
  LogCapacity,      \* LOGGING_QUEUE_CAPACITY
  GlobalThreshold   \* logging_default_global_threshold

Levels == <<"DEBUG", "INFO", "WARN", "ERROR", "FATAL">>

ASSUME LoggingAssumption ==
  /\ LogCapacity \in Nat \ {0}
  /\ GlobalThreshold \in 1 .. Len(Levels) + 1   \* above the last: LOG_THRESHOLD_OFF

\* logging_should_emit; no module overrides the threshold in the firmware.
ShouldEmit(level) == \E k \in DOMAIN Levels : Levels[k] = level /\ k >= GlobalThreshold

\* logging_write: a record that finds the queue full is lost (its number is not
\* given to the next one, so that the gap shows).
WrittenLog(queued, level) ==
  IF ~ShouldEmit(level) \/ queued >= LogCapacity THEN queued ELSE queued + 1

\* logging_drain_once, given what the transport answered: a record stays only
\* while the transport is busy.
DrainedLog(queued, result) == IF queued = 0 \/ result = "BUSY" THEN queued ELSE queued - 1

=============================================================================
