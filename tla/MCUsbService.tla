----------------------------- MODULE MCUsbService -----------------------------
(***************************************************************************)
(* The requests that the host of a run may send.  Three are enough for a   *)
(* capture that is started, read in part, and read again; an answer that   *)
(* waits, with a line behind it; and a request joined with the rest of     *)
(* another one.                                                            *)
(***************************************************************************)
EXTENDS UsbService

M(name, value) == [name |-> name, value |-> value]

Plain(command) == <<M("type", "command"), M("command", command), M("request_id", "count")>>

TraceStart(level) == Append(Plain("control_trace_start"), M("level", level))

HostDocuments ==
  [arm         |-> Plain("arm"),
   disarm      |-> Plain("disarm"),
   enter       |-> Plain("bootloader_enter"),
   level       |-> Plain("imu_level_calibration_start"),
   logs        |-> Plain("flight_log_list"),
   trace_start |-> TraceStart("LOW_RATE"),
   trace_read  |-> Plain("control_trace_read")]

HostScript ==
  <<{"trace_start", "enter"}, {"arm", "trace_read"},
    {"disarm", "level", "logs", "trace_read"}>>

HandoffScript == <<{"enter"}>>

OverflowScript == <<{"trace_start"}, {"arm"}>>

=============================================================================
