------------------------------ MODULE UsbService ------------------------------
(***************************************************************************)
(* The USB service: a run of usb_service_task.c moves the transport on,    *)
(* takes at most one command (usb_command_processor.c), hands over to the  *)
(* bootloader when nothing is left to send, and drains one log record.     *)
(* Interrupts come between the steps of a run; the other tasks of the      *)
(* cooperative scheduler come between two runs.  The command and the drain *)
(* touch nothing that an interrupt does, so the interrupts are only        *)
(* explored before the two steps of the transport.                         *)
(*                                                                         *)
(* What the commands do to the configuration is in ConfigurationService,   *)
(* and to the storage in Blackbox; here they are commands that answer.     *)
(* The motor gate is the authority that MotorControl implements; nothing   *)
(* here depends on power, so no frame asks for it.                         *)
(***************************************************************************)
EXTENDS JsonProtocol, ControlTrace, Logging, CdcTransport

CONSTANTS
  Documents,     \* what the host may send: a sequence of members per name
  None,          \* MOTOR_CONTROL_SOURCE_NONE
  Sources,       \* the sources of motor commands of the other tasks
  Script,        \* model bound: the names each request of the host is taken from
  MaxRecords,    \* model bound: records of a capture
  Stays          \* model bound: the host never closes the port

VARIABLES
  step,        \* where the run of the task is
  response,    \* pending_response, or NoMessage
  discard,     \* pending_trace_discard_count
  handoff,     \* bootloader_handoff_pending
  device,      \* "RUNNING", or "LOADER" after board_request_usb_bootloader
  trace,       \* control_trace_t
  log,         \* the log queue
  mode, requested, owner, powered,   \* the lifecycle and the motor gate
  sent,        \* the host: requests sent, and the document it is in the middle of
  seen         \* the host: the last batch of trace records

Gate == INSTANCE MotorAuthority

gateVars    == <<mode, requested, owner, powered>>
commandVars == <<response, discard, handoff>>
hostVars    == <<sent, seen>>
vars == <<step, commandVars, device, trace, log, gateVars, hostVars, cdcVars>>

ASSUME ServiceAssumption ==
  /\ MaxRecords \in Nat /\ Stays \in BOOLEAN
  /\ Script \in Seq(SUBSET DOMAIN Documents)

Steps == {"receive", "transmit", "command", "drain"}

Whole == "no part is missing"

\* Messages to the host.
Answer == [kind |-> "answer", capture |-> 0, first |-> 0, count |-> 0]
LogLine == [Answer EXCEPT !.kind = "log"]
NoMessage == [Answer EXCEPT !.kind = "none"]

Init ==
  /\ CdcInit
  /\ step = "receive"
  /\ response = NoMessage /\ discard = 0 /\ handoff = FALSE
  /\ device = "RUNNING"
  /\ trace = IdleTrace
  /\ log = 0
  /\ mode = "DISARMED" /\ requested = None /\ owner = None /\ powered = FALSE
  /\ sent = [count |-> 0, within |-> Whole]
  /\ seen = [capture |-> 0, next |-> 1]

(***************************************************************************)
(* The host and the interrupt.                                             *)
(***************************************************************************)
At(s) == device = "RUNNING" /\ step = s

InterruptEnabled == At("receive") \/ At("transmit")

\* The host sends the first half of a request, then the rest and the newline.
\* Only the next Receive sees it.
HostSends ==
  /\ At("receive")
  /\ \/ /\ sent.within = Whole /\ sent.count < Len(Script)
        /\ \E name \in Script[sent.count + 1] :
             /\ sent' = [count |-> sent.count + 1, within |-> name]
             /\ PartArrives([request |-> sent.count + 1, document |-> name, at |-> 1])
     \/ /\ sent.within # Whole
        /\ sent' = [sent EXCEPT !.within = Whole]
        /\ PartArrives([request |-> sent.count, document |-> sent.within, at |-> 2])
  /\ UNCHANGED <<step, commandVars, device, trace, log, gateVars, seen>>

\* The host opens the port, or closes it in the middle of what it sends.
HostAttaches ==
  /\ InterruptEnabled /\ Attach
  /\ UNCHANGED <<step, commandVars, device, trace, log, gateVars, hostVars>>

HostDetaches ==
  /\ InterruptEnabled /\ ~Stays /\ Detach
  /\ sent' = [sent EXCEPT !.within = Whole]
  /\ UNCHANGED <<step, commandVars, device, trace, log, gateVars, seen>>

HostReads ==
  /\ InterruptEnabled /\ TransferEnds
  /\ LET message == Head(tx.queue)
     IN seen' = IF message.kind # "records" THEN seen
                ELSE [capture |-> message.capture, next |-> message.first + message.count]
  /\ UNCHANGED <<step, commandVars, device, trace, log, gateVars, sent>>

(***************************************************************************)
(* The transport's part of a run.                                          *)
(***************************************************************************)
ReceiveStep ==
  /\ At("receive") /\ Receive /\ step' = "transmit"
  /\ UNCHANGED <<commandVars, device, trace, log, gateVars, hostVars>>

TransmitStep ==
  /\ At("transmit") /\ Transmit /\ step' = "command"
  /\ UNCHANGED <<commandVars, device, trace, log, gateVars, hostVars>>

(***************************************************************************)
(* usb_command_processor_process_once.                                     *)
(***************************************************************************)
\* try_send_pending_response: the records leave the trace when their response
\* leaves the processor.
TrySend(message, count, t) ==
  IF WriteResult(tx) = "ACCEPTED"
  THEN /\ tx' = WrittenTo(tx, message)
       /\ response' = NoMessage /\ discard' = 0
       /\ trace' = DiscardedTrace(t, count)
  ELSE /\ response' = message /\ discard' = count
       /\ trace' = t /\ UNCHANGED tx

Answers(t) == TrySend(Answer, 0, t)

\* What is in a line, and the command it is read as.
MembersOf(part) ==
  LET members == Documents[part.document]
  IN IF part.at = 1 THEN SubSeq(members, 1, 2) ELSE SubSeq(members, 3, Len(members))

CommandOf(line) == ParseRequest(FlattenSeq([k \in DOMAIN line |-> MembersOf(line[k])]))

\* The accepted transitions are logged.
LogsTransition(t) == log' = WrittenLog(log, "INFO") /\ Answers(t)

\* motor_control_arm for USB_TEST: the gate may refuse it for its own reasons.
CommandArm ==
  /\ \/ Gate!Request("USB_TEST") /\ LogsTransition(trace)
     \/ Answers(trace) /\ UNCHANGED <<gateVars, log>>
  /\ UNCHANGED handoff

\* motor_control_disarm: it withdraws a request or the authority.
CommandDisarm ==
  /\ \/ (Gate!Cancel \/ Gate!Withdraw("DISARMED")) /\ LogsTransition(trace)
     \/ /\ requested = None /\ mode \notin {"ARMED", "FAILSAFE"}
        /\ Answers(trace) /\ UNCHANGED <<gateVars, log>>
  /\ UNCHANGED handoff

SafeState == mode = "DISARMED" /\ owner = None /\ requested = None

\* The forced stop may fail; then there is no handoff.
CommandBootloaderEnter ==
  /\ handoff' \in {handoff, handoff \/ SafeState}
  /\ Answers(trace) /\ UNCHANGED <<gateVars, log>>

CommandTraceStart(level) ==
  /\ Answers(IF mode = "DISARMED" /\ ~Capturing(trace) THEN StartedTrace(trace, level)
             ELSE trace)
  /\ UNCHANGED <<gateVars, log, handoff>>

CommandTraceStop ==
  Answers(StoppedTrace(trace)) /\ UNCHANGED <<gateVars, log, handoff>>

\* Wrong on purpose: the whole batch is discarded, also what did not fit.
CommandTraceReadBatch ==
  /\ \E count \in ReadableCounts(trace) :
       TrySend([kind |-> "records", capture |-> trace.capture,
                first |-> trace.produced - Len(trace.pending) + 1, count |-> count],
               BatchCount(trace), trace)
  /\ UNCHANGED <<gateVars, log, handoff>>

CommandTraceRead ==
  /\ \E count \in ReadableCounts(trace) :
       TrySend([kind |-> "records", capture |-> trace.capture,
                first |-> trace.produced - Len(trace.pending) + 1, count |-> count],
               count, trace)
  /\ UNCHANGED <<gateVars, log, handoff>>

\* Level calibration is logged when it starts; a list of logs with a damaged
\* entry is not built, and then there is no answer.
CommandOther(command) ==
  /\ \/ Answers(trace) /\ UNCHANGED log
     \/ command = "imu_level_calibration_start" /\ SafeState /\ LogsTransition(trace)
     \/ command = "flight_log_list" /\ mode = "DISARMED"
          /\ discard' = 0 /\ UNCHANGED <<tx, response, trace, log>>
  /\ UNCHANGED <<gateVars, handoff>>

Execute(command, level) ==
  CASE command = "arm"                 -> CommandArm
    [] command = "disarm"              -> CommandDisarm
    [] command = "bootloader_enter"    -> CommandBootloaderEnter
    [] command = "control_trace_start" -> CommandTraceStart(level)
    [] command = "control_trace_stop"  -> CommandTraceStop
    [] command = "control_trace_read"  -> CommandTraceRead
    [] OTHER                           -> CommandOther(command)

ProcessOnce ==
  /\ At("command") /\ step' = "drain"
  /\ \/ /\ response # NoMessage
        /\ TrySend(response, discard, trace)
        /\ UNCHANGED <<lines, log, gateVars, handoff>>
     \/ /\ response = NoMessage /\ lines = <<>>
        /\ UNCHANGED <<tx, lines, commandVars, trace, log, gateVars>>
     \/ /\ response = NoMessage /\ lines # <<>>
        /\ lines' = Tail(lines)
        /\ LET members == FlattenSeq([k \in DOMAIN Head(lines) |-> MembersOf(Head(lines)[k])])
           IN Execute(CommandOf(Head(lines)), Member(members, "level"))
  /\ UNCHANGED <<device, hostVars, link, ring, overflow, framer, completed, heard>>

(***************************************************************************)
(* The rest of the run.                                                    *)
(***************************************************************************)
\* usb_command_processor_take_bootloader_handoff: when it is true the board resets.
HandoffTaken == handoff /\ response = NoMessage /\ tx.queue = <<>>

TakeHandoff ==
  /\ At("drain") /\ HandoffTaken
  /\ device' = "LOADER" /\ handoff' = FALSE
  /\ UNCHANGED <<step, response, discard, trace, log, gateVars, hostVars, cdcVars>>

\* Wrong on purpose: the log goes on while a handoff waits for an empty queue.
DrainAlways ==
  /\ At("drain") /\ ~HandoffTaken /\ step' = "receive"
  /\ IF log = 0 THEN UNCHANGED <<log, tx>>
     ELSE log' = DrainedLog(log, WriteResult(tx)) /\ tx' = WrittenTo(tx, LogLine)
  /\ UNCHANGED <<commandVars, device, trace, gateVars, hostVars, link,
                 receiveVars, completed, heard>>

\* logging_drain_once, unless a handoff waits.
DrainOnce ==
  /\ At("drain") /\ ~HandoffTaken /\ step' = "receive"
  /\ IF handoff \/ log = 0 THEN UNCHANGED <<log, tx>>
     ELSE log' = DrainedLog(log, WriteResult(tx)) /\ tx' = WrittenTo(tx, LogLine)
  /\ UNCHANGED <<commandVars, device, trace, gateVars, hostVars, link,
                 receiveVars, completed, heard>>

(***************************************************************************)
(* The other tasks.                                                        *)
(***************************************************************************)
\* The flight task records a sample.
FlightTask ==
  /\ At("receive") /\ Capturing(trace) /\ trace.produced < MaxRecords
  /\ \E changed, due \in BOOLEAN : trace' = RecordedTrace(trace, mode, changed, due)
  /\ UNCHANGED <<step, commandVars, device, log, gateVars, hostVars, cdcVars>>

\* The receiver arms, the gate grants, a loss or a fault withdraws.
LifecycleTask ==
  /\ At("receive") /\ Gate!AuthorityNext /\ requested' # "USB_TEST" /\ ~powered'
  /\ UNCHANGED <<step, commandVars, device, trace, log, hostVars, cdcVars>>

LogTask ==
  /\ At("receive")
  /\ \E level \in {"INFO", "ERROR"} : log' = WrittenLog(log, level)
  /\ UNCHANGED <<step, commandVars, device, trace, gateVars, hostVars, cdcVars>>

Run ==
  \/ ReceiveStep
  \/ TransmitStep
  \/ ProcessOnce
  \/ TakeHandoff
  \/ DrainOnce

Next ==
  \/ HostSends \/ HostAttaches \/ HostDetaches \/ HostReads
  \/ Run
  \/ FlightTask \/ LifecycleTask \/ LogTask

Spec == Init /\ [][Next]_vars

\* What the task's steps do to where it is: in a step of Next it is one of Run,
\* and it is enabled whenever one of Run is.
TaskMoves ==
  /\ device = "RUNNING"
  /\ \/ step' \in Steps \ {step} /\ UNCHANGED device
     \/ device' = "LOADER" /\ UNCHANGED step

\* The scheduler runs the task again and again (a run of it is never skipped for
\* good: scheduler.c is cooperative and starts what is ready); a host that is
\* there reads (SF, because the interrupt is not explored at every step).
FairSpec == Spec /\ WF_<<step, device>>(TaskMoves) /\ SF_vars(HostReads)

(***************************************************************************)
(* Properties.                                                             *)
(***************************************************************************)
Messages == [kind : {"none", "answer", "log", "records"}, capture : Nat, first : Nat, count : Nat]

\* Every queue within its capacity; a transfer has a message; what a pending
\* response will take from the trace is in the trace.
TypeOK ==
  /\ Len(ring) < RingCapacity /\ Len(lines) <= LineDepth /\ Len(framer.line) <= LineCapacity
  /\ Len(tx.queue) <= TransmitDepth /\ tx.queue \in Seq(Messages)
  /\ tx.done \/ tx.sending => tx.active
  /\ tx.active => tx.queue # <<>>
  /\ step \in Steps
  /\ response \in Messages /\ (response = NoMessage => discard = 0)
  /\ discard <= Len(trace.pending) /\ Len(trace.pending) <= TraceCapacity
  /\ log \in 0 .. LogCapacity
  /\ {handoff, overflow, completed} \subseteq BOOLEAN
  /\ link \in {"DETACHED", "CONFIGURED"} /\ device \in {"RUNNING", "LOADER"}
  /\ mode \in Gate!Modes

\* No message is lost and none is sent twice on one connection, however the end of
\* a transfer, a disconnect and a reconnect fall between the steps of the task: a
\* message leaves the queue only when the host has it, and the host has it again
\* only as the first one after a reconnect (usb_cdc_transport.c:223-264, 356-437).
MessagesArriveOnce ==
  [][/\ Len(tx'.queue) < Len(tx.queue) => heard.head
     /\ tx'.done /\ ~tx.done /\ heard.head => heard.fresh]_tx

\* The records of a capture reach the host without a gap: a batch begins no later
\* than where the last one ended, and a new capture at its first record; although
\* a response holds fewer records than it was offered, waits while the queue is
\* full, and the capture goes on meanwhile (usb_command_processor.c:28-63,
\* 135-163, control_trace.c:287).
NoTraceRecordSkipped ==
  [][tx'.done /\ ~tx.done =>
       LET batch == Head(tx.queue)
       IN batch.kind = "records" =>
            batch.first <= (IF batch.capture = seen.capture THEN seen.next ELSE 1)]_tx

\* The sample that ends a capture is recorded, however full the trace is
\* (control_trace.c:204-241: one place is kept for it).
TerminalSampleKept ==
  [][(step = "receive" /\ Capturing(trace) /\ ~Capturing(trace')) =>
       trace'.produced = trace.produced + 1]_trace

Idle == lines = <<>> /\ response = NoMessage /\ ~handoff

\* While the host is there and reads, the service never stalls: the lines it took,
\* the response that found the queue full and the accepted handoff are worked off
\* again and again, even if the other tasks log without end (usb_service_task.c:
\* 12-31).  It does not say that each line is answered: a request whose response
\* cannot be built is consumed without one (usb_command_processor.c:1206-1210), and
\* a line that finds the line queue full is dropped (usb_cdc_transport.c:164-167).
ServiceNeverStalls == <>[](link = "CONFIGURED") => []<>(device = "LOADER" \/ Idle)

\* docs/usb-cdc-logging.md: "Any raw overflow forces discard through the next
\* newline, preventing a partial request from executing."  Every line that reaches
\* the command processor is one request of the host (usb_cdc_transport.c:179-221).
CutLineIsNotDelivered ==
  [][Len(lines') > Len(lines) =>
       Last(lines') = <<[Last(lines')[1] EXCEPT !.at = 1], [Last(lines')[1] EXCEPT !.at = 2]>>]_lines

\* docs/usb-json-protocol.md, bootloader_enter: "While safely disarmed, stop motor
\* output and perform a one-shot reset into the resident USB update loader".
ResetsDisarmed == [][device' # device => mode # "ARMED"]_device

=============================================================================
