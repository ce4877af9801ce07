# OpenFlightComputer: verification project

TLA+ models of the OpenFlightComputer flight-controller firmware (STM32F405,
`firmware/`), model-checked with TLC and, where it matters most, proved with
TLAPS. Paths below are relative to the repository's root. `PROJECT.json` maps
every definition to the lines it translates.

## 1. The system

One cooperative scheduler runs fixed-rate tasks to completion; interrupts (the
motor DMA, the receiver UART and its DMA, the timer, USB) run between any two
instructions. Two consequences for the models: a task callback is one atomic
step with respect to other tasks, and only interrupt-shared state interleaves
inside one.

| Component | State it keeps | Operations | Talks to |
|---|---|---|---|
| Lifecycle (`app/system_state.c`) | current state | six events | everyone reads it |
| Fault registry, health (`app/fault.c`, `app/health.c`) | 16 records, lost-record count | report, clear, evaluate | raises `FAULT_DETECTED` on the lifecycle |
| Motor safety gate (`app/motor_control.c`) | owner, pending source, retained command, stop stream, direction sequence, transfer flags, interlock | arm, disarm, submit, synchronize (1 kHz), failsafe, recover, force stop, configure | lifecycle, faults, output chain, status LED |
| Output chain (`flight/actuators/`, `app/dshot_motor_backend.c`, `board_motor_output.c`) | encoded frame, board state | submit, force stop, DMA interrupt | gate |
| Receiver service and loss policy (`app/receiver_service.c`, `flight/receiver/`) | latest snapshot, policy state, latch, recovery timer | accept frame, update, release | flight-control task |
| Arming interlock (`app/receiver_arming.c`) | switch low seen, previous level, observed | process | gate |
| Flight-control task (`app/flight_control_task.c`) | loss reported, applied configuration | one run per ms | policy, interlock, gate, registry, control core |
| Control core (`flight/behavior/`, `flight/control/`) | leveling, rate integrals, age of the last sample | one step per run | flight-control task |
| IMU task and calibrations | sample, biases, level trim, calibration state | process, start, persist | interlock of the gate, configuration |
| Configuration service and storage | active configuration, revision, flash records of ten formats | write, reset, load, migrate | gate, policy, level calibration, flash |
| Scheduler (`app/scheduler.c`, `app/task.c`) | ready mask, next releases | register, run once | all tasks |
| USB processor, CDC transport, JSON codec, logging | pending response, rings, handoff flag, log queue | process line, transmit, receive interrupt, drain | gate, configuration, trace, blackbox, loader |
| Blackbox (`app/blackbox.c`) over the SD card | sector queue, flight catalogue, superblocks, card state | boot, capture, service, finish, initialize, read | flight-control task, USB |
| Control trace (`app/control_trace.c`) | ring, capture, sequence | start, record, stop, read, discard | flight-control task, USB |
| CRSF driver | circular DMA position, parser, UART recovery | read, interrupts | receiver service |
| Timebase (`mcu_timebase.c`) | wraps counted by an interrupt | read the 64-bit time | everyone |
| Status LED | pending state | show, notify | gate |
| USB loader (`firmware/bootloader/`) and update tool | image and metadata in flash | begin, data, finish, boot | reset, host |

What is hard to test here: the DMA interrupt against the flags of the gate; a
command that outlives the authority it was accepted under; an arming that takes
several frames; forced stops that cannot be confirmed; more faults than slots;
a switch left up across losses and other owners; a recovery timer across
intermittent frames; configuration writes in the middle of anything; power loss
in the flash, on the card and in the middle of an update; a USB interrupt, a
disconnect or an overflow between two steps of the task; an answer that is
still waiting when the next command has changed what it was about; clocks and
counters that wrap while they are read. `PROJECT.json` lists the hazards line by
line, with the property that covers each, or how it is covered otherwise.

## 2. Modules

| Module | Models |
|---|---|
| `SystemState` | the transition table of the lifecycle |
| `FaultSystem` | the registry, the transition a report forces, health; extends `SystemState` |
| `FaultLifecycle` | the two under all their users: start-up, halts, reports and clears |
| `MotorAuthority` | abstract: who may drive the motors and when the lines may carry power |
| `MotorControl` | the motor gate with the output chain and the DMA interrupt |
| `ReceiverFailsafe` | the receiver snapshot and the loss policy |
| `FlightControl` | the flight-control task: policy, interlock, connection fault, recovery, behaviour, over the *contract* of the gate (`MotorAuthority`) |
| `ControlCore` | from sticks to motors: curves, take-off leveling, the Easy behaviour, rate controllers, mixer |
| `ConfigurationContract` | abstract: the configuration in force and the one the next boot loads |
| `ConfigurationStorage` | the flash sector of the configuration: load, save, erase, and what a failure or a power loss leaves |
| `ConfigurationPayload` | what a record holds, in today's format and the nine older payload formats, and the migration |
| `LevelCalibration` | the level calibration and the samples that feed it |
| `ConfigurationService` | the configuration service with its two callers, the USB commands and the IMU task, and the interlock they share; extends storage, calibration and `MotorAuthority` |
| `SdCard` | the card driver: what is on the card and the write under way |
| `Blackbox` | the recorder, what is captured, the storage task and the storage commands; extends `SdCard` |
| `DecimalText` | the decimal numbers of the USB protocol |
| `JsonProtocol` | which requests are accepted, and as what; extends `DecimalText` |
| `ControlTrace`, `Logging` | the trace ring and the log queue, as operators on their state |
| `CdcTransport` | receive ring, framer and transmit queue, with the callbacks of the USB interrupt |
| `UsbService` | a run of the USB task: transport, one command, handoff, one log record; extends the five above it |
| `Bootloader` | the resident loader and the host tool that updates it |
| `Scheduler` | registration, ready batches, releases |
| `CrsfParser` | frames, checksum and channels of the radio, on real bytes |
| `ReceiverDma` | the circular DMA buffer behind them |
| `Timebase` | the 64-bit extension of the hardware timer |
| `MotorControlProofs` | theorems about `MotorControl`, and that it implements `MotorAuthority` |
| `FlightControlProofs`, `FaultLifecycleProofs`, `ConfigurationServiceProofs`, `BootloaderProofs`, `UsbServiceProofs`, `BlackboxProofs` | theorems about the module each extends |
| `TimingProofs` | theorems about `Scheduler`, `Timebase` and `ReceiverDma` |
| `MCMotorControl`, `MCUsbService` | instances for TLC: definitions a `.cfg` cannot write |
| `MCFaultLifecycle` | the same, and evaluates what `Scheduler` assumes |
| `MCFlightControl` | evaluates, beside `FlightControl`, what `ControlCore`, `CrsfParser`, `ReceiverDma` and `Timebase` assume |
| `MCConfigurationService` | evaluates, beside `ConfigurationService`, what `ConfigurationPayload` assumes |

There are three kinds of module. Most are state machines. `ControlTrace`,
`Logging`, `JsonProtocol` and the like are operators that a state machine uses.
`Scheduler`, `ControlCore`, `CrsfParser`, `ConfigurationPayload`, `DecimalText`,
`ReceiverDma` and `Timebase` are functions of their inputs, and so are they in
the code; what they promise is stated as a named `ASSUME` over bounded inputs,
which TLC evaluates before a run that extends them, or as a theorem. Such an
`ASSUME` is a checked statement, not a premise: no proof cites one.

`MotorControl` implements `MotorAuthority` (checked and proved), and
`FlightControl`, `ConfigurationService` and `UsbService` use `MotorAuthority`
instead of the gate itself. So the compositions need neither DMA nor direction
frames in their state, and what is shown of them holds over any gate with that
contract. The contract is wider than the gate in places (a pending arming may
be cancelled or granted at any time, power may come and go), so they check more
behaviours than the firmware has, never fewer.

### Correspondence with the code

*Time.* A deadline is an age in ticks that saturates where the code stops
telling ages apart. `Tick` does not promise that any task ran. The hardware
clock never steps back (proved in `TimingProofs`), so branches for that are out.

*Motor gate.* One variable per field of `motor_control_state_t`. The board is
`IDLE`, `ACTIVE` or `ERROR`, and `frame` is what the lines carry.
`motor_control_synchronize` reads the output status once; each path through it
is one `Sync...` action. A DMA interrupt after that read is indistinguishable
from one just after the call. A command is whether it asks for power, its age,
and, as history, the source and mapping it was accepted with. The history
variables `heard` and `sinceStop` record what the ESCs really received. A frame is
what each physical output carries: a direction frame is the configuration through
the mapping in force (`PhysicalDirections`), `Due` the one the ESCs are to hear now.
`heard` counts frames equal to `Due` and starts anew when `Due` changes; `remapped`
records that it changed in the middle of a direction sequence, which only
`ConfigureMapping` can do, since it is not refused while an arming is pending.

*Faults.* A registry is the set of ids on record and whether any was lost. In
the gate's runs any component may report or clear any id at any time.

*Flight-control task.* The task calls the gate several times in one run, so
`phase` orders its steps and everything else waits for `IDLE`. The behaviour is
reduced to what it does to authority: a stop in stage two, a submission, a wait,
or a failsafe.

*Configuration.* A configuration is a setting, the calibrated flag and a trim;
`active` and `source` are the service's fields. What the firmware runs on is in two
parts, because the code prepares them one after the other and can stop in between:
`pipeline` for the IMU pipeline, `runtime` for the gate, the policy, the level
calibration and the prepared control. A valid configuration need not be one that
can be applied: the validator bounds the trims by the maximum trim only where the
configuration is calibrated, the level calibration always (`Applicable`).
`WriteNotApplied` is the `APPLY_ERROR` that follows: the record is saved, the
pipeline runs on it, nothing else changes; and `AtBoot` is what the next boot
can start with, none if it loads such a record. A call of the service
is one step, since the CPU does nothing else while it programs or erases flash;
what a reset or a flash error can cut off is the sector it leaves behind, so
`Reset` may leave any outcome of `SaveFails` or `EraseFails`. That includes a
record whose commit word is written and whose write is still reported as failed,
because only the lock of the flash failed: the next boot loads it. For the contract
nothing is in force while the unit does not run. The checksum is taken
to reject every slot that was not programmed to its end. A torn first write, or an
interrupted erase, leaves storage that is neither empty nor readable, and the
unit halts at the next boot, as `docs/flight-configuration.md` says ("fails
startup closed"); the contract allows it there and where a configuration was
saved that cannot be applied, and nowhere else.

*Level calibration.* A sample is whether it is new and how old it is; what the
arithmetic makes of it is a choice. The failed states are one state, and the
result is saved in the step of the IMU task that finds it, as in the code. The
gyro calibration is complete whenever this one runs: without it the unit does
not reach DISARMED.

*Control core.* Floats are integers of a small unit, `Full` = 100 being the
largest throttle and correction; a quotient is rounded to the nearest, so that
signs and limits are those of the code. The controllers are one state: leveling,
three integrals with their previous errors, and the age of the last sample;
`CoreStates` is the set of all that a small instance reaches. The axes are in
the modes that the Easy behaviour uses: angle, angle, rate.

*Configuration record.* A payload is a function from the fields it has to their
contents. The formats that grew by appending are prefixes of today's layout,
as in the code, which copies them as bytes. A field's content matters only where
the code changes it: words cut to 32 bits, curves padded with zeros, the packed
word of the easy mode, the flag.

*Card and blackbox.* A sector is a superblock, a page of the catalogue or a block
of a log with its type, its log, its number and the counts it carries; a write
that fails or loses power leaves the old content, the new one, or a torn sector.
A card is busy from the start of a write until the driver has collected its end.
The flight task, the storage task and the USB task are each one step; the card
and a power loss come between any two. A sample is not encoded: what counts is
in which block it lands. The count of dropped samples saturates at
`DroppedLimit`, as the code's does at the largest 64-bit number.

*USB.* A request is two parts on the wire, the second of which ends the line, and
a part knows its request, so that a line joined from two shows. Messages to the
host are numbered in the order in which they were queued. An interrupt may come
before each of the two steps that share state with it, receive and transmit; the
other two steps of a run (command, handoff and drain) read and write nothing
that an interrupt does, except through the queue whose head is busy meanwhile,
so exploring interrupts there would only reorder commuting steps. A request is
the sequence of its members, as the codec sees it behind the vendored tokenizer.
Commands that only report a snapshot are one command that answers; the motor
commands of the protocol are inputs of `MotorControl`.

*Loader.* An image is a sequence of words; the checksum tells every image from
everything else. A flash operation may stop after any word, because power is
lost or because it fails. The host tool sends a line and waits; when it gives up,
it or another one starts again, and what the first left behind (a line not yet
handled, half a line, an answer) is still there.

*Scheduler.* The scheduler is a function of the clock, so a state is a record of
tasks, batch and clock, and `RunOnce` its step; each callback takes a chosen
time and may disable itself.

*Receiver.* `CrsfParser` works on bytes and the real CRC-8; `ReceiverDma` on the
three counts that task, interrupt and DMA share; the snapshot that comes out is
the input of `ReceiverFailsafe`.

*Definitions marked "Wrong on purpose"* are variants of the definition after
them, with a plausible slip. No specification uses them. Put in place of the
original, each makes the property named with it in `PROJECT.json` fail, which
shows that the property really depends on that code.

### Left out as unreachable

These branches are in the code, but no state of the program takes them; the
models leave them out: the `STATE_MACHINE_TRANSITION` reports of
`enter_failsafe_if_armed` and `complete_pending_arm` and the mapping error of
`motor_control_submit` (their preconditions were checked by the caller), the
rejected disarm of the interlock (its owner check implies a disarmable state),
the failure to re-initialize the behaviour (its configuration was validated
when it was accepted), and, of the configuration service, the `APPLY_ERROR` of a
reset (the defaults have no trim) and those that the gate or the policy would
cause (a safe state and a valid configuration exclude them). The `APPLY_ERROR` of
the level calibration is reachable and modelled.

## 3. Runs

| Run | Shows | Bounds | Distinct states |
|---|---|---|---|
| `fault_lifecycle` | reports, clears and halts never hide a fault from health, lose a critical record or leave FAULT | six ids, two per severity, three slots: every mixture can fill the registry, and ids remain without a slot, as 20 ids in 16 slots do | 957 |
| `motor_gate` | safety of the gate, that it implements `MotorAuthority`, that power is withdrawn and armings are decided | two sources (all there are), two motors with both mappings and two configurations, of which one tells the mappings apart and one does not; two direction repetitions (a first and a last), preparation of two ticks, lease and transfer timeout of one, five ids (two critical) in two slots | 425,120 |
| `flight_control` | switch, loss policy, recovery and fault record agree with authority; a silent receiver loses the motors | thresholds 1 < 2 < 3 < 4 ticks, so that each band has an age of its own; recovery of two ticks, so that it can be interrupted at the start and in the middle | 16,562 |
| `configuration` | active, running and stored configuration and the interlock stay together; the service keeps `ConfigurationContract`; a started calibration ends | three trims, one of them beyond the limit, which with the flag are five valid configurations, one of which cannot be applied; three slots, so that a full sector is written to; sequences up to two, below the number of slots, so that the last sequence number is reached; two samples over one tick, so that a calibration can end by each of its limits; a sample is fresh in its own tick only | 179,753 |
| `blackbox` | READY means that the card agrees; closed logs outlive later flights, failures and power losses; the recorder gives up only for a reason | one page of two logs and seven data sectors, so that both run out; two samples per block and per log, a checkpoint interval of two; one card fault, one further boot, four superblock generations; a queue of nine, which keeps the distance between the queue and what is reserved in it | 1,219,750 |
| `usb` | no message is lost or doubled, a trace reaches the host without a gap, the last sample of a capture is kept, responses and handoff are not held back for ever while the host reads | rings of three parts, so that they overflow and wrap; one line, two messages, a trace of two, a log of one: every queue can be full; three requests from a script (`MCUsbService`), three records | 1,069,350 |
| `bootloader` | only a whole image is started; an update that the tool reports as done is installed | images of two and three words, good and bad, so that one can be left over under another; at most one stale answer | 633,267 |
| `configuration_half_applied`, `calibration_busy`, `blackbox_overwrite`, `usb_handoff`, `usb_overflow` | findings: see below | the instances above, without faults or with a shorter script | up to the violation |

Evaluated with the runs, as assumptions of the modules they extend:

* `fault_lifecycle`: `SchedulerPromises`, over registries of three tasks, seven
  calls, every choice among three durations, and tasks that disable themselves: a
  task that waits runs before another runs for the second time after
  (`NobodyStarves`), every release is executed or counted as missed
  (`ReleasesAreAccounted`), a disabled task is over (`DisabledIsOver`);
  `EveryTaskIsRegistered`: the application's tasks fit, whatever hardware is there.
* `flight_control`: sticks are monotone and symmetric (`SticksAreMonotone`);
  leveling moves gradually (`LevelingIsGradual`) except after a pause
  (`PauseIsMadeUpAtOnce`); power needs an unbroken series of samples
  (`PowerNeedsContinuity`), integrals do not wind up (`IntegralDoesNotWindUp`,
  `LimitHoldsIntegral`), the mixer keeps the collective throttle
  (`MixerKeepsCollective`), only a fresh estimate steers
  (`OnlyFreshStateSteers`). Of the radio: a parser in step finds every frame,
  whatever its payload looks like (`FramesAreFound`), one that begins in the
  middle of a frame is in step two frames later (`LateStartFindsFrames`), a damaged
  frame is not delivered (`DamageIsNotDelivered`), the longest fits
  (`BufferSuffices`), one call delivers at most one frame and loses none
  (`OneFrameAtATime`). The `DmaCapacity`, `CountWidth` and `CounterWidth` of the
  `.cfg` are needed only to evaluate the modules; the theorems hold for all.
* `configuration`: what is saved is loaded, each older record is migrated to what
  it meant, no two readers accept the same bytes, the newest readable format wins,
  undecodable ones are refused, for every format (`SavedIsLoaded`,
  `MigrationPreserves`, `OneReader`, `NewestFormatIsLoaded`,
  `UndecodableIsRefused`).
* `usb`: a number is read exactly or refused, what is written is read back, and
  the two readers agree (`UintIsReadExactly`, `WrittenIsReadBack`,
  `ReadersAgree`, over every short text); a configuration that is read out can be
  written back and fits the token buffer, and only a complete one is accepted
  (`ReadConfigurationIsWritable`, `LongestConfigurationFits`,
  `OnlyCompleteConfigurationsAreRead`).

Deadlock is checked except in `fault_lifecycle`, where a halted unit really
stops, and in the runs of `UsbService`, where a unit that has gone into the loader
does.

*Fairness.* `MotorControl!FairSpec` has weak fairness on `Synchronize`, the
highest-priority periodic task of a scheduler that never stops, and on `Tick`,
that time passes. Nothing is assumed of the DMA interrupt. `FlightControl!FairSpec`
has weak fairness on the steps of the flight-control task (once released, a
callback runs to its end) and strong fairness on `Tick`: time cannot be stopped
by a task that runs infinitely often. Nothing is assumed of the gate or of the
receiver. `ConfigurationService!FairSpec` has weak fairness on `ImuTask`, a 1 kHz
task of the same scheduler, and on `Tick`; nothing is assumed of the sensor, so
it may never deliver a new sample. `UsbService!FairSpec` has weak fairness on
the steps of the USB task (written as `TaskMoves`, what they do to the variables
that say where the task is), and strong fairness on the host's reading, because the
interrupt is explored only at some steps; the property speaks only of a link
that stays up. The weak fairness of a task is what `NobodyStarves` shows of
the scheduler. `Blackbox` and `Bootloader` have safety properties only: neither
the card nor the host promises to go on.

### Findings

`configuration_half_applied`: `flight_configuration_is_valid` bounds the trims by
`maximum_trim_degrees` only where the configuration is calibrated
(`flight/configuration/flight_configuration.c:260`), `level_calibration_initialize`
always (`flight/sensors/level_calibration.c:45`). An uncalibrated configuration with
a roll trim of 20 and a maximum of 10 is therefore saved; `prepare_runtime`
initializes the live IMU pipeline with it (`app/flight_configuration_service.c:41`)
and then fails. The write is answered with `APPLY_ERROR`, the active configuration
and the interlock stay as they were, and the unit may be armed and fly with a
pipeline that `config_read` does not report. The next boot loads the record, cannot
prepare it (`:127`) and halts, out of reach of another write.
`docs/usb-json-protocol.md:40` says "Validate, persist, and atomically apply one
complete configuration", `docs/flight-configuration.md:79` "as one operation".
`RuntimeIsActive` shows that nothing but the pipeline is ever out of step, and only
with a configuration that was refused; `ImplementsContract` that no other valid
write has these consequences.

`calibration_busy`: a second `imu_level_calibration_start` while a calibration
runs is refused, and the refusal sets the interlock to what the active
configuration says (`app/usb_command_processor.c:947`). On a calibrated unit
that opens arming in the middle of the running calibration, where
`docs/usb-json-protocol.md:46` says that the interlock blocks arming "including
while a new calibration is running". `FlightKeepsConfiguration` shows
what still holds then: if the unit is armed, the calibration's result is refused and
nothing in force changes.

`blackbox_overwrite`: a closed flight is made durable by its catalogue page and
then by two superblocks, in separate writes, and a boot believes the superblock.
If power is lost after the catalogue page and before the first superblock, the
flight is complete and readable, but the next flight starts on a sector of it
(`app/blackbox.c:284`), where `docs/blackbox.md:106` says: "It never silently
overwrites an earlier flight." `DurableLogsStay` shows what holds: from the
first superblock on the log stays, unless the one copy of its catalogue page is
torn or this superblock is lost before the second one is written.

`usb_handoff`: `bootloader_enter` checks the lifecycle when it is executed, and the
handoff is taken in a later run of the task, once the response has left
(`app/usb_command_processor.c:1217`). While the host leaves the response unread,
the receiver can arm the unit; then it resets although ARMED, where
`docs/usb-json-protocol.md:37` says "While safely disarmed".

`usb_overflow`: after an overflow of the receive ring the framer discards through
the next newline it sees, which can be the one of an earlier line still in the
ring (`peripherals/usb/usb_cdc_transport.c:199`). The rest of a request of which a
part was dropped is then delivered as a line of its own, where
`docs/usb-cdc-logging.md:117` says that the discard prevents "a partial request
from executing".

### Observations that no run refutes

* A configuration write or reset, allowed in `DISARMED`, re-initializes the loss
  policy (`app/flight_configuration_service.c:79`) and with it a latched stage two,
  which `docs/receiver-failsafe.md:28-30` ends only after 500 ms of safe controls.
  No motor starts: the interlock still wants a fresh low-to-high edge of the switch,
  which `ArmNeedsRelease` shows in the presence of such writes.
* `motor_control_configure_mapping` (`app/motor_control.c:635`) is not refused while
  an arming is pending and does not restart the direction sequence, so that an ESC
  may be armed with some repetitions of its old direction.
  `docs/usb-json-protocol.md:48-49` promises "ten frames reasserting all configured
  ESC directions". Only the tests call the function; no command of this firmware
  reaches it. `ArmedOnlyWhenPrepared` therefore excepts a remapped arming, and
  without the exception TLC finds it violated, in 13 states.
* A line whose response cannot be built, such as the list of flights with a damaged
  entry, is consumed without an answer (`app/usb_command_processor.c:1206`), and a
  completed line is lost when the queue of lines is full
  (`peripherals/usb/usb_cdc_transport.c:164`). `ServiceNeverStalls` does not speak
  of answers.
* The table of `docs/scheduler.md` gives the diagnostic tasks periods of 1, 10 and
  100 ms; the code (`diagnostic_*_task.c`) has 10, 100 and 1000 ms.
* The receiver reader stays silent for good once 2^32 bytes have been received
  without a restart of the UART (`SilentAfterCountWrap`); which
  takes more than a day of continuous operation.
* The parser does not look for a frame start inside a frame it has rejected; with
  channel values that happen to look like a header and never change, it stays
  out of step as long as they do (`StillChannelsKeepItOut`).
* Take-off leveling makes up for a pause at zero throttle in one sample
  (`takeoff_leveling.c:132`, `PauseIsMadeUpAtOnce`). `docs/flight-configuration.md`
  says that the rate bounds the transition, but the repository's take-off test
  takes the code's behaviour for right.
* At full throttle the mixer leaves no headroom, so that nothing is corrected
  (`FullThrottleIsUnsteered`).
* A FAILSAFE entered for an IMU or control error, not for a receiver loss, has no
  way back to DISARMED by the receiver (`flight_control_task.c:252`).
* After a downgrade and an upgrade of the firmware, the newer format's record
  wins over the later one in the older format
  (`board_flight_configuration_storage.c:799`, `NewestFormatIsLoaded`).
* At the longest duration the configuration allows, 10 s, a level calibration
  reaches its sample limit before its duration is over
  (`level_calibration.c:203`).

## 4. Proofs

All theorems hold for every value of the constants that satisfies the named
assumptions: `FaultCatalogue`, `GateConstants` and `MotorFaultPolicy` for the gate,
`FaultCatalogue` for the registry, `ReceiverIsSource` and `FailsafeConfig` for the
flight-control task, `StorageConstants`, `UnreadableIsNone` and `LevelConstants`
for the configuration, `CounterWraps` and `ReceiverDmaConstants` for the two
counters, `BootloaderConstants` for the loader, `CdcAssumption`, `TraceAssumption`,
`LoggingAssumption` and `ServiceAssumption` for the USB service, `SdCardAssumption` and
`BlackboxAssumption` for the recorder. TLC evaluates them in the runs.

* `MotorFaultPolicy` is `motor_fault_policy_is_valid`: initialization refuses a
  catalogue in which a fault of the gate is not critical.
* `FailsafeConfig` is the order of the thresholds that the validation of a
  configuration asks for.
* `BootloaderConstants` says that the images fall into long and short ones and
  that an erased or torn word of the flash is no word of an image.
* The capacities of the USB service are any numbers above zero.
* `BlackboxAssumption` asks that the queue hold a log that is started and closed at
  once (the configuration's chunks and eight sectors; the firmware's queue has 32 places) and
  that the card be larger than its catalogue.

`MotorControlProofs`:

1. `TypeCorrect`: `TypeOK` is inductive.
2. `AuthorityIsSound`: the invariant that carries the safety properties. None of
   them is inductive alone. That a retained command has an owner needs that
   only ARMED keeps one; that the interlock cannot change while an arming is
   pending needs that an owner or a pending source exists only in the states the
   interlock's setter refuses; that notifications are true needs both. The five
   corollaries project the checked invariants from it.
3. `PowerIsAuthorized`: from `PowerFrame` (only `SyncCommand` turns the frame into
   power) and the ownership invariant.
4. `PreparationIsSound` relates the code's counters to the history variables: while a
   direction sequence runs, the frames heard and the frames left add up, and the stop
   stream is no younger than the last forced stop. The frames are those that are
   mapped to the outputs (`DirectionsArePhysical`); the sum holds as long as the
   sequence was not remapped (`SequenceInv`), since a remap of a pending arming resets
   `heard` and not the code's counter. `ArmingIsPrepared` follows with
   `OnlySequenceEnds`: no other step makes the system ARMED.

5. `GateImplementsAuthority`: the gate implements `MotorAuthority`. One lemma per
   group of actions, each mapped to one abstract action or a stutter, using the
   invariants above.

`ConfigurationServiceProofs`:

1. `TypeCorrect`: `TypeOK` is inductive, for any number of slots and any last
   sequence number.
2. `InterlockReturns` needs more than itself: the setter of the interlock may
   refuse, and then the interlock stays as it was. The invariant of
   `InterlockIsSound` adds `AuthorityNeedsInterlock`, that an armed unit, or
   one about to be, has the interlock open; so where the setter refuses, the
   interlock is already what a calibrated configuration gives.
3. `RuntimeAgrees` and `FlightIsUndisturbed`: no step leaves gate, policy or
   calibration on another configuration than the active one, nor the pipeline, unless
   on one that the runtime refused; and none changes configuration, interlock or
   flash in flight. That a result of the calibration can always be applied
   (`LeveledType`) rests on the limit of the measured trims.
4. `ServiceImplementsContract`: a record that was saved is the latest of its
   sector (`ProgrammedIsLatest`: its sequence is above all others, of which
   there is a greatest), and a torn slot changes nothing that the next boot
   loads but the empty sector (`TornChangesNothing`). With these, each step of the
   service is a step of the contract or a stutter, a refused one (`WriteNotApplied`)
   a failed write that leaves the next boot nothing to start with.
5. `LevelAgrees`: a calibration that reports READY is in force, and one that
   reports UNCALIBRATED is not, after every write, failure and boot.

`FaultLifecycleProofs`: the invariant `FaultInv` adds to the types that the
records are a finite set, that a critical or a lost record has taken the
lifecycle to FAULT, and that no report is forgotten by a registry that does not
say so. `HealthIsHonest`,
`FaultHasItsCause` and `FaultIsFinal` (an action property) follow. The
cardinality facts of `FiniteSetTheorems` carry the capacity.

`FlightControlProofs`: the properties speak of the end of a run of the task, so
`FlightInv` says what each phase has settled. `AuthorityInv` says in which
states a source may wait or own the motors; `SwitchInv`, `StageTwoInv`, `ReportInv` say, phase by phase,
what holds from the step that establishes it to the end of the run; `PolicyInv`
ties the policy's state to the ages it was made from; `ReleaseInv` and
`RecoveryInv` carry what must have happened earlier (the switch low, the
controls safe) to the step that relies on it. One lemma per action;
`SwitchRulesAuthority`, `StageTwoEndsAuthority`, `BlindFlightReported`,
`ReleaseBeforeArm` and `RecoveryEarned` then hold for any thresholds.

`TimingProofs` has the arithmetic of time. `NextReleaseIsNext`: however late a callback is, the next
release is on the task's grid, after the present, and no further than one period.

Of the clock it proves that a time that is returned is a time within the call
(`TimeIsOfTheCall`), and so that of two calls one after the other the later never
returns less (`ClockNeverStepsBack`), for any counter width. The interrupt that
counts wraps may come late, by less than one turn of the counter.

Of the receiver's buffer it proves, for any size and any width of the counts: a reader that is
not more than one lap behind loses nothing (`NothingIsLostWithinALap`); one that
is further behind says so (`OverrunIsCounted`), unless the interrupt for the
last lap is still pending (`PendingLapHidesOverrun`); and what happens when the
32-bit count wraps (`SilentAfterCountWrap`).

`BootloaderProofs`, for any images, any number of flash failures, resets, power losses
and restarts of the tool:

1. `WholeImagesRun`: the loader starts an image only when its metadata name it, and
   the metadata are written last. `LoaderInvariant` says what is on the flash at each
   phase of an update: a prefix of the image that is being received, and metadata
   only above a whole one (`ValidIsWhole`). `ValuesOf` bounds what a word can hold
   after an operation that was cut off.
2. `ReportedIsInstalled`: an update that the tool reports as done is installed.
   The loader answers a request without saying which, so answers to a tool that was
   killed may be taken for answers to the next. `Dialogue`: while the tool waits,
   lines and answers are in step with its dialogue, or what is still to come ranks
   below the answer it waits for, or stale answers are all there is and too few to
   end the dialogue. The hypothesis `MaxStale < 5` cannot be dropped: the shortest
   dialogue has five answers, and with five stale ones TLC finds a behaviour of
   43 states in which they make up a whole dialogue. (It takes five killed tools, each
   leaving one answer unread; with four TLC finds none in 6.9 million states.)

`UsbServiceProofs`, for any capacities and any script of the host. The invariant has
a part for each side of the service, and most steps disturb one:

1. `ReceiveSide`: ring, framer and queue of lines within their bounds.
2. `TransmitSide`: the transmit queue, and what the transport believes of its head.
   `Pipeline` ties the flag the interrupt sets to the host's having read the head, in
   each order in which callback, poll and reconnection can come.
   `EveryMessageArrivesOnce` rests on it: a message is popped only when the host has
   it, and none is sent anew on the connection it arrived on.
3. `StreamSide`: the records that wait, the response that holds the first of them, the
   batches in the queue and what the host has seen last follow each other without a
   gap (`Follows`), across a new capture, which starts at one. `NoRecordIsSkipped`
   compares two marks of the host with it; `LastSampleIsKept` needs that the trace
   keeps a place for the sample that ends a capture.

`BlackboxProofs`, for any card, catalogue and queue, any number of failures and of
power losses. The steps of the recorder are functions from a box (its memory) to a
box; one lemma for each says what it keeps (`Queueing`, `Allocating`, `Metadata`,
`Checkpointing`, `Sampling`, `Starting`, `Finishing`, ...), then one for each action.

1. `GoodDisk`: each sector holds what belongs there, and a superblock counts no log
   whose page was never written. Any write, whole or cut short, keeps that
   (`Rewriting`), if it is of a sector whose page is on the card; `PagesFirst` says so
   of the head of the queue, since the page is queued ahead of the superblocks.
2. `ReadyAgrees`: while a log is being closed the queue ends with the two
   superblocks, or the second is all that is left and the first is on the card
   (`Closing`); so when it is empty both agree with the memory.
3. `ErrorsAreCaused`: an open log has room in the queue for what closing it
   takes (`RoomToClose`) until its first checkpoint; the checkpoint asks for three
   places only, which is how closing can fail later. A load fails only on a torn page:
   by 1 the page of the last log cannot be blank.
4. `RecorderKeepsItsTypes`. The proof of it failed on an earlier form of `TypeOK`, that the
   block buffer has a free place unless the recorder gave up: one that gave up with
   a full block, because the card was full, keeps it when the host initializes the
   storage. (With `SectorCount = 5` TLC finds this in nine steps; the card of the run
   is never full with a full block.) It is harmless, as `start_flight` empties the block,
   and `TypeOK` now asks for the place while a log is recorded.

Only model-checked:

* The liveness properties, since ENABLED and fairness are beyond the installed provers.
* `DurableLogsStay`. Most of what it takes is proved in `BlackboxProofs` (what is on
  the card, in which order it is written), but a log is consistent when the
  samples of its blocks add up to the count of its footer, and that a sum over a set
  grows by what is added to it needs induction over the set.
* What is evaluated over bounded inputs (section 3): data of any length would need
  induction, which the installed provers cannot apply.

Nothing in the proved modules is recursive.

## 5. Not modelled

* The gyro calibration: like the level calibration it collects samples, but only
  at start-up, before the unit can arm; what it computes is arithmetic.
* Filters and attitude estimators, and the rounding of floats: arithmetic that
  finite instances do not reach.
* The normalization of receiver channels, the DShot bit layout, the register
  sequences of the board, the SPI command bytes of the card and the delta encoding
  of blackbox samples: they hold no protocol state.
* The recovery of the receiver's UART after an error, which races its own
  interrupt; the values of the link statistics.
* The text of telemetry, of logs and of the responses; the JSON tokenizer, which
  is vendored.
* The command line of the host tools, apart from the update tool and the decoder of
  a log.

What would be worth adding next, in this order: the UART recovery with
`ReceiverDma`; an abstract queue of whole lines that may drop lines but never
joins two, which `CdcTransport` would implement once the discard of an overflow is
tied to the newline that belongs to it; an invariant of `Bootloader` that carries
`OnlyWholeImagesRun` to images of any length; the gyro calibration.
