----------------------------- MODULE MotorControl -----------------------------
(***************************************************************************)
(* The motor safety gate (app/motor_control.c) with the output chain below *)
(* it (flight/actuators/motor_output.c, app/dshot_motor_backend.c and      *)
(* board_motor_output.c): the only path from a command to the four motors. *)
(*                                                                         *)
(* The scheduler is cooperative, so a call of the gate is one step; what   *)
(* interleaves with it is the DMA interrupt (DmaCompletes, DmaFails) and   *)
(* the clock (Tick).  motor_control_synchronize, the 1 kHz task, reads the *)
(* output status once; an interrupt that lands after that read is the same *)
(* interrupt taken just after the call.  A deadline is kept as an age that *)
(* saturates where the code stops telling ages apart.                      *)
(***************************************************************************)
EXTENDS FaultSystem

CONSTANTS
  Sources,          \* motor_control_source_t without NONE
  None,             \* MOTOR_CONTROL_SOURCE_NONE
  Motors,           \* logical motors, and the physical outputs of as many
  Mappings,         \* logical-to-physical permutations
  Configurations,   \* the direction of each logical motor
  Preparation,      \* MOTOR_CONTROL_ARMING_PREPARATION_US, in ticks
  Repetitions,      \* MOTOR_CONTROL_DIRECTION_COMMAND_REPETITIONS
  CommandTimeout,   \* MOTOR_COMMAND_DEFAULT_TIMEOUT_US, in ticks
  TransferTimeout   \* MOTOR_CONTROL_OUTPUT_COMPLETION_TIMEOUT_US, in ticks

ASSUME GateConstants ==
  /\ Sources # {} /\ None \notin Sources
  /\ Motors # {}
  /\ Mappings \subseteq [Motors -> Motors]
  /\ \A m \in Mappings, output \in Motors :
        \E motor \in Motors : m[motor] = output
  /\ None \notin Mappings
  /\ Configurations # {}
  /\ Configurations \subseteq [Motors -> {"NORMAL", "REVERSED"}]
  /\ Preparation \in Nat \ {0}
  /\ Repetitions \in Nat \ {0}
  /\ CommandTimeout \in Nat \ {0}
  /\ TransferTimeout \in Nat \ {0}

\* motor_fault_policy_is_valid: initialization refuses a catalogue in which a
\* fault the gate reports is not critical.
ASSUME MotorFaultPolicy == {"MOTOR_OUTPUT", "MOTOR_FORCE_STOP"} \subseteq Critical

\* motor_mapping_initialize.
Identity == [motor \in Motors |-> motor]

ASSUME IdentityIsMapping == Identity \in Mappings

VARIABLES
  active, pending,          \* active_source, pending_source
  retained,                 \* retained_command
  streamStarted, streamAge, \* stop_stream_started, now - stop_stream_started_at
  prepared,                 \* arming_preparation_complete
  externalReady,            \* external_arm_ready
  directionsLeft,           \* direction_repetitions_remaining
  directionActive,          \* direction_sequence_active
  outputsStopped,
  transferring, transferAge,\* transfer_in_progress, now - transfer_started_at
  mapping, configuration,
  notified,                 \* the last lifecycle notification
  board,                    \* board_output_state
  frame,                    \* what each motor line carries, or carried last
  heard,                    \* history: frames of the directions now due that
                            \* the ESCs got in a row
  remapped,                 \* history: the directions due changed during the
                            \* running direction sequence
  sinceStop                 \* history: ticks since the last force stop

lifecycle == <<state, faults>>
authority == <<active, pending, retained>>
stream    == <<streamStarted, streamAge, prepared>>
sequence  == <<directionsLeft, directionActive, remapped>>
transfer  == <<outputsStopped, transferring, transferAge>>
settings  == <<externalReady, mapping, configuration>>
wire      == <<board, frame, heard, sinceStop>>

vars == <<lifecycle, authority, stream, sequence, transfer, settings, notified,
          wire>>

\* A retained command: whether it asks any motor for power and the age of its
\* timestamp; the source and mapping it was accepted with are history.
Commands == [valid : {TRUE}, source : Sources, power : BOOLEAN,
             age : 0..(CommandTimeout + 1), mapping : Mappings]

NoCommand == [valid |-> FALSE, source |-> None, power |-> FALSE, age |-> 0,
              mapping |-> None]

\* The lines are low, carry a throttle frame of zeros or of power, or carry a
\* direction command each.
Low   == [output \in Motors |-> "LOW"]
Stop  == [output \in Motors |-> "STOP"]
Power == [output \in Motors |-> "POWER"]
DirectionFrames == [Motors -> {"NORMAL", "REVERSED"}]
Frames == {Low, Stop, Power} \cup DirectionFrames

\* map_directions_to_physical: the output a motor is mapped to gets the
\* direction of that motor.
PhysicalDirections(c, m) ==
  [output \in Motors |-> c[CHOOSE motor \in Motors : m[motor] = output]]

\* The directions the ESCs are to hear.
Due == PhysicalDirections(configuration, mapping)

TypeOK ==
  /\ state \in States /\ faults \in FaultStates
  /\ active \in Sources \cup {None} /\ pending \in Sources \cup {None}
  /\ retained \in Commands \cup {NoCommand}
  /\ streamStarted \in BOOLEAN /\ streamAge \in 0..Preparation
  /\ prepared \in BOOLEAN /\ externalReady \in BOOLEAN
  /\ directionsLeft \in 0..Repetitions /\ directionActive \in BOOLEAN
  /\ remapped \in BOOLEAN /\ outputsStopped \in BOOLEAN
  /\ transferring \in BOOLEAN /\ transferAge \in 0..TransferTimeout
  /\ mapping \in Mappings /\ configuration \in Configurations
  /\ notified \in {"NONE", "PREPARATION", "DISARMED"}
  /\ board \in {"IDLE", "ACTIVE", "ERROR"} /\ frame \in Frames
  /\ heard \in 0..Repetitions /\ sinceStop \in 0..Preparation

\* The state a successful motor_control_initialize leaves, in INITIALIZING,
\* after the runtime has set the calibration interlock.
Init ==
  /\ state = "INITIALIZING" /\ faults = NoFaults
  /\ active = None /\ pending = None /\ retained = NoCommand
  /\ streamStarted = FALSE /\ streamAge = 0 /\ prepared = FALSE
  /\ externalReady \in BOOLEAN
  /\ directionsLeft = 0 /\ directionActive = FALSE /\ remapped = FALSE
  /\ outputsStopped = TRUE /\ transferring = FALSE /\ transferAge = 0
  /\ mapping = Identity /\ configuration \in Configurations
  /\ notified = "NONE"
  /\ board = "IDLE" /\ frame = Low /\ heard = 0 /\ sinceStop = 0

-----------------------------------------------------------------------------
(* The output chain. *)

\* Wrong on purpose: outputs_stopped survives a new frame.
SendFrameStopped(f) ==
  /\ board = "IDLE"
  /\ board' = "ACTIVE" /\ frame' = f
  /\ transferring' = TRUE /\ transferAge' = 0
  /\ heard' = IF f \in DirectionFrames THEN heard ELSE 0
  /\ UNCHANGED <<outputsStopped, sinceStop>>

\* A frame the board accepted: start_transfer hands it to the DMA.  Any frame
\* but a direction command ends the run of direction commands.
SendFrame(f) ==
  /\ board = "IDLE"
  /\ board' = "ACTIVE" /\ frame' = f
  /\ transferring' = TRUE /\ transferAge' = 0
  /\ outputsStopped' = FALSE
  /\ heard' = IF f \in DirectionFrames THEN heard ELSE 0
  /\ UNCHANGED sinceStop

\* force_stop_internal, from lifecycle s and registry f.  The board drives the
\* pins low whether or not it can confirm the stop.
ForceStopFrom(s, f, confirmed) ==
  /\ active' = None /\ pending' = None /\ retained' = NoCommand
  /\ streamStarted' = FALSE /\ streamAge' = 0 /\ prepared' = FALSE
  /\ directionsLeft' = 0 /\ directionActive' = FALSE /\ remapped' = FALSE
  /\ outputsStopped' = confirmed /\ transferring' = FALSE /\ transferAge' = 0
  /\ board' = IF confirmed THEN "IDLE" ELSE "ERROR"
  /\ frame' = Low /\ heard' = 0 /\ sinceStop' = 0
  /\ faults' = IF confirmed THEN f ELSE Noted(f, "MOTOR_FORCE_STOP")
  /\ state' = IF confirmed THEN s
                           ELSE StateAfterReport(s, f, "MOTOR_FORCE_STOP")
  /\ UNCHANGED <<settings, notified>>

\* An output failure: enter_failsafe_if_armed, MOTOR_OUTPUT, force stop.
OutputFailure ==
  \E confirmed \in BOOLEAN :
     ForceStopFrom(StateAfterReport(state, faults, "MOTOR_OUTPUT"),
                   Noted(faults, "MOTOR_OUTPUT"), confirmed)

DmaCompletes ==
  /\ board = "ACTIVE" /\ board' = "IDLE"
  /\ heard' = IF frame = Due /\ heard < Repetitions
              THEN heard + 1 ELSE heard
  /\ UNCHANGED <<lifecycle, authority, stream, sequence, transfer, settings,
                 notified, frame, sinceStop>>

DmaFails ==
  /\ board = "ACTIVE" /\ board' = "ERROR"
  /\ frame' = Low
  /\ UNCHANGED <<lifecycle, authority, stream, sequence, transfer, settings,
                 notified, heard, sinceStop>>

-----------------------------------------------------------------------------
(* Authority: arm, disarm, failsafe, and the calls other components make. *)

\* Wrong on purpose: retained_command is not cleared.
WithdrawSourceOnly == active' = None /\ UNCHANGED retained

WithdrawAuthority == active' = None /\ retained' = NoCommand

StartDirectionSequence ==
  directionsLeft' = Repetitions /\ directionActive' = TRUE /\ remapped' = FALSE

\* motor_control_ready_for_arm.
ReadyForArm ==
  /\ state = "DISARMED" /\ ~outputsStopped /\ streamStarted
  /\ prepared \/ streamAge >= Preparation

\* Wrong on purpose: a second source takes a pending arming over.
ArmTakesOver(source) ==
  /\ state = "DISARMED" /\ active = None
  /\ HealthAllowsOutput /\ externalReady /\ ReadyForArm
  /\ prepared' = TRUE
  /\ pending' = source /\ retained' = NoCommand
  /\ StartDirectionSequence
  /\ notified' = "PREPARATION"
  /\ UNCHANGED <<lifecycle, active, streamStarted, streamAge, transfer,
                 settings, wire>>

\* motor_control_arm: authority stays pending until the ESCs have been told
\* their directions.
Arm(source) ==
  /\ state = "DISARMED" /\ active = None /\ pending = None
  /\ HealthAllowsOutput
  /\ externalReady
  /\ ReadyForArm
  /\ prepared' = TRUE
  /\ pending' = source /\ retained' = NoCommand
  /\ StartDirectionSequence
  /\ notified' = "PREPARATION"
  /\ UNCHANGED <<lifecycle, active, streamStarted, streamAge, transfer,
                 settings, wire>>

\* Wrong on purpose: the pilot is not told that the arming is off.
DisarmPendingSilently ==
  /\ state = "DISARMED" /\ pending # None
  /\ pending' = None
  /\ UNCHANGED <<lifecycle, active, retained, stream, sequence, transfer,
                 settings, notified, wire>>

\* motor_control_disarm, of an arming that is still pending.
DisarmPending ==
  /\ state = "DISARMED" /\ pending # None
  /\ pending' = None
  /\ notified' = "DISARMED"
  /\ UNCHANGED <<lifecycle, active, retained, stream, sequence, transfer,
                 settings, wire>>

\* motor_control_disarm, of an armed or failsafe system, whoever armed it.
DisarmArmed ==
  /\ HandleEvent("DISARM_REQUESTED")
  /\ WithdrawAuthority
  /\ notified' = "DISARMED"
  /\ UNCHANGED <<faults, pending, stream, sequence, transfer, settings, wire>>

Disarm == DisarmPending \/ DisarmArmed

\* motor_control_recover_to_disarmed, when there is anything to recover from.
RecoverToDisarmed == state = "FAILSAFE" /\ DisarmArmed

\* motor_control_enter_failsafe.
EnterFailsafe ==
  /\ HandleEvent("FAILSAFE_DETECTED")
  /\ WithdrawAuthority
  /\ UNCHANGED <<faults, pending, stream, sequence, transfer, settings,
                 notified, wire>>

\* motor_control_force_stop, as its only caller makes it: the bootloader
\* request of the USB processor, in DISARMED and with no source.
ForceStop ==
  /\ state = "DISARMED" /\ pending = None
  /\ \E confirmed \in BOOLEAN : ForceStopFrom(state, faults, confirmed)

\* motor_control_configure_mapping.  A pending arming does not refuse it, and a
\* running direction sequence goes on with the directions of the new mapping.
ConfigureMapping(m) ==
  /\ state = "DISARMED"
  /\ mapping' = m
  /\ LET same == PhysicalDirections(configuration, m) = Due
     IN  /\ heard' = IF same THEN heard ELSE 0
         /\ remapped' = (remapped \/ (directionActive /\ ~same))
  /\ UNCHANGED <<lifecycle, authority, stream, directionsLeft, directionActive,
                 transfer, externalReady, configuration, notified, board, frame,
                 sinceStop>>

\* motor_control_apply_configuration: the ESCs are to hear the directions
\* again, all repetitions.
ApplyConfiguration(c) ==
  /\ state = "DISARMED" /\ pending = None
  /\ configuration' = c
  /\ heard' = IF PhysicalDirections(c, mapping) = Due THEN heard ELSE 0
  /\ StartDirectionSequence
  /\ UNCHANGED <<lifecycle, authority, stream, transfer, externalReady,
                 mapping, notified, board, frame, sinceStop>>

\* Wrong on purpose: a pending arming does not block the interlock's update.
SetExternalArmReadyWhilePending(ready) ==
  /\ state \notin {"ARMED", "FAILSAFE"}
  /\ externalReady' = ready
  /\ UNCHANGED <<lifecycle, authority, stream, sequence, transfer, mapping,
                 configuration, notified, wire>>

\* motor_control_set_external_arm_ready.
SetExternalArmReady(ready) ==
  /\ state \notin {"ARMED", "FAILSAFE"} /\ pending = None
  /\ externalReady' = ready
  /\ UNCHANGED <<lifecycle, authority, stream, sequence, transfer, mapping,
                 configuration, notified, wire>>

\* motor_control_active_source and motor_control_pending_source.
ActiveSource == IF state = "ARMED" THEN active ELSE None

PendingSource == IF state = "DISARMED" THEN pending ELSE None

-----------------------------------------------------------------------------
(* motor_control_submit *)

SubmitBlockedState ==
  /\ state # "ARMED"
  /\ WithdrawAuthority
  /\ UNCHANGED <<lifecycle, pending, stream, sequence, transfer, settings,
                 notified, wire>>

\* An invalid or stale command, or one made while health forbids output:
\* failsafe, then a force stop unless one is already confirmed.
SubmitRefused(source) ==
  /\ state = "ARMED" /\ source = active /\ prepared
  /\ IF outputsStopped
     THEN /\ state' = "FAILSAFE"
          /\ WithdrawAuthority
          /\ UNCHANGED <<faults, pending, stream, sequence, transfer, settings,
                         notified, wire>>
     ELSE \E confirmed \in BOOLEAN :
             ForceStopFrom("FAILSAFE", faults, confirmed)

\* A fresh, valid command of the owner replaces the retained one and renews the
\* lease; age is that of the producer's timestamp.
SubmitAccepted(source, power, age) ==
  /\ state = "ARMED" /\ source = active /\ prepared
  /\ HealthAllowsOutput
  /\ age <= CommandTimeout
  /\ retained' = [valid |-> TRUE, source |-> source, power |-> power,
                  age |-> age, mapping |-> mapping]
  /\ UNCHANGED <<lifecycle, active, pending, stream, sequence, transfer,
                 settings, notified, wire>>

Submit ==
  \/ SubmitBlockedState
  \/ \E source \in Sources :
        \/ SubmitRefused(source)
        \/ \E power \in BOOLEAN, age \in 0..CommandTimeout :
              SubmitAccepted(source, power, age)

-----------------------------------------------------------------------------
(* motor_control_synchronize, one action per way through it. *)

Inhibited == state \in {"BOOT", "INITIALIZING", "FAULT"}

LeaseLost ==
  /\ state = "ARMED"
  /\ \/ ~HealthAllowsOutput
     \/ prepared /\ retained.valid /\ retained.age > CommandTimeout

\* The safety checks every healthy release repeats before it touches the
\* output: a lost lease enters failsafe, and only ARMED keeps an owner.
CheckLease ==
  /\ state' = IF LeaseLost THEN "FAILSAFE" ELSE state
  /\ active' = IF state = "ARMED" /\ ~LeaseLost THEN active ELSE None
  /\ retained' = IF state = "ARMED" /\ ~LeaseLost THEN retained ELSE NoCommand

\* A stop frame went out: record_accepted_stop_frame.
SendStopFrame ==
  /\ SendFrame(Stop)
  /\ streamStarted' = TRUE
  /\ prepared' = (prepared \/ streamAge >= Preparation)
  /\ UNCHANGED streamAge

SyncBackendError == board = "ERROR" /\ OutputFailure

\* Before start-up is complete and in FAULT, with a confirmed stop ...
SyncStopped ==
  /\ board # "ERROR" /\ Inhibited /\ outputsStopped
  /\ active' = None /\ pending' = None /\ retained' = NoCommand
  /\ directionActive' = FALSE /\ remapped' = FALSE
  /\ transferring' = (transferring /\ board = "ACTIVE")
  /\ transferAge' = IF board = "ACTIVE" THEN transferAge ELSE 0
  /\ UNCHANGED <<lifecycle, stream, directionsLeft, outputsStopped, settings,
                 notified, wire>>

\* ... and without one.
SyncInhibits ==
  /\ board # "ERROR" /\ Inhibited /\ ~outputsStopped
  /\ \E confirmed \in BOOLEAN : ForceStopFrom(state, faults, confirmed)

\* Wrong on purpose: a transfer may stay under way for ever.
TransferNeverStuck == ~transferring

TransferStuck == ~transferring \/ transferAge >= TransferTimeout

SyncTransferStuck ==
  /\ board = "ACTIVE" /\ ~Inhibited /\ TransferStuck
  /\ OutputFailure

SyncTransferBusy ==
  /\ board = "ACTIVE" /\ ~Inhibited /\ ~TransferStuck
  /\ CheckLease
  /\ UNCHANGED <<faults, pending, stream, sequence, transfer, settings,
                 notified, wire>>

\* The board or the encoder refuses the frame, of whichever kind it is.
SyncRefused ==
  /\ board = "IDLE" /\ ~Inhibited
  /\ OutputFailure

\* Wrong on purpose: the check for the last repetition is missing.
SyncDirectionsForEver ==
  /\ board = "IDLE" /\ state = "DISARMED" /\ directionActive
  /\ SendFrame(Due)
  /\ directionsLeft' = directionsLeft - 1
  /\ WithdrawAuthority
  /\ UNCHANGED <<lifecycle, pending, stream, directionActive, remapped,
                 settings, notified>>

\* Wrong on purpose: the repetitions are not counted.
SyncDirectionsUncounted ==
  /\ board = "IDLE" /\ state = "DISARMED"
  /\ directionActive /\ directionsLeft > 0
  /\ SendFrame(Due)
  /\ WithdrawAuthority
  /\ UNCHANGED <<lifecycle, pending, stream, sequence, settings, notified>>

\* Wrong on purpose: the directions go out unmapped.
SyncDirectionsUnmapped ==
  /\ board = "IDLE" /\ state = "DISARMED"
  /\ directionActive /\ directionsLeft > 0
  /\ SendFrame(configuration)
  /\ directionsLeft' = directionsLeft - 1
  /\ WithdrawAuthority
  /\ UNCHANGED <<lifecycle, pending, stream, directionActive, remapped,
                 settings, notified>>

\* The directions go out through the mapping that is in force now.
SyncDirections ==
  /\ board = "IDLE" /\ state = "DISARMED"
  /\ directionActive /\ directionsLeft > 0
  /\ SendFrame(Due)
  /\ directionsLeft' = directionsLeft - 1
  /\ WithdrawAuthority
  /\ UNCHANGED <<lifecycle, pending, stream, directionActive, remapped,
                 settings, notified>>

ArmCompletes == pending # None /\ HealthAllowsOutput /\ prepared

\* The last direction frame is out: complete_pending_arm, then a stop frame.
SyncSequenceEnds ==
  /\ board = "IDLE" /\ state = "DISARMED"
  /\ directionActive /\ directionsLeft = 0
  /\ directionActive' = FALSE /\ remapped' = FALSE
  /\ pending' = None /\ retained' = NoCommand
  /\ state' = IF ArmCompletes THEN Target("ARM_REQUESTED") ELSE state
  /\ active' = IF ArmCompletes THEN pending ELSE None
  /\ notified' = IF pending # None /\ ~ArmCompletes THEN "DISARMED" ELSE notified
  /\ SendStopFrame
  /\ UNCHANGED <<faults, directionsLeft, settings>>

DirectionsDue == state = "DISARMED" /\ directionActive

\* Wrong on purpose: the lease is not checked again before the output.
CommandDueUnleased == state = "ARMED" /\ prepared /\ retained.valid

\* The retained command goes out as long as its lease lasts.
CommandDue == state = "ARMED" /\ ~LeaseLost /\ prepared /\ retained.valid

SyncCommand ==
  /\ board = "IDLE" /\ CommandDue
  /\ IF retained.power THEN SendFrame(Power) /\ UNCHANGED stream
                       ELSE SendStopFrame
  /\ UNCHANGED <<lifecycle, authority, sequence, settings, notified>>

\* Disarmed, in failsafe, newly in failsafe, or armed without a command.
SyncStopFrame ==
  /\ board = "IDLE" /\ ~Inhibited /\ ~DirectionsDue /\ ~CommandDue
  /\ CheckLease
  /\ SendStopFrame
  /\ UNCHANGED <<faults, pending, sequence, settings, notified>>

Synchronize ==
  \/ SyncBackendError
  \/ SyncStopped
  \/ SyncInhibits
  \/ SyncTransferStuck
  \/ SyncTransferBusy
  \/ SyncRefused
  \/ SyncDirections
  \/ SyncSequenceEnds
  \/ SyncCommand
  \/ SyncStopFrame

-----------------------------------------------------------------------------
(* The rest of the firmware, as the gate sees it. *)

\* The startup task, once the gyro calibration is ready.
InitializationCompleted ==
  /\ HandleEvent("INITIALIZATION_COMPLETED")
  /\ UNCHANGED <<faults, authority, stream, sequence, transfer, settings,
                 notified, wire>>

\* Any component reports, or clears, any fault.
ReportFault(id) ==
  /\ Report(id)
  /\ UNCHANGED <<authority, stream, sequence, transfer, settings, notified,
                 wire>>

ClearFault(id) ==
  /\ Clear(id)
  /\ UNCHANGED <<authority, stream, sequence, transfer, settings, notified,
                 wire>>

Older(age, bound) == IF age < bound THEN age + 1 ELSE age

\* One frame period passes; nothing says that a task ran in it.
Tick ==
  /\ retained' = IF retained.valid
                 THEN [retained EXCEPT !.age = Older(@, CommandTimeout + 1)]
                 ELSE retained
  /\ streamAge' = IF streamStarted THEN Older(streamAge, Preparation) ELSE 0
  /\ transferAge' = IF transferring THEN Older(transferAge, TransferTimeout)
                                    ELSE 0
  /\ sinceStop' = Older(sinceStop, Preparation)
  /\ UNCHANGED <<lifecycle, active, pending, streamStarted, prepared, sequence,
                 outputsStopped, transferring, settings, notified, board,
                 frame, heard>>

Environment ==
  \/ InitializationCompleted
  \/ DmaCompletes
  \/ DmaFails
  \/ \E id \in FaultIds : ReportFault(id) \/ ClearFault(id)
  \/ Tick

Calls ==
  \/ \E source \in Sources : Arm(source)
  \/ Disarm
  \/ RecoverToDisarmed
  \/ EnterFailsafe
  \/ ForceStop
  \/ \E m \in Mappings : ConfigureMapping(m)
  \/ \E c \in Configurations : ApplyConfiguration(c)
  \/ \E ready \in BOOLEAN : SetExternalArmReady(ready)
  \/ Submit

Next == Synchronize \/ Calls \/ Environment

Spec == Init /\ [][Next]_vars

\* The motor-control task is the highest-priority periodic task of a scheduler
\* that never stops, and time passes.  The DMA interrupt is owed nothing.
FairSpec == Spec /\ WF_vars(Synchronize) /\ WF_vars(Tick)

-----------------------------------------------------------------------------
(* Safety *)

\* The gate believes the motors stopped only while they are: no frame is under
\* way and the lines are low, although DMA frames, their failure and forced
\* stops change the hardware at moments the flag does not see.
BeliefMatchesOutput ==
  outputsStopped => board = "IDLE" /\ frame = Low

\* A retained command belongs to the source that holds authority now, and was
\* mapped with the mapping in force: no handover, disarm, failsafe, fault or
\* remapping lets a command outlive the authority it was accepted under.
CommandHasOwner ==
  retained.valid => /\ active # None
                    /\ retained.source = active
                    /\ retained.mapping = mapping

\* The calibration interlock cannot be lost between the check in arm and the
\* completion of the arming several frames later, nor in flight.
InterlockHolds ==
  pending # None \/ state \in {"ARMED", "FAILSAFE"} => externalReady

\* The pilot is told the truth about authority by the two notifications: from
\* the arm request to the disarm the last one is PREPARATION, and an arming that
\* dies in DISARMED is announced as a disarm.
NotificationsMatchAuthority ==
  /\ (pending # None /\ state # "FAULT") \/ state \in {"ARMED", "FAILSAFE"}
       => notified = "PREPARATION"
  /\ state = "DISARMED" /\ pending = None => notified # "PREPARATION"

\* Every report that is critical or cannot be kept has taken the lifecycle to
\* FAULT in the same step, also the two the gate raises one after the other.
FaultsInhibit ==
  faults.dropped \/ faults.records \cap Critical # {} => state = "FAULT"

\* Power is sent only for an armed owner whose own command is within its lease,
\* through a prepared output, with health that allows it.
PowerNeedsAuthority ==
  [][frame' = Power /\ board' = "ACTIVE" /\ board = "IDLE" =>
       /\ state = "ARMED" /\ state' = "ARMED"
       /\ active # None /\ retained.valid /\ retained.source = active
       /\ retained.age <= CommandTimeout
       /\ prepared /\ HealthAllowsOutput]_vars

\* The system becomes ARMED only after every ESC got all repetitions of the
\* direction that the configuration gives the motor now mapped to it, undisturbed
\* by other frames, at least a preparation period after the last forced stop, and
\* with no power on the lines.  The one exception is a remap of a pending arming:
\* motor_control_configure_mapping is not refused then and does not restart the
\* sequence, so that some repetitions carried the directions of the old mapping.
ArmedOnlyWhenPrepared ==
  [][state # "ARMED" /\ state' = "ARMED" =>
       /\ heard = Repetitions \/ remapped
       /\ sinceStop = Preparation
       /\ frame # Power /\ frame' # Power
       /\ externalReady]_vars

Authority == INSTANCE MotorAuthority WITH
  mode      <- IF state \in {"BOOT", "INITIALIZING"} THEN "STARTING" ELSE state,
  requested <- PendingSource,
  owner     <- ActiveSource,
  powered   <- frame = Power

\* The gate keeps the promise of MotorAuthority, with the sources that its two
\* queries report.
ImplementsAuthority == Authority!AuthoritySpec

-----------------------------------------------------------------------------
(* Liveness, under FairSpec *)

\* Once authority is gone the 1 kHz task takes power off the lines, even if the
\* DMA interrupt never comes.
PowerIsWithdrawn == (state # "ARMED" /\ frame = Power) ~> (frame # Power)

\* A requested arming is decided one way or the other.
ArmingResolves == (pending # None) ~> (pending = None)

=============================================================================
