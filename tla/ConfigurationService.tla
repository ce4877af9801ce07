------------------------ MODULE ConfigurationService ------------------------
(***************************************************************************)
(* The configuration service (app/flight_configuration_service.c) over its  *)
(* flash sector, with the two that use it: the USB commands, and the IMU    *)
(* task, which runs the level calibration and saves its result.  Both also  *)
(* set the arming interlock of the motor gate, of which MotorAuthority is   *)
(* the rest.  A task is one step; a reset comes at any time, also in the    *)
(* middle of a flash operation.                                             *)
(***************************************************************************)
EXTENDS MotorAuthority, ConfigurationStorage, LevelCalibration

VARIABLES
  unit,      \* "OFF", "RUNNING", or "HALTED" by a configuration it cannot use
  active,    \* service->active
  source,    \* service->source
  runtime,   \* the configuration that gate, policy, level calibration and
             \* the prepared control run on
  pipeline,  \* the configuration that the IMU pipeline runs on
  armReady   \* external_arm_ready

service == <<active, source, runtime, pipeline>>
vars == <<unit, sector, service, armReady, levelVars, authorityVars>>

TypeOK ==
  /\ unit \in {"OFF", "RUNNING", "HALTED"}
  /\ StorageTypeOK /\ LevelTypeOK
  /\ {active, runtime, pipeline} \subseteq Configurations
  /\ source \in {"DEFAULT", "PERSISTENT"}
  /\ armReady \in BOOLEAN
  /\ mode \in Modes /\ powered = FALSE
  /\ requested \in Sources \cup {None} /\ owner \in Sources \cup {None}

\* A unit that was never configured.
Init ==
  /\ unit = "OFF" /\ sector = EmptySector
  /\ active = Defaults /\ source = "DEFAULT"
  /\ runtime = Defaults /\ pipeline = Defaults
  /\ armReady = FALSE
  /\ level = "UNCALIBRATED" /\ elapsed = 0 /\ samples = 0 /\ sampleAge = 0
  /\ AuthorityInit

-----------------------------------------------------------------------------
(* Start and reset. *)

\* What the next boot can start with: prepare_runtime may refuse what it loads.
AtBoot ==
  LET loaded == Load(sector)
  IN  IF loaded \in Applicable THEN loaded ELSE Unreadable

\* flight_configuration_service_initialize, and the interlock set after it.
Boot ==
  /\ unit = "OFF"
  /\ unit' = IF AtBoot = Unreadable THEN "HALTED" ELSE "RUNNING"
  /\ active' = IF Load(sector) = Unreadable THEN Defaults ELSE Load(sector)
  /\ source' = IF Valid(sector) = {} THEN "DEFAULT" ELSE "PERSISTENT"
  /\ runtime' = active' /\ pipeline' = active'
  /\ armReady' = active'.calibrated
  /\ LevelSet(active'.calibrated)
  /\ mode' = IF AtBoot = Unreadable THEN "FAULT" ELSE "STARTING"
  /\ UNCHANGED <<sector, sampleAge, requested, owner, powered>>

\* Wrong on purpose: a pending arming does not count.
RuntimeIsSafeWhilePending == mode = "DISARMED"

RuntimeIsSafe == mode = "DISARMED" /\ requested = None

\* Power is lost, between two steps or during a flash operation, and with it
\* what RAM holds; `active' stands for what was last in force.
Reset ==
  /\ unit # "OFF" /\ unit' = "OFF"
  /\ \/ UNCHANGED sector
     \/ /\ unit = "RUNNING" /\ RuntimeIsSafe
        /\ \/ \E configuration \in Configurations : SaveFails(configuration)
           \/ EraseFails
  /\ armReady' = FALSE /\ LevelSet(FALSE) /\ sampleAge' = 0
  /\ mode' = "STARTING" /\ requested' = None /\ owner' = None
  /\ UNCHANGED <<service, powered>>

-----------------------------------------------------------------------------
(* The service. *)

\* motor_control_set_external_arm_ready
SetArmReady(ready) ==
  armReady' = IF mode \in {"ARMED", "FAILSAFE"} \/ requested # None
              THEN armReady ELSE ready

Replace(configuration, from) ==
  /\ active' = configuration /\ source' = from
  /\ runtime' = configuration /\ pipeline' = configuration

Refuse ==
  /\ ~RuntimeIsSafe
  /\ UNCHANGED <<sector, service>>

\* Wrong on purpose: the runtime is prepared before the record is saved.
WriteFailsAfterApplying(configuration) ==
  /\ RuntimeIsSafe
  /\ SaveFails(configuration)
  /\ runtime' = configuration /\ pipeline' = configuration
  /\ UNCHANGED <<active, source>>

WriteFails(configuration) ==
  /\ RuntimeIsSafe
  /\ SaveFails(configuration)
  /\ UNCHANGED service

\* The record is saved before anything in force changes.
WriteSucceeds(configuration) ==
  /\ RuntimeIsSafe /\ configuration \in Applicable
  /\ Save(configuration)
  /\ Replace(configuration, "PERSISTENT")

\* APPLY_ERROR: the record is saved and the IMU pipeline runs on it, when
\* level_calibration_initialize refuses the trims and prepare_runtime gives up.
WriteNotApplied(configuration) ==
  /\ RuntimeIsSafe /\ configuration \notin Applicable
  /\ Save(configuration)
  /\ pipeline' = configuration
  /\ UNCHANGED <<active, source, runtime>>

ResetSucceeds ==
  /\ RuntimeIsSafe
  /\ EraseSector
  /\ Replace(Defaults, "DEFAULT")

ResetFails ==
  /\ RuntimeIsSafe
  /\ EraseFails
  /\ UNCHANGED service

-----------------------------------------------------------------------------
(* The USB commands. *)

\* config_write and config_reset.  A success starts the level calibration anew.
Configure ==
  /\ unit = "RUNNING"
  /\ \/ /\ \/ \E configuration \in Configurations : WriteSucceeds(configuration)
           \/ ResetSucceeds
        /\ SetArmReady(active'.calibrated)
        /\ LevelSet(active'.calibrated)
     \/ /\ \/ Refuse
           \/ \E configuration \in Configurations :
                WriteNotApplied(configuration) \/ WriteFails(configuration)
           \/ ResetFails
        /\ UNCHANGED <<armReady, calibration>>
  /\ UNCHANGED <<unit, sampleAge, authorityVars>>

\* imu_level_calibration_start closes the interlock; a second start is refused
\* and opens it again if the active configuration is calibrated.
StartCalibration ==
  /\ unit = "RUNNING" /\ RuntimeIsSafe
  /\ \/ LevelStart /\ SetArmReady(FALSE)
     \/ level = "COLLECTING" /\ SetArmReady(active.calibrated)
        /\ UNCHANGED calibration
  /\ UNCHANGED <<unit, sector, service, sampleAge, authorityVars>>

-----------------------------------------------------------------------------
(* The IMU task. *)

NotCalibrating ==
  /\ level # "COLLECTING"
  /\ UNCHANGED <<sector, service, armReady, calibration>>

KeepsCollecting(new) ==
  /\ level = "COLLECTING" /\ Collects(new)
  /\ UNCHANGED <<sector, service, armReady>>

\* Wrong on purpose: a failed calibration leaves the interlock closed.
CalibrationFailsLocked(new) ==
  /\ level = "COLLECTING" /\ LevelFails(new)
  /\ UNCHANGED <<sector, service, armReady>>

CalibrationFails(new) ==
  /\ level = "COLLECTING" /\ LevelFails(new)
  /\ SetArmReady(active.calibrated)
  /\ UNCHANGED <<sector, service>>

Leveled(trim) == [active EXCEPT !.calibrated = TRUE, !.trim = trim]

\* The trims that can be measured: more fail the calibration.
Measurable == {trim \in Trims : <<active.settings, trim>> \in WithinLimit}

\* Wrong on purpose: a result that could not be saved is reported READY.
CalibrationEndsReady(new) ==
  /\ level = "COLLECTING" /\ Result(new)
  /\ elapsed' = 0 /\ samples' = 0 /\ level' = "READY"
  /\ \E trim \in Measurable :
       \/ WriteSucceeds(Leveled(trim)) /\ SetArmReady(TRUE)
       \/ /\ Refuse \/ WriteFails(Leveled(trim))
          /\ SetArmReady(active.calibrated)

\* The result is written into what is active now, and may be refused.
CalibrationEnds(new) ==
  /\ level = "COLLECTING" /\ Result(new)
  /\ elapsed' = 0 /\ samples' = 0
  /\ \E trim \in Measurable :
       \/ /\ WriteSucceeds(Leveled(trim))
          /\ level' = "READY" /\ SetArmReady(TRUE)
       \/ /\ Refuse \/ WriteFails(Leveled(trim))
          /\ level' = "FAILED" /\ SetArmReady(active.calibrated)

ImuTask ==
  /\ unit = "RUNNING"
  /\ \E new \in BOOLEAN :
       /\ Acquire(new)
       /\ \/ NotCalibrating
          \/ KeepsCollecting(new)
          \/ CalibrationFails(new)
          \/ CalibrationEnds(new)
  /\ UNCHANGED <<unit, authorityVars>>

-----------------------------------------------------------------------------
(* The rest of the system. *)

GateMoves ==
  /\ unit = "RUNNING"
  /\ \/ Enable
     \/ armReady /\ \E s \in Sources : Request(s)
     \/ Cancel
     \/ Grant
     \/ \E next \in Modes : Withdraw(next)
  /\ UNCHANGED <<unit, sector, service, armReady, levelVars>>

Tick ==
  /\ unit = "RUNNING"
  /\ LevelTick
  /\ UNCHANGED <<unit, sector, service, armReady, authorityVars>>

Next ==
  \/ Boot
  \/ Reset
  \/ Configure
  \/ StartCalibration
  \/ ImuTask
  \/ GateMoves
  \/ Tick

Spec == Init /\ [][Next]_vars

\* The scheduler runs the IMU task every millisecond, and time passes.
FairSpec == Spec /\ WF_vars(ImuTask) /\ WF_vars(Tick)

-----------------------------------------------------------------------------
\* Arming is open only on a calibrated configuration, and once no calibration
\* runs the interlock is back to what the configuration says: no order of
\* starts, writes, failures and armings leaves it closed or open for good.
InterlockIsGivenBack ==
  unit = "RUNNING" =>
    /\ armReady => active.calibrated
    /\ level # "COLLECTING" => armReady = active.calibrated

\* What the gate, the policy, the control and the level calibration run on is
\* what config_read reports, also after a write that failed half way; and the IMU
\* pipeline runs on another configuration only if the runtime refused that one.
RuntimeIsActive ==
  unit = "RUNNING" =>
    /\ runtime = active
    /\ pipeline # active => pipeline \notin Applicable

\* usb-json-protocol.md: config_write is to "validate, persist, and atomically
\* apply one complete configuration": no part of the firmware runs on one that is
\* not the active one.
AppliedAsAWhole ==
  unit = "RUNNING" => runtime = active /\ pipeline = active

\* A calibration that reports READY is the one in force.
LevelIsActive ==
  unit = "RUNNING" => /\ level = "READY" => active.calibrated
                      /\ level = "UNCALIBRATED" => ~active.calibrated

\* While the motors are armed, or are about to be, neither a command nor a
\* calibration that ends late changes the configuration, the interlock or the
\* flash.
FlightKeepsConfiguration ==
  [][/\ unit = "RUNNING" /\ unit' = "RUNNING"
     /\ requested # None \/ mode \in {"ARMED", "FAILSAFE"}
     => UNCHANGED <<sector, service, armReady>>]_vars

\* Active and stored configuration keep the promise of the contract.
Contract == INSTANCE ConfigurationContract WITH
  active <- IF unit = "RUNNING" THEN active ELSE Unreadable,
  atBoot <- AtBoot
ImplementsContract == Contract!ContractSpec

\* usb-json-protocol.md: the interlock blocks arming "until a level calibration
\* is active, including while a new calibration is running".
NoArmingWhileCalibrating ==
  unit = "RUNNING" /\ level = "COLLECTING" => ~armReady

\* A calibration that was started ends, whatever the sensor delivers, unless
\* the unit is switched off.
CalibrationResolves ==
  (unit = "RUNNING" /\ level = "COLLECTING") ~> (unit # "RUNNING" \/ level # "COLLECTING")

=============================================================================
