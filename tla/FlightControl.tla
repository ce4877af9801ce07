---------------------------- MODULE FlightControl ----------------------------
(***************************************************************************)
(* Flying by receiver: the flight-control task (app/flight_control_task.c, *)
(* app/flight_control.c) with the receiver-loss policy, the arming          *)
(* interlock (app/receiver_arming.c) and the motor gate, of which only the *)
(* promise of MotorAuthority is used.                                      *)
(*                                                                         *)
(* The task makes several calls of the gate in one run, and no other task  *)
(* runs between them: `phase' says how far the run has come, and whatever   *)
(* is not the task waits for phase "IDLE".                                  *)
(***************************************************************************)
EXTENDS MotorAuthority, ReceiverFailsafe

CONSTANT Receiver  \* MOTOR_CONTROL_SOURCE_RECEIVER

ASSUME ReceiverIsSource == Receiver \in Sources /\ None \notin Sources

VARIABLES
  lowSeen,       \* arm_low_seen
  previousHigh,  \* previous_arm_switch_high
  observed,      \* switch_observed
  lossReported,  \* receiver_connection_fault_reported
  phase,         \* the next step of the task
  sample,        \* history: what the interlock made of its last input
  released,      \* history: the switch was seen low since authority or input
                 \* was last lost or requested
  safe, safeFor  \* history: the last input was safe, and for how long all were

arming  == <<lowSeen, previousHigh, observed>>
history == <<sample, released, safe, safeFor>>
vars    == <<authorityVars, receiverVars, arming, lossReported, phase, history>>

TypeOK ==
  /\ mode \in Modes /\ powered \in BOOLEAN
  /\ requested \in Sources \cup {None} /\ owner \in Sources \cup {None}
  /\ ReceiverTypeOK
  /\ lowSeen \in BOOLEAN /\ previousHigh \in BOOLEAN /\ observed \in BOOLEAN
  /\ lossReported \in BOOLEAN
  /\ phase \in {"IDLE", "ARMING", "FAULT", "ACT"}
  /\ sample \in {"UNUSABLE", "LOW", "HIGH"}
  /\ released \in BOOLEAN /\ safe \in BOOLEAN /\ safeFor \in 0..RecoveryStable

Init ==
  /\ AuthorityInit /\ ReceiverInit
  /\ lowSeen = FALSE /\ previousHigh = FALSE /\ observed = FALSE
  /\ lossReported = FALSE /\ phase = "IDLE"
  /\ sample = "UNUSABLE" /\ released = FALSE /\ safe = FALSE /\ safeFor = 0

\* The source the interlock sees: the active one, else the pending one.
Source == IF owner # None THEN owner ELSE requested

-----------------------------------------------------------------------------
(* The run of the flight-control task. *)

StartRun ==
  /\ phase = "IDLE" /\ phase' = "ARMING"
  /\ UpdateFailsafe
  /\ safe' = SafeControls
  /\ safeFor' = IF safe /\ SafeControls THEN safeFor ELSE 0
  /\ UNCHANGED <<authorityVars, arming, lossReported, sample, released>>

\* receiver_arming_process, one action per way through it.  The freshness flag
\* of the service is not older than the snapshot, so LIVE implies it.
Usable == control.valid /\ policy = "LIVE"

ClearQualification ==
  lowSeen' = FALSE /\ previousHigh' = FALSE /\ observed' = FALSE

\* Wrong on purpose: losing the input leaves a pending arming alone.
InputUnusableIgnored ==
  /\ ~Usable
  /\ ClearQualification
  /\ sample' = "UNUSABLE" /\ released' = FALSE
  /\ UNCHANGED authorityVars

InputUnusable ==
  /\ ~Usable
  /\ IF requested = Receiver THEN Cancel ELSE UNCHANGED authorityVars
  /\ ClearQualification
  /\ sample' = "UNUSABLE" /\ released' = FALSE

\* Wrong on purpose: what the switch did under another owner still counts.
OtherSourceIgnored ==
  /\ Usable /\ Source \notin {None, Receiver}
  /\ sample' = IF control.high THEN "HIGH" ELSE "LOW"
  /\ released' = FALSE
  /\ UNCHANGED <<authorityVars, arming>>

OtherSourceActive ==
  /\ Usable /\ Source \notin {None, Receiver}
  /\ ClearQualification
  /\ sample' = IF control.high THEN "HIGH" ELSE "LOW"
  /\ released' = FALSE
  /\ UNCHANGED authorityVars

ReceiverActive ==
  /\ Usable /\ Source = Receiver /\ control.high
  /\ observed' = TRUE /\ previousHigh' = TRUE
  /\ sample' = "HIGH"
  /\ UNCHANGED <<authorityVars, lowSeen, released>>

ReceiverDisarms ==
  /\ Usable /\ Source = Receiver /\ ~control.high
  /\ Cancel \/ (mode # "FAULT" /\ Withdraw("DISARMED"))
  /\ observed' = TRUE /\ previousHigh' = FALSE /\ lowSeen' = TRUE
  /\ sample' = "LOW" /\ released' = TRUE

SwitchLow ==
  /\ Usable /\ Source = None /\ ~control.high
  /\ lowSeen' = TRUE /\ previousHigh' = FALSE /\ observed' = TRUE
  /\ sample' = "LOW" /\ released' = TRUE
  /\ UNCHANGED authorityVars

RisingEdge == observed /\ ~previousHigh

WaitingForLow ==
  /\ Usable /\ Source = None /\ control.high
  /\ ~lowSeen \/ ~RisingEdge
  /\ previousHigh' = TRUE /\ observed' = TRUE
  /\ sample' = "HIGH"
  /\ UNCHANGED <<authorityVars, lowSeen, released>>

\* A qualified edge: the gate may accept the request or refuse it; with the
\* throttle up it is not even asked.  The edge is spent in every case.
SwitchRises ==
  /\ Usable /\ Source = None /\ control.high
  /\ lowSeen /\ RisingEdge
  /\ \/ control.throttle = "STOP" /\ Request(Receiver)
     \/ UNCHANGED authorityVars
  /\ lowSeen' = FALSE /\ previousHigh' = TRUE /\ observed' = TRUE
  /\ sample' = "HIGH" /\ released' = FALSE

ProcessArming ==
  /\ phase = "ARMING" /\ phase' = "FAULT"
  /\ \/ InputUnusable
     \/ OtherSourceActive
     \/ ReceiverActive
     \/ ReceiverDisarms
     \/ SwitchLow
     \/ WaitingForLow
     \/ SwitchRises
  /\ UNCHANGED <<receiverVars, lossReported, safe, safeFor>>

\* update_receiver_connection_fault: RECEIVER_CONNECTION_LOST is not critical,
\* but a report that finds no slot puts the lifecycle in FAULT and is repeated.
ReportLoss ==
  /\ LossDetected /\ ~lossReported
  /\ \/ lossReported' = TRUE /\ UNCHANGED authorityVars
     \/ lossReported' = FALSE /\ Withdraw("FAULT")
     \/ lossReported' = FALSE /\ mode = "FAULT" /\ UNCHANGED authorityVars

ClearLoss ==
  /\ ~LossDetected /\ lossReported
  /\ lossReported' = FALSE
  /\ UNCHANGED authorityVars

UpdateConnectionFault ==
  /\ phase = "FAULT" /\ phase' = "ACT"
  /\ \/ ReportLoss
     \/ ClearLoss
     \/ LossDetected = lossReported /\ UNCHANGED <<lossReported, authorityVars>>
  /\ UNCHANGED <<receiverVars, arming, history>>

\* flight_control_recover_receiver, which motor_control_recover_to_disarmed
\* lets pass in DISARMED without a source and from FAILSAFE.
Recover ==
  /\ ready
  /\ IF \/ mode = "DISARMED" /\ requested = None
        \/ mode = "FAILSAFE"
     THEN /\ ReleaseStageTwo
          /\ IF mode = "FAILSAFE" THEN Withdraw("DISARMED")
                                  ELSE UNCHANGED authorityVars
     ELSE UNCHANGED <<authorityVars, receiverVars>>

\* Wrong on purpose: the behaviour flies through stage two.
BehaveInStageTwo ==
  /\ ~ready
  /\ UNCHANGED <<authorityVars, receiverVars>>

\* The behaviour, only while the receiver owns the motors.  It asks for a stop
\* in stage two; else it submits, waits for the IMU, or fails, and a command the
\* gate refuses can end in FAULT when the stop is not confirmed.
Behave ==
  /\ ~ready
  /\ \/ /\ owner = Receiver
        /\ \/ Withdraw("FAILSAFE")
           \/ ~latched /\ Withdraw("FAULT")
     \/ /\ owner = Receiver => ~latched
        /\ UNCHANGED authorityVars
  /\ UNCHANGED receiverVars

FinishRun ==
  /\ phase = "ACT" /\ phase' = "IDLE"
  /\ Recover \/ Behave
  /\ UNCHANGED <<arming, lossReported, history>>

FlightControlTask ==
  \/ StartRun
  \/ ProcessArming
  \/ UpdateConnectionFault
  \/ FinishRun

-----------------------------------------------------------------------------
(* What happens between two runs. *)

\* The motor task, the USB commands of the other sources, and faults.
GateMoves ==
  /\ phase = "IDLE"
  /\ \/ Enable
     \/ \E source \in Sources \ {Receiver} : Request(source)
     \/ Cancel
     \/ Grant
     \/ Power
     \/ Unpower
     \/ \E next \in Modes : Withdraw(next)
  /\ UNCHANGED <<receiverVars, arming, lossReported, phase, history>>

\* The receiver task accepts a frame.
ReceiverTask ==
  /\ phase = "IDLE"
  /\ ReceiveFrame
  /\ UNCHANGED <<authorityVars, arming, lossReported, phase, history>>

\* apply_runtime of the configuration service: the policy starts anew.
ApplyConfiguration ==
  /\ phase = "IDLE"
  /\ mode = "DISARMED" /\ requested = None
  /\ Unlatched
  /\ age' = IF control.valid THEN age ELSE 0
  /\ UNCHANGED <<authorityVars, control, arming, lossReported, phase, history>>

Tick ==
  /\ phase = "IDLE"
  /\ ReceiverTick
  /\ safeFor' = IF safe THEN Aged(safeFor, RecoveryStable) ELSE 0
  /\ UNCHANGED <<authorityVars, arming, lossReported, phase, sample, released,
                 safe>>

Next ==
  \/ FlightControlTask
  \/ GateMoves
  \/ ReceiverTask
  \/ ApplyConfiguration
  \/ Tick

Spec == Init /\ [][Next]_vars

\* The scheduler releases the task every millisecond, and time passes between
\* its runs.
FairSpec == Spec /\ WF_vars(FlightControlTask) /\ SF_vars(Tick)

-----------------------------------------------------------------------------
\* After every run: an arming the receiver asked for is still pending only if
\* the switch was up in the last input, and the receiver stays in command only
\* if the last usable input did not show the switch down.
SwitchHoldsAuthority ==
  phase = "IDLE" => /\ requested = Receiver => sample = "HIGH"
                    /\ owner = Receiver => sample # "LOW"

\* After every run a latched stage two has ended receiver authority, also the
\* one that is still pending.
StageTwoStops == phase = "IDLE" /\ latched => Source # Receiver

\* Flying on held or invented control past the loss threshold is on record in
\* the fault registry, and live control is not.
BlindFlightIsReported ==
  phase = "IDLE" /\ owner = Receiver =>
     /\ policy \in {"LOSS_HOLD", "STAGE_ONE"} => lossReported
     /\ policy = "LIVE" => ~lossReported

\* The receiver asks for the motors only on live input with the throttle at
\* stop, out of stage two, and only after the switch was seen low since it last
\* had them, asked for them, lost its input or met another owner: no order of
\* losses, faults and USB disarms lets a switch left up arm.
ArmNeedsRelease ==
  [][requested # Receiver /\ requested' = Receiver =>
       /\ released /\ control.high /\ control.throttle = "STOP"
       /\ Fresh /\ ~latched]_vars

\* The task ends stage two only after every input was safe for the recovery
\* time, and leaves the lifecycle in DISARMED; nor does it leave FAILSAFE
\* without that.
RecoveryIsEarned ==
  [][phase = "ACT" /\ (latched # latched' \/ (mode # mode' /\ mode' = "DISARMED"))
       => /\ safeFor = RecoveryStable
          /\ mode' = "DISARMED" /\ requested' = None]_vars

\* A receiver that goes silent loses the motors, whatever the gate and the other
\* components do meanwhile, unless it comes back.
LossStopsFlight ==
  (owner = Receiver /\ age > 0) ~> (owner # Receiver \/ age = 0)

=============================================================================
