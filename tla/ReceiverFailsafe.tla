--------------------------- MODULE ReceiverFailsafe ---------------------------
(***************************************************************************)
(* The receiver-loss policy (flight/receiver/receiver_failsafe.c) and the  *)
(* snapshot it judges (app/receiver_service.c).  A snapshot is its arm     *)
(* switch and the band its throttle falls in; deadlines are ages in ticks  *)
(* that saturate where the code stops telling them apart.  The clock never *)
(* runs backwards (docs/timebase.md), so the branches for that are out.    *)
(***************************************************************************)
EXTENDS Naturals

CONSTANTS StaleAfter, LossAfter, HoldUntil, StageTwoAfter, RecoveryStable

\* receiver_failsafe_config_is_valid.
ASSUME FailsafeConfig ==
  /\ {StaleAfter, LossAfter, HoldUntil, StageTwoAfter, RecoveryStable}
       \subseteq Nat \ {0}
  /\ StaleAfter < LossAfter /\ LossAfter < HoldUntil
  /\ HoldUntil < StageTwoAfter

VARIABLES
  control,      \* the latest normalized snapshot
  age,          \* its age, or time since initialization while there is none
  policy,       \* receiver_failsafe_state_t
  latched,      \* stage_two_latched
  recovering,   \* recovery_timer_active
  recoveryAge,  \* now - recovery_started_at_us
  ready         \* recovery_ready

link   == <<control, age>>
latch  == <<latched, recovering, recoveryAge, ready>>
receiverVars == <<link, policy, latch>>

\* At most the arming limit, at most the recovery limit, above both.
Throttles == {"STOP", "LOW", "HIGH"}

NoControl == [valid |-> FALSE, high |-> FALSE, throttle |-> "STOP"]

Controls == [valid : {TRUE}, high : BOOLEAN, throttle : Throttles]
              \cup {NoControl}

Policies == {"UNAVAILABLE", "LIVE", "STALE_HOLD", "LOSS_HOLD", "STAGE_ONE",
             "STAGE_TWO_LATCHED", "STAGE_TWO_RECOVERING"}

\* The types, and the agreement of the state with the flags beside it.
ReceiverTypeOK ==
  /\ control \in Controls /\ age \in 0..(StageTwoAfter + 1)
  /\ policy \in Policies
  /\ latched \in BOOLEAN /\ recovering \in BOOLEAN /\ ready \in BOOLEAN
  /\ recoveryAge \in 0..RecoveryStable
  /\ latched <=> policy \in {"STAGE_TWO_LATCHED", "STAGE_TWO_RECOVERING"}
  /\ recovering <=> policy = "STAGE_TWO_RECOVERING"
  /\ ready => recovering /\ recoveryAge = RecoveryStable

\* receiver_failsafe_initialize.
Unlatched ==
  /\ policy' = "UNAVAILABLE" /\ latched' = FALSE
  /\ recovering' = FALSE /\ recoveryAge' = 0 /\ ready' = FALSE

ReceiverInit ==
  /\ control = NoControl /\ age = 0
  /\ policy = "UNAVAILABLE" /\ latched = FALSE
  /\ recovering = FALSE /\ recoveryAge = 0 /\ ready = FALSE

\* receiver_service_process_once, when the source yields a frame.
ReceiveFrame ==
  /\ \E high \in BOOLEAN, throttle \in Throttles :
        control' = [valid |-> TRUE, high |-> high, throttle |-> throttle]
  /\ age' = 0
  /\ UNCHANGED <<policy, latch>>

Fresh == control.valid /\ age <= StaleAfter

SafeControls == Fresh /\ ~control.high /\ control.throttle # "HIGH"

\* Wrong on purpose: stage one never ends.
ClassifiedWithoutStageTwo ==
  IF ~control.valid        THEN "UNAVAILABLE"
  ELSE IF age <= StaleAfter THEN "LIVE"
  ELSE IF age <= LossAfter THEN "STALE_HOLD"
  ELSE IF age <= HoldUntil THEN "LOSS_HOLD"
  ELSE "STAGE_ONE"

\* The state of a policy that has not latched; a start without any frame
\* latches too.
Classified ==
  IF age > StageTwoAfter   THEN "STAGE_TWO_LATCHED"
  ELSE IF ~control.valid   THEN "UNAVAILABLE"
  ELSE IF age <= StaleAfter THEN "LIVE"
  ELSE IF age <= LossAfter THEN "STALE_HOLD"
  ELSE IF age <= HoldUntil THEN "LOSS_HOLD"
  ELSE "STAGE_ONE"

Classify ==
  /\ ~latched
  /\ policy' = Classified
  /\ latched' = (Classified = "STAGE_TWO_LATCHED")
  /\ UNCHANGED <<link, recovering, recoveryAge, ready>>

\* Wrong on purpose: unsafe input does not stop the recovery timer.
RecoveryFailsLate ==
  /\ latched /\ ~SafeControls
  /\ policy' = "STAGE_TWO_LATCHED"
  /\ UNCHANGED <<link, latch>>

\* update_stage_two_recovery.
RecoveryFails ==
  /\ latched /\ ~SafeControls
  /\ policy' = "STAGE_TWO_LATCHED"
  /\ recovering' = FALSE /\ recoveryAge' = 0 /\ ready' = FALSE
  /\ UNCHANGED <<link, latched>>

RecoveryStarts ==
  /\ latched /\ SafeControls /\ ~recovering
  /\ policy' = "STAGE_TWO_RECOVERING"
  /\ recovering' = TRUE /\ recoveryAge' = 0
  /\ UNCHANGED <<link, latched, ready>>

RecoveryContinues ==
  /\ latched /\ SafeControls /\ recovering
  /\ ready' = (recoveryAge >= RecoveryStable)
  /\ UNCHANGED <<link, policy, latched, recovering, recoveryAge>>

\* receiver_failsafe_update.
UpdateFailsafe ==
  \/ Classify
  \/ RecoveryFails
  \/ RecoveryStarts
  \/ RecoveryContinues

\* receiver_failsafe_release_stage_two, of a recovery that is ready.
ReleaseStageTwo == latched /\ ready /\ Unlatched /\ UNCHANGED link

\* Wrong on purpose: a loss is detected only once it is final.
LossDetectedLate == latched

\* The decision's receiver_loss_detected.
LossDetected == latched \/ age > LossAfter

Aged(value, bound) == IF value < bound THEN value + 1 ELSE value

ReceiverTick ==
  /\ age' = Aged(age, StageTwoAfter + 1)
  /\ recoveryAge' = IF recovering THEN Aged(recoveryAge, RecoveryStable) ELSE 0
  /\ UNCHANGED <<control, policy, latched, recovering, ready>>

=============================================================================
