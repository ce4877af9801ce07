---------------------------- MODULE MotorAuthority ----------------------------
(***************************************************************************)
(* What the motor gate promises its users: who may drive the motors, and   *)
(* when the lines may carry power.  A source asks, is granted authority    *)
(* later or not at all, only from DISARMED and only while the lines carry  *)
(* no power; power needs an owner; whatever ends authority, the lines may  *)
(* keep the last power frame for a while but never get a new one.          *)
(***************************************************************************)
EXTENDS Naturals

CONSTANTS Sources, None

VARIABLES
  mode,       \* the lifecycle
  requested,  \* motor_control_pending_source()
  owner,      \* motor_control_active_source()
  powered     \* the last frame asked for power

authorityVars == <<mode, requested, owner, powered>>

Modes == {"STARTING", "DISARMED", "ARMED", "FAILSAFE", "FAULT"}

AuthorityInit ==
  mode = "STARTING" /\ requested = None /\ owner = None /\ powered = FALSE

Enable ==
  /\ mode = "STARTING" /\ mode' = "DISARMED"
  /\ UNCHANGED <<requested, owner, powered>>

Request(source) ==
  /\ mode = "DISARMED" /\ requested = None
  /\ requested' = source
  /\ UNCHANGED <<mode, owner, powered>>

\* The source disarms, or the gate finds that the arming cannot complete.
Cancel ==
  /\ mode = "DISARMED" /\ requested # None
  /\ requested' = None
  /\ UNCHANGED <<mode, owner, powered>>

Grant ==
  /\ mode = "DISARMED" /\ requested # None /\ ~powered
  /\ mode' = "ARMED" /\ owner' = requested /\ requested' = None
  /\ UNCHANGED powered

Power ==
  /\ mode = "ARMED" /\ owner # None
  /\ powered' = TRUE
  /\ UNCHANGED <<mode, requested, owner>>

\* The lines go to stop, low or a direction command.
Unpower ==
  /\ powered' = FALSE
  /\ UNCHANGED <<mode, requested, owner>>

\* Disarm, failsafe, recovery and fault.
Withdraw(next) ==
  /\ \/ mode = "ARMED" /\ next \in {"DISARMED", "FAILSAFE"}
     \/ mode = "FAILSAFE" /\ next = "DISARMED"
     \/ mode # "FAULT" /\ next = "FAULT"
  /\ mode' = next /\ requested' = None /\ owner' = None
  /\ powered' \in {powered, FALSE}

AuthorityNext ==
  \/ Enable
  \/ \E source \in Sources : Request(source)
  \/ Cancel
  \/ Grant
  \/ Power
  \/ Unpower
  \/ \E next \in Modes : Withdraw(next)

AuthoritySpec == AuthorityInit /\ [][AuthorityNext]_authorityVars

=============================================================================
