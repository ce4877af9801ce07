----------------------------- MODULE SystemState -----------------------------
(***************************************************************************)
(* The lifecycle of the flight computer (app/system_state.c): one current  *)
(* state and a table of accepted events.  Every event leads to one target, *)
(* so the table is a target and a set of source states per event.          *)
(***************************************************************************)

VARIABLE state  \* system_state_machine_t.current

States == {"BOOT", "INITIALIZING", "DISARMED", "ARMED", "FAILSAFE", "FAULT"}

Events == {"INITIALIZATION_STARTED", "INITIALIZATION_COMPLETED",
           "ARM_REQUESTED", "DISARM_REQUESTED", "FAILSAFE_DETECTED",
           "FAULT_DETECTED"}

\* The states in which next_state_for_event accepts an event.
Accepting(event) ==
  CASE event = "INITIALIZATION_STARTED"   -> {"BOOT"}
    [] event = "INITIALIZATION_COMPLETED" -> {"INITIALIZING"}
    [] event = "ARM_REQUESTED"            -> {"DISARMED"}
    [] event = "DISARM_REQUESTED"         -> {"ARMED", "FAILSAFE"}
    [] event = "FAILSAFE_DETECTED"        -> {"ARMED"}
    [] event = "FAULT_DETECTED"           -> States \ {"FAULT"}

Target(event) ==
  CASE event = "INITIALIZATION_STARTED"   -> "INITIALIZING"
    [] event = "INITIALIZATION_COMPLETED" -> "DISARMED"
    [] event = "ARM_REQUESTED"            -> "ARMED"
    [] event = "DISARM_REQUESTED"         -> "DISARMED"
    [] event = "FAILSAFE_DETECTED"        -> "FAILSAFE"
    [] event = "FAULT_DETECTED"           -> "FAULT"

\* system_state_machine_handle_event: a rejected event changes nothing but a
\* statistics counter, so it is no step.
HandleEvent(event) ==
  /\ state \in Accepting(event)
  /\ state' = Target(event)

=============================================================================
