---------------------------- MODULE MCMotorControl ----------------------------
(***************************************************************************)
(* Bounds: two command sources, as the firmware has; two motors with every *)
(* mapping, one configuration in which a remap changes what the ESCs are   *)
(* to hear and one in which it does not; five faults, of which two         *)
(* critical, in two slots, so that an ordinary and a critical fault can    *)
(* find the registry full.                                                 *)
(***************************************************************************)
EXTENDS MotorControl, Functions

MCMappings == Bijection(Motors, Motors)

MCConfigurations ==
  {[motor \in Motors |-> "NORMAL"],
   [motor \in Motors |-> IF motor = "left" THEN "NORMAL" ELSE "REVERSED"]}

MCFaultIds == {"MOTOR_OUTPUT", "MOTOR_FORCE_STOP", "RECEIVER_CONNECTION_LOST",
               "IMU_COMMUNICATION", "RECEIVER_SOURCE"}

MCSeverity ==
  [id \in MCFaultIds |-> IF id \in {"MOTOR_OUTPUT", "MOTOR_FORCE_STOP"}
                         THEN "CRITICAL" ELSE "FAULT"]

=============================================================================
