SPECIFICATION Spec
CONSTANTS
  FaultIds <- MCFaultIds
  Severity <- MCSeverity
  FaultCapacity = 3
INVARIANTS
  TypeOK
  HealthHidesNothing
  FaultIsDiagnosable
PROPERTY
  FaultLatches
CHECK_DEADLOCK FALSE
