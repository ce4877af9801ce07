SPECIFICATION FairSpec
CONSTANTS
  Sources = {USB_TEST, RECEIVER}
  None = None
  Motors = {"left", "right"}
  Mappings <- MCMappings
  Configurations <- MCConfigurations
  Preparation = 2
  Repetitions = 2
  CommandTimeout = 1
  TransferTimeout = 1
  FaultIds <- MCFaultIds
  Severity <- MCSeverity
  FaultCapacity = 2
INVARIANTS
  TypeOK
  BeliefMatchesOutput
  CommandHasOwner
  InterlockHolds
  NotificationsMatchAuthority
  FaultsInhibit
PROPERTIES
  PowerNeedsAuthority
  ArmedOnlyWhenPrepared
  ImplementsAuthority
  PowerIsWithdrawn
  ArmingResolves
