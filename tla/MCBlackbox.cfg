\* One page of two logs, seven data sectors; logs of at most two samples.
SPECIFICATION Spec
CONSTANTS
  SectorCount = 9
  MaxFaults = 1
  QueueCapacity = 9
  CatalogPages = 1
  EntriesPerPage = 2
  SamplesPerBlock = 2
  CheckpointInterval = 2
  ConfigurationChunks = 1
  DroppedLimit = 1
  LifecycleEvents = {"INITIALIZATION_COMPLETED", "ARM_REQUESTED", "DISARM_REQUESTED", "FAULT_DETECTED"}
  MaxSamples = 2
  MaxGeneration = 4
  MaxBoots = 1
INVARIANTS
  TypeOK
  ReadyMatchesCard
PROPERTIES
  DurableLogsStay
  ErrorHasCause
