\* A power loss between the catalogue page and the first superblock of a closed log.
SPECIFICATION Spec
CONSTANTS
  SectorCount = 9
  MaxFaults = 0
  QueueCapacity = 9
  CatalogPages = 1
  EntriesPerPage = 2
  SamplesPerBlock = 2
  CheckpointInterval = 2
  ConfigurationChunks = 1
  DroppedLimit = 1
  LifecycleEvents = {"INITIALIZATION_COMPLETED", "ARM_REQUESTED", "DISARM_REQUESTED", "FAULT_DETECTED"}
  MaxSamples = 2
  MaxGeneration = 4
  MaxBoots = 1
PROPERTIES
  CompletedLogsStay
