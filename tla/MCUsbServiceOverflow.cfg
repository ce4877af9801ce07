SPECIFICATION Spec
CONSTANTS
  RingCapacity = 3
  LineCapacity = 2
  LineDepth = 1
  TransmitDepth = 2
  TraceCapacity = 2
  TraceRecordLimit = 2
  LogCapacity = 1
  GlobalThreshold = 2
  Documents <- HostDocuments
  None = None
  Sources = {}
  Script <- OverflowScript
  MaxRecords = 3
  Stays = TRUE
CHECK_DEADLOCK FALSE
PROPERTY CutLineIsNotDelivered
