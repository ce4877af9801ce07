SPECIFICATION Spec
CONSTANTS
  RingCapacity = 4
  LineCapacity = 2
  LineDepth = 1
  TransmitDepth = 2
  TraceCapacity = 2
  TraceRecordLimit = 2
  LogCapacity = 1
  GlobalThreshold = 2
  Documents <- HostDocuments
  None = None
  Sources = {"RECEIVER"}
  Script <- HandoffScript
  MaxRecords = 3
  Stays = TRUE
CHECK_DEADLOCK FALSE
PROPERTY ResetsDisarmed
