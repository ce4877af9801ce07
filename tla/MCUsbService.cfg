SPECIFICATION FairSpec
CONSTANTS
  RingCapacity = 3
  LineCapacity = 2
  LineDepth = 1
  TransmitDepth = 2
  TraceCapacity = 2
  TraceRecordLimit = 2
  LogCapacity = 1
  GlobalThreshold = 2
  Documents <- HostDocuments
  None = None
  Sources = {}
  Script <- HostScript
  MaxRecords = 3
  Stays = FALSE
INVARIANT TypeOK
PROPERTIES
  MessagesArriveOnce
  NoTraceRecordSkipped
  TerminalSampleKept
  ServiceNeverStalls
CHECK_DEADLOCK FALSE
