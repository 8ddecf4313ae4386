SPECIFICATION MediaSpec
CONSTANTS
  Media = {1, 2}
  Hash <- CopyHash
  Deduplicated = {1, 2}
  Timeout = 1
  TTL = 1
  MaxTime = 2
  Again = 2
  Sizes <- MCSizes
  MinSize = 2
  MaxSize = 50
  RemoteMax <- MCRemoteMax
  AttachMax <- MCAttachMax
  Converters <- MCConverters
INVARIANTS TypeOK NoDuplicateDelivered FileKeptWhileUsed PipelineInvariant
PROPERTIES WaiterServed CloseReturns
CHECK_DEADLOCK FALSE
