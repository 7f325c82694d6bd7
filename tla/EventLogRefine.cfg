\* Writes and syncs may fail between records: the log is linearizable.
SPECIFICATION Spec
CONSTANTS
  A = A  B = B  a1 = a1  a2 = a2  b1 = b1  p1 = p1  p2 = p2
  root = root  dotRoot = dotRoot
  Proc <- MCProc
  Thread <- MCThread
  ProcOf <- MCProcOf
  Spelling <- MCSpelling
  SpellingOf <- OneSpelling
  Payload <- MCPayload
  Size <- MCSize
  CallsOf <- MixedCalls
  MaxCalls = 2
  Faults <- SyncFaults
  MaxFaults = 1
  SyncLinks = TRUE
CHECK_DEADLOCK FALSE
INVARIANTS TypeOK WriterExclusion
PROPERTY ImplementsEventSink
