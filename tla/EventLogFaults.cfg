\* Two failures of any kind: what was acknowledged stays, and every call returns.
SPECIFICATION FairSpec
CONSTANTS
  A = A  B = B  a1 = a1  a2 = a2  b1 = b1  p1 = p1  p2 = p2
  root = root  dotRoot = dotRoot
  Proc <- MCProc
  Thread <- MCThread
  ProcOf <- MCProcOf
  Spelling <- MCSpelling
  SpellingOf <- OneSpelling
  Payload <- MCPayload
  Size <- MCSize
  CallsOf <- AllCalls
  MaxCalls = 1
  Faults <- AnyFault
  MaxFaults = 2
  SyncLinks = TRUE
CHECK_DEADLOCK FALSE
INVARIANT AckedStaysReadable
PROPERTIES OnlyGrows CallsReturn
