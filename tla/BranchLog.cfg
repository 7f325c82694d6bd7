\* Callers use a branch once its creation has returned; one call fails or process dies.
SPECIFICATION Spec
CONSTANTS
  A = A  B = B  a1 = a1  a2 = a2  b1 = b1
  root = root  fork = fork  refork = refork  deep = deep
  Session <- MCSession
  Roots <- MCRoots
  NoBranch = NoBranch
  Process <- MCProcess
  Thread <- MCThread
  ProcessOf <- MCProcessOf
  CallsOf <- MCCallsOf
  Disciplined = TRUE
  MaxBranchDepth = 2
  MaxRecords = 2
  MaxFaults = 1
INVARIANT TypeOK
PROPERTIES ViewsGrow ImplementsBranchSink
