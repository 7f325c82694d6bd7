\* Any fault, twice: the target is whole, and what was acknowledged is kept.
SPECIFICATION Spec
CONSTANTS
  w1 = w1  w2 = w2  v1 = v1  v2 = v2
  Writer <- MCWriter
  Value <- MCValue
  CallsOf <- MCCallsOf
  Blocks = 2
  Nothing = Nothing
  MaxCalls = 2
  MaxFaults = 2
  Faults <- AllFaults
CHECK_DEADLOCK FALSE
INVARIANTS TypeOK NeverTorn AckedKept
PROPERTIES NoLitter ImplementsAtomicFile
