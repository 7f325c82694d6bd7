\* Commands record, hand off and verify at once; one process dies.
SPECIFICATION Spec
CONSTANTS
  a = a  b = b  v = v
  Process = {a, b, v}
  CallsOf <- MCCallsOf
  Given = {2}
  MaxEvents = 2
  MaxAids = 2
  MaxFaults = 1
  Nobody = Nobody
INVARIANTS TypeOK VerifiedComplete RejectedHasReason StepsInOrder
