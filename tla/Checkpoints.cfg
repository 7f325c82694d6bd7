\* Checkpoints are created and uploaded, read, audited and queried, with a fault.
SPECIFICATION Spec
CONSTANTS
  k1 = k1  k2 = k2  k3 = k3  k4 = k4  k5 = k5
  c1 = c1  c2 = c2  c3 = c3  t1 = t1  t2 = t2  bad = bad
  Checkpoint <- MCCheckpoint
  Content <- MCContent
  Body <- MCBody
  Parents <- MCParents
  Thread = {t1, t2}
  CallsOf <- MCCallsOf
  Frames = 2
  Damaged = bad
  Faults <- AllFaults
  MaxFaults = 1
INVARIANTS TypeOK ManifestsResolve DependentsListed ClosureComplete AckedFound
