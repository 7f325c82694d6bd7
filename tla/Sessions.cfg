CONSTANTS
  s1 = s1
  s2 = s2
  Session = {s1, s2}
  Roots = {s1}
  MaxTasks = 3
  Failures = {"executor", "buffer", "thread"}
  Uses = {"prefill", "decode", "score", "clone", "cancel", "destroy"}
SPECIFICATION Spec
CHECK_DEADLOCK FALSE
INVARIANTS
  TypeOK
  OnePlace
  EndsHeardOnce
  DependenciesFirst
  FailureStops
