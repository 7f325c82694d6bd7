CONSTANTS
  s1 = s1
  s2 = s2
  Session = {s1}
  Roots = {s1}
  MaxTasks = 4
  Failures = {"executor", "buffer", "thread"}
  Uses = {"stream", "decode", "checkpoint", "destroy"}
SPECIFICATION FairSpec
CHECK_DEADLOCK FALSE
INVARIANT SessionOutlivesTasks
PROPERTY TasksEnd
