\* Two objects of one log, three callers, logs of up to two events.
SPECIFICATION LogSpec
CONSTANTS
  oA = oA  oB = oB  a1 = a1  a2 = a2  b1 = b1  e1 = e1  e2 = e2
  Caller <- MCCaller
  Object <- MCObject
  ObjectOf <- MCObjectOf
  Probed <- MCProbed
  Event <- MCEvent
  CallerCalls <- MCCallerCalls
  MaxEvents = 2
INVARIANTS LogTypeOK CacheTransparent
PROPERTY ImplementsEventSink
