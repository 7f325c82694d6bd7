------------------------- MODULE MCEventSourcedLog -------------------------
(***************************************************************************)
(* EventSourcedLog for TLC: a process with two threads on one object, and  *)
(* a second process, whose sink has no probe, with a third thread.         *)
(***************************************************************************)
EXTENDS EventSourcedLog

CONSTANTS oA, oB, a1, a2, b1, e1, e2

MCObject == {oA, oB}
MCCaller == {a1, a2, b1}
MCObjectOf == [t \in MCCaller |-> IF t = b1 THEN oB ELSE oA]
MCProbed == {oA}
MCEvent == {e1, e2}

MCCallerCalls == [t \in MCCaller |->
  CASE t = a1 -> {LoadFrom("events", 1), RangeOf(1, 2)}
    [] t = a2 -> {AppendOf(e1), LoadFrom("projection", 0)}
    [] t = b1 -> {AppendOf(e2), LoadFrom("events", 0)}]
=============================================================================
