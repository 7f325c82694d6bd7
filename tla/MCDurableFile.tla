--------------------------- MODULE MCDurableFile ---------------------------
(***************************************************************************)
(* DurableFile for TLC: one writer only replaces, the other also creates.  *)
(***************************************************************************)
EXTENDS DurableFile

CONSTANTS w1, w2, v1, v2

MCWriter == {w1, w2}
MCValue == {v1, v2}
MCCallsOf == [w \in MCWriter |->
  IF w = w1 THEN {[op |-> "replace", value |-> v1], [op |-> "create", value |-> v1]}
  ELSE {[op |-> "replace", value |-> v2], [op |-> "create", value |-> v2]}]
=============================================================================
