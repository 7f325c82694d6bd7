---------------------------- MODULE MCVetSession ----------------------------
(***************************************************************************)
(* Two processes that record and hand off, one that verifies.              *)
(***************************************************************************)
EXTENDS VetSession

CONSTANTS a, b, v

MCCallsOf == [p \in {a, b, v} |->
  CASE p = a -> {"record", "correction", "init"}
    [] p = b -> {"record", "handoff"}
    [] p = v -> {"verify"}]
=============================================================================
