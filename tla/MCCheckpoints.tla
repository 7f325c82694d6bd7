---------------------------- MODULE MCCheckpoints ----------------------------
(***************************************************************************)
(* Checkpoints for TLC: a second checkpoint on the first, a rollup of both *)
(* and one on top of it with the payload of the first; beside them, one    *)
(* with the payload of the second.                                         *)
(***************************************************************************)
EXTENDS Checkpoints

CONSTANTS k1, k2, k3, k4, k5, c1, c2, c3, t1, t2, bad

MCCheckpoint == {k1, k2, k3, k4, k5}
MCContent == {c1, c2, c3, bad}
MCBody == [k \in MCCheckpoint |-> CASE k \in {k2, k5} -> c2 [] k = k3 -> c3 [] OTHER -> c1]
MCParents == [k \in MCCheckpoint |->
  CASE k = k1 -> <<>> [] k \in {k2, k5} -> <<k1>> [] k = k3 -> <<k1, k2>> [] k = k4 -> <<k3>>]

Op(op, k) == [op |-> op, about |-> k]

\* One thread creates what the first checkpoint has dependents of, one uploads and asks.
MCCallsOf == [t \in {t1, t2} |->
  IF t = t1 THEN {Op("create", k1), Op("create", k2), Op("create", k3)}
  ELSE {Op("upload", k4), Op("upload", k5), Op("load", k4), Op("audit", k1), Op("query", k3)}]
=============================================================================
