--------------------------- MODULE MCDecisionGate ---------------------------
(***************************************************************************)
(* DecisionGate for TLC: a checkpoint and the rollup above it, a process   *)
(* that corrects, two that audit and one that decides.                     *)
(***************************************************************************)
EXTENDS DecisionGate

CONSTANTS base, rollup, c1, c2, passed, failed, corrector, auditor, second, decider

MCCheckpoint == {base, rollup}
MCCorrection == {c1, c2}
MCCertificate == {passed, failed}
MCThread == {corrector, auditor, second, decider}

\* c1 is about the checkpoint only, c2 about the rollup and then the checkpoint.
MCMentions == [c \in MCCorrection |-> IF c = c1 THEN <<base>> ELSE <<rollup, base>>]
MCAbout == [x \in MCCertificate |-> base]
MCCreated == [x \in MCCertificate |-> IF x = passed THEN 1 ELSE 2]
MCGranting == {passed}
MCFallible == MCThread \ {second}

Correct(c) == [op |-> "correct", correction |-> c]
Certify(x) == [op |-> "certify", certificate |-> x]
Decide(k) == [op |-> "decide", checkpoint |-> k]

MCCallsOf == [t \in MCThread |->
  CASE t = corrector -> {Correct(c1), Correct(c2)}
    [] t = auditor -> {Certify(failed)}
    [] t = second -> {Certify(passed)}
    [] t = decider -> {Decide(base)}]
=============================================================================
