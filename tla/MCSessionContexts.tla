-------------------------- MODULE MCSessionContexts --------------------------
(***************************************************************************)
(* Three handlers, two tokens.                                             *)
(***************************************************************************)
EXTENDS SessionContexts, TLC

CONSTANTS h1, h2, h3, t1, t2

Symmetry == Permutations({h1, h2, h3}) \cup Permutations({t1, t2})
=============================================================================
