----------------------------- MODULE MCSessions -----------------------------
(***************************************************************************)
(* A session and its clone, for TLC.                                       *)
(***************************************************************************)
EXTENDS Sessions, TLC

CONSTANTS s1, s2

=============================================================================
