----------------------------- MODULE MCEventLog -----------------------------
(***************************************************************************)
(* EventLog for TLC: process A with two threads, process B with one.       *)
(***************************************************************************)
EXTENDS EventLog

CONSTANTS A, B, a1, a2, b1, p1, p2, root, dotRoot

MCProc == {A, B}
MCThread == {a1, a2, b1}
MCProcOf == [t \in MCThread |-> IF t = b1 THEN B ELSE A]
MCSpelling == {root, dotRoot}
OneSpelling == [t \in MCThread |-> root]

MCPayload == {p1, p2}
\* A body of three cells can swallow a header and a body of one.
MCSize == [p \in MCPayload |-> IF p = p1 THEN 3 ELSE 1]

\* a1 and b1 append, a2 and b1 read; 9 stands for UINT64_MAX.
MixedCalls == [t \in MCThread |->
  CASE t = a1 -> {AppendOf(p1)}
    [] t = a2 -> {ReadFrom(0, 9), ReadFrom(1, 2), ProbeCall}
    [] t = b1 -> {AppendOf(p2), ReadFrom(0, 9)}]
AppendCalls == [t \in MCThread |->
  CASE t = a1 -> {AppendOf(p1)}
    [] t = a2 -> {AppendOf(p2)}
    [] t = b1 -> {AppendOf(p2)}]

AllCalls == [t \in MCThread |-> AppendCalls[t] \cup MixedCalls[t]]

SyncFaults == {"error", "sync"}
ShortWrite == {"short"}
AnyFault == AllFaults
=============================================================================
