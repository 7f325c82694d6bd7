---------------------------- MODULE MCBranchLog ----------------------------
(***************************************************************************)
(* BranchLog for TLC: a root and three branches, a process with two        *)
(* threads and one with a single thread.                                   *)
(***************************************************************************)
EXTENDS BranchLog

CONSTANTS A, B, a1, a2, b1, root, fork, refork, deep

AppendTo(s) == [op |-> "append", session |-> s]
ReadOf(s, max) == [op |-> "read", session |-> s, max |-> max]
BranchOf(s, parent, count) ==
  [op |-> "branch", session |-> s, parent |-> parent, count |-> count]

MCProcess == {A, B}
MCSession == {root, fork, refork, deep}
MCRoots == {root}

MCThread == {a1, a2, b1}
MCProcessOf == [t \in MCThread |-> IF t = b1 THEN B ELSE A]

\* Threads of one process and of two make the same branch, of different lengths,
\* while its parent and it are appended to; there are branches of it, one of
\* them too deep to be read.
MCCallsOf == [t \in MCThread |->
  CASE t = a1 -> {AppendTo(root), BranchOf(fork, root, 1), ReadOf(deep, 1)}
    [] t = a2 -> {BranchOf(fork, root, 2), BranchOf(deep, refork, 0)}
    [] t = b1 -> {AppendTo(fork), BranchOf(fork, root, 1), BranchOf(refork, fork, 2), ReadOf(refork, 3)}]

MCPair == {a1, b1}
MCPairProcessOf == [t \in MCPair |-> IF t = b1 THEN B ELSE A]

\* A session gets its first record while it is made a branch.
MCReuseCallsOf == [t \in MCPair |->
  IF t = a1 THEN {AppendTo(root), BranchOf(fork, root, 1)} ELSE {AppendTo(fork)}]

\* Two sessions are made branches of each other.
MCOrphanCallsOf == [t \in MCPair |->
  IF t = a1 THEN {BranchOf(fork, refork, 0)} ELSE {BranchOf(refork, fork, 0), ReadOf(fork, 1)}]
=============================================================================
