----------------------------- MODULE BranchSink -----------------------------
(***************************************************************************)
(* What posix_event_sink.h (runtime/platform/eventlog) promises of the     *)
(* sessions of a sink: a session may be made, once, a branch of another,   *)
(* and then shows the first `count` records of its parent before its own.  *)
(* Appends, reads and creations act at one instant each.                   *)
(*                                                                         *)
(* A record is <<session, n>>: the n-th of its session's own log.          *)
(***************************************************************************)
EXTENDS Naturals, Sequences

CONSTANTS
  Session,
  NoBranch,        \* pointer of a session that is no branch
  Thread,          \* callers, of any process
  CallsOf,         \* CallsOf[t]: the calls thread t may make
  MaxBranchDepth   \* pointers between a session and the end of its ancestry

VARIABLES
  own,         \* own[s]: records in s's own log
  used,        \* the sessions that have a log, be it empty
  pointer,     \* pointer[s]: parent and count of a branch
  request      \* what each thread waits for, or what came of it

vars == <<own, used, pointer, request>>

Idle == [op |-> "idle"]
Answered(a) == [op |-> "answered", with |-> a]
Status(code) == [code |-> code, records |-> <<>>]
Records(rs) == [code |-> "ok", records |-> rs]

Shorter(m, n) == IF m < n THEN m ELSE n
First(n, rs) == SubSeq(rs, 1, Shorter(n, Len(rs)))
OwnRecords(s, n) == [i \in 1..n |-> <<s, i>>]

\* More than MaxBranchDepth pointers, one after another, lead up from s:
\* below[i] holds the sessions with i of them above.
TooDeep(s) ==
  LET below[i \in 0..MaxBranchDepth + 1] ==
        IF i = 0 THEN Session
        ELSE {x \in Session : pointer[x] # NoBranch /\ pointer[x].parent \in below[i - 1]}
  IN  s \in below[MaxBranchDepth + 1]

\* What a session that is not too deep shows: its prefix, then its own records.
View(s) ==
  LET shown[d \in 0..MaxBranchDepth] == [x \in Session |->
        (IF d = 0 \/ pointer[x] = NoBranch THEN <<>>
         ELSE First(pointer[x].count, shown[d - 1][pointer[x].parent]))
        \o OwnRecords(x, own[x])]
  IN  shown[MaxBranchDepth][s]

Init ==
  /\ own = [s \in Session |-> 0] /\ used = {}
  /\ pointer = [s \in Session |-> NoBranch]
  /\ request = [t \in Thread |-> Idle]

Call(t) ==
  /\ request[t] = Idle
  /\ \E c \in CallsOf[t] : request' = [request EXCEPT ![t] = c]
  /\ UNCHANGED <<own, used, pointer>>

Answer(t, a) == request' = [request EXCEPT ![t] = Answered(a)]

\* An append that fails may have appended, or have left an empty log.
AppendRecord(t) ==
  /\ request[t].op = "append"
  /\ used' = used \cup {request[t].session}
  /\ \/ /\ own' = [own EXCEPT ![request[t].session] = @ + 1]
        /\ Answer(t, Status("ok")) \/ Answer(t, Status("error"))
     \/ Answer(t, Status("error")) /\ UNCHANGED own
  /\ UNCHANGED pointer

Observe(t) ==
  /\ request[t].op = "read"
  /\ Answer(t, IF TooDeep(request[t].session) THEN Status("error")
               ELSE Records(First(request[t].max, View(request[t].session))))
  /\ UNCHANGED <<own, used, pointer>>

InUse(s) == s \in used \/ pointer[s] # NoBranch

Branch(t) ==
  LET c == request[t] IN
  /\ c.op = "branch"
  /\ ~InUse(c.session) /\ ~TooDeep(c.parent) /\ c.count <= Len(View(c.parent))
  /\ pointer' = [pointer EXCEPT ![c.session] = [parent |-> c.parent, count |-> c.count]]
  /\ Answer(t, Status("ok")) \/ Answer(t, Status("error"))
  /\ UNCHANGED <<own, used>>

Refuse(t) ==
  LET c == request[t] IN
  /\ c.op = "branch"
  /\ \/ InUse(c.session) /\ Answer(t, Status("exists"))
     \/ /\ ~TooDeep(c.parent) /\ c.count > Len(View(c.parent))
        /\ Answer(t, Status("invalid"))
  /\ UNCHANGED <<own, used, pointer>>

Return(t) ==
  /\ request[t].op = "answered"
  /\ request' = [request EXCEPT ![t] = Idle]
  /\ UNCHANGED <<own, used, pointer>>

\* A call fails, with no effect.
Fail(t) ==
  /\ request[t].op \in {"append", "read", "branch"}
  /\ Answer(t, Status("error"))
  /\ UNCHANGED <<own, used, pointer>>

\* A process dies: its calls end without an answer, before or after their effect.
Die ==
  /\ \E T \in SUBSET Thread :
       request' = [t \in Thread |-> IF t \in T THEN Idle ELSE request[t]]
  /\ UNCHANGED <<own, used, pointer>>

Next ==
  \/ \E t \in Thread :
       \/ Call(t) \/ AppendRecord(t) \/ Observe(t) \/ Branch(t) \/ Refuse(t)
       \/ Fail(t) \/ Return(t)
  \/ Die

Spec == Init /\ [][Next]_vars
=============================================================================
