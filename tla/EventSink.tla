----------------------------- MODULE EventSink -----------------------------
(***************************************************************************)
(* What the EventSink interface promises (runtime/platform/eventlog/       *)
(* event_sink.h) for one session: an append takes effect at one instant    *)
(* between its call and its return, a read and a probe look at the log at  *)
(* one instant between theirs, and records come back in append order.      *)
(* The log is the one state; a caller's request and the last reply it got  *)
(* are kept so that an implementation can be compared with this module.    *)
(***************************************************************************)
EXTENDS Naturals, Sequences

CONSTANTS
  Thread,      \* callers, of any process
  CallsOf      \* CallsOf[t]: the calls thread t may make

VARIABLES
  log,         \* the records, in append order
  request,     \* request[t]: the call t waits for, or Idle
  answer       \* answer[t]: what t's last call returned

vars == <<log, request, answer>>

Idle == [op |-> "idle"]

\* A call that has taken effect, with the answer it will return.
Effect(value) == [op |-> "effect", value |-> value]

Failed == [ok |-> FALSE, value |-> <<>>]
Succeeded(value) == [ok |-> TRUE, value |-> value]

Init ==
  /\ log = <<>>
  /\ request = [t \in Thread |-> Idle]
  /\ answer = [t \in Thread |-> Succeeded(<<>>)]

Call(t) ==
  /\ request[t] = Idle
  /\ \E c \in CallsOf[t] : request' = [request EXCEPT ![t] = c]
  /\ UNCHANGED <<log, answer>>

\* The record enters the log, at its end.
Commit(t) ==
  /\ request[t].op = "append"
  /\ log' = Append(log, request[t].payload)
  /\ request' = [request EXCEPT ![t] = Effect(<<>>)]
  /\ UNCHANGED answer

\* A reader sees the records [from, max) of the log, those that are there; a
\* generation token stands for the whole log: equal tokens, equal logs.
View(c) ==
  IF c.op = "probe" THEN log
  ELSE SubSeq(log, c.from + 1, IF c.max < Len(log) THEN c.max ELSE Len(log))

Observe(t) ==
  /\ request[t].op \in {"read", "probe"}
  /\ request' = [request EXCEPT ![t] = Effect(View(request[t]))]
  /\ UNCHANGED <<log, answer>>

\* The answer is the effect's; a read may also take effect as it returns.
Return(t) ==
  /\ request[t].op \in {"read", "probe", "effect"}
  /\ answer' = [answer EXCEPT ![t] = Succeeded(
       IF request[t].op = "effect" THEN request[t].value ELSE View(request[t]))]
  /\ request' = [request EXCEPT ![t] = Idle]
  /\ UNCHANGED log

\* An error may be returned whether or not the call took effect.
Fail(t) ==
  /\ request[t] # Idle
  /\ answer' = [answer EXCEPT ![t] = Failed]
  /\ request' = [request EXCEPT ![t] = Idle]
  /\ UNCHANGED log

Next == \E t \in Thread :
  Call(t) \/ Commit(t) \/ Observe(t) \/ Return(t) \/ Fail(t)

Spec == Init /\ [][Next]_vars
=============================================================================
