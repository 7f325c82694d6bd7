-------------------------- MODULE EventSourcedLog --------------------------
(***************************************************************************)
(* EventSourcedLog (runtime/dpm/event_sourced_log.cc): the decoded view of *)
(* one session's log that every process keeps, with a cache of the events  *)
(* and one of the projection text, each valid while the sink's generation  *)
(* token stays what it was.  The token is probed before the records are    *)
(* read, in two calls of the sink that other processes' appends may come   *)
(* between; dropping the caches after an append is a step of its own for   *)
(* the same reason.  The sink's calls act on the log at one instant, as    *)
(* EventSink says and EventLog does.                                       *)
(***************************************************************************)
EXTENDS Naturals, Sequences

CONSTANTS
  Caller,
  Object,       \* EventSourcedLog objects, one or more a process
  ObjectOf,     \* ObjectOf[t]: the object caller t calls
  Probed,       \* the objects whose sink implements ProbeGeneration
  Event,        \* events
  CallerCalls,  \* CallerCalls[t]: the calls caller t may make
  MaxEvents     \* bound: length of the log

Caches == {"events", "projection"}

\* GetAllEvents, GetProjectionEventLog; GetEventsSince drops the first `from`.
AppendOf(e) == [op |-> "append", payload |-> e]
LoadFrom(k, from) == [op |-> "load", cache |-> k, from |-> from]
\* GetEventRange, GetProjectionEventLogRange
RangeOf(from, to) == [op |-> "range", from |-> from, to |-> to]
LogCall ==
  [op : {"append"}, payload : Event]
    \cup [op : {"load"}, cache : Caches, from : Nat]
    \cup [op : {"range"}, from : Nat, to : Nat]

ASSUME ObjectsAssumption ==
  /\ ObjectOf \in [Caller -> Object] /\ "free" \notin Caller
  /\ Probed \subseteq Object
ASSUME CallersAssumption == CallerCalls \in [Caller -> SUBSET LogCall]
ASSUME BoundAssumption == MaxEvents \in Nat

VARIABLES
  log,           \* the sink's records, in append order
  object_mutex,  \* object_mutex[o]: the caller that holds object o's mutex_
  cache,         \* cache[o][k]: loaded, the key it was stored under, its value
  place, asked,  \* where each caller is in which call
  token,         \* token[t]: the generation t probed
  reply          \* what each caller's last call returned

log_vars == <<log, object_mutex, cache, place, asked, token, reply>>

Empty == [loaded |-> FALSE, key |-> 0, value |-> <<>>]
Error == [ok |-> FALSE, value |-> <<>>]
Records(rs) == [ok |-> TRUE, value |-> rs]

\* A call's own variables have no value between calls.
NoLogCall == RangeOf(0, 0)

\* PosixEventSink's token is the size of the file: a strictly growing function
\* of the number of records.
Token(l) == Len(l)

LogInit ==
  /\ log = <<>>
  /\ object_mutex = [o \in Object |-> "free"]
  /\ cache = [o \in Object |-> [k \in Caches |-> Empty]]
  /\ place = [t \in Caller |-> "idle"]
  /\ asked = [t \in Caller |-> NoLogCall]
  /\ token = [t \in Caller |-> 0]
  /\ reply = [t \in Caller |-> Records(<<>>)]

Enter(t) ==
  /\ place[t] = "idle"
  /\ \E c \in CallerCalls[t] : asked' = [asked EXCEPT ![t] = c]
  /\ place' = [place EXCEPT ![t] = "lock"]
  /\ UNCHANGED <<log, object_mutex, cache, token, reply>>

Lock(t) ==
  /\ place[t] = "lock"
  /\ object_mutex[ObjectOf[t]] = "free"
  /\ object_mutex' = [object_mutex EXCEPT ![ObjectOf[t]] = t]
  /\ place' = [place EXCEPT ![t] = IF asked[t].op = "load" THEN "probe" ELSE "sink"]
  /\ UNCHANGED <<log, cache, asked, token, reply>>

LeaveHolding(t, r) ==                                         \* mutant
  /\ reply' = [reply EXCEPT ![t] = r]
  /\ place' = [place EXCEPT ![t] = "idle"]
  /\ asked' = [asked EXCEPT ![t] = NoLogCall]
  /\ token' = [token EXCEPT ![t] = 0]
  /\ UNCHANGED object_mutex

Leave(t, r) ==
  /\ reply' = [reply EXCEPT ![t] = r]
  /\ place' = [place EXCEPT ![t] = "idle"]
  /\ object_mutex' = [object_mutex EXCEPT ![ObjectOf[t]] = "free"]
  /\ asked' = [asked EXCEPT ![t] = NoLogCall]
  /\ token' = [token EXCEPT ![t] = 0]

-----------------------------------------------------------------------------
(* Append: the record reaches the sink, then both caches are dropped. *)

SinkAppend(t) ==
  /\ place[t] = "sink" /\ asked[t].op = "append"
  /\ Len(log) < MaxEvents
  /\ log' = Append(log, asked[t].payload)
  /\ place' = [place EXCEPT ![t] = "appended"]
  /\ UNCHANGED <<object_mutex, cache, asked, token, reply>>

\* A change someone may be tempted to make: keep the cache and extend it.
ExtendCaches(t) ==                                             \* mutant
  /\ place[t] = "appended"
  /\ cache' = [cache EXCEPT ![ObjectOf[t]] = [k \in Caches |->
       [@[k] EXCEPT !.key = Token(log), !.value = Append(@, asked[t].payload)]]]
  /\ Leave(t, Records(<<>>))
  /\ UNCHANGED log

DropCaches(t) ==
  /\ place[t] = "appended"
  /\ cache' = [cache EXCEPT ![ObjectOf[t]] = [k \in Caches |-> Empty]]
  /\ Leave(t, Records(<<>>))
  /\ UNCHANGED log

\* The sink reports an error; the record may be in the log all the same, and
\* the caches are kept.
SinkAppendFails(t) ==
  /\ \/ place[t] = "sink" /\ asked[t].op = "append"
     \/ place[t] = "appended"
  /\ Leave(t, Error)
  /\ UNCHANGED <<log, cache>>

-----------------------------------------------------------------------------
(* LoadEventsLocked and GetProjectionEventLog *)

Cached(t) == cache[ObjectOf[t]][asked[t].cache]

HitWhateverKey(t, key) == Cached(t).loaded                     \* mutant
Hit(t, key) == Cached(t).loaded /\ Cached(t).key = key

Cut(events, from) == SubSeq(events, from + 1, Len(events))

ProbeHit(t) ==
  /\ place[t] = "probe"
  /\ ObjectOf[t] \in Probed /\ Hit(t, Token(log))
  /\ Leave(t, Records(Cut(Cached(t).value, asked[t].from)))
  /\ UNCHANGED <<log, cache>>

\* The token differs, or the probe is unimplemented: read on.
ProbeMiss(t) ==
  /\ place[t] = "probe"
  /\ ~(ObjectOf[t] \in Probed /\ Hit(t, Token(log)))
  /\ token' = [token EXCEPT ![t] = Token(log)]
  /\ place' = [place EXCEPT ![t] = "read"]
  /\ UNCHANGED <<log, object_mutex, cache, asked, reply>>

KeyOneAhead(t) == token[t] + 1                                 \* mutant
\* The key stored is the token probed earlier; a sink without a probe gets a
\* fingerprint of the records read, which stands for their number in a log
\* that only grows.
KeyOf(t) == IF ObjectOf[t] \in Probed THEN token[t] ELSE Token(log)

\* ForEachRecord; what it read replaces the cache.
Read(t) ==
  /\ place[t] = "read"
  /\ cache' = [cache EXCEPT ![ObjectOf[t]][asked[t].cache] =
       [loaded |-> TRUE, key |-> KeyOf(t), value |-> log]]
  /\ Leave(t, Records(Cut(log, asked[t].from)))
  /\ UNCHANGED log

\* Any error of the probe or of the read leaves the cache as it was.
LoadFails(t) ==
  /\ place[t] \in {"probe", "read"}
  /\ Leave(t, Error)
  /\ UNCHANGED <<log, cache>>

\* The range calls go past the cache, and fail when the log ends before the
\* range does; the sink does not look at the log for an empty range.
InLog(from, to) == from = to \/ (from < to /\ to <= Len(log))

ReadRange(t) ==
  /\ place[t] = "sink" /\ asked[t].op = "range"
  /\ LET c == asked[t] IN
     Leave(t, IF InLog(c.from, c.to)
                 THEN Records(SubSeq(log, c.from + 1, c.to)) ELSE Error)
  /\ UNCHANGED <<log, cache>>

LogStep(t) ==
  \/ Lock(t) \/ SinkAppend(t) \/ DropCaches(t) \/ SinkAppendFails(t)
  \/ ProbeHit(t) \/ ProbeMiss(t) \/ Read(t) \/ LoadFails(t) \/ ReadRange(t)

LogNext == \E t \in Caller : Enter(t) \/ LogStep(t)

LogSpec == LogInit /\ [][LogNext]_log_vars

-----------------------------------------------------------------------------
(* Properties *)

Inside(t) == place[t] \notin {"idle", "lock"}

\* Every variable has its type; an object's mutex is held by a caller inside
\* one of its calls and by nobody else, and each call stays on its own steps.
LogTypeOK ==
  /\ log \in Seq(Event) /\ Len(log) <= MaxEvents
  /\ object_mutex \in [Object -> Caller \cup {"free"}]
  /\ place \in [Caller -> {"idle", "lock", "sink", "appended", "probe", "read"}]
  /\ asked \in [Caller -> LogCall]
  /\ token \in [Caller -> Nat]
  /\ cache \in [Object -> [Caches ->
       [loaded : BOOLEAN, key : Nat, value : Seq(Event)]]]
  /\ reply \in [Caller -> [ok : BOOLEAN, value : Seq(Event)]]
  /\ \A t \in Caller :
       /\ Inside(t) <=> object_mutex[ObjectOf[t]] = t
       /\ place[t] \in {"probe", "read"} => asked[t].op = "load"
       /\ place[t] = "sink" => asked[t].op # "load"
       /\ place[t] = "appended" => asked[t].op = "append"

Covers(c) ==
  /\ Len(c.value) <= Len(log)
  /\ c.value = SubSeq(log, 1, Len(c.value))
  /\ c.key <= Len(c.value)

\* A cache is never behind the key it is stored under: the token names a log no
\* longer than the value kept with it, and the value is the beginning of the
\* log.  It may be ahead, when an append came between the probe and the read;
\* the token in hand is not ahead of the log then.
CacheCovers ==
  /\ \A o \in Object, k \in Caches : cache[o][k].loaded => Covers(cache[o][k])
  /\ \A t \in Caller : place[t] = "read" => token[t] <= Len(log)

\* The cache is invisible: whatever a call would be answered from the cache is
\* what the sink holds at that moment (event_sourced_log.cc:117-123).
CacheTransparent ==
  \A t \in Caller :
    place[t] = "probe" /\ ObjectOf[t] \in Probed /\ Hit(t, Token(log)) =>
      Cached(t).value = log

-----------------------------------------------------------------------------
(* Refinement: with its caches, the object is as good as the sink itself. *)

SinkCall(c) ==
  CASE c.op = "append" -> c
    [] c.op = "load" -> [op |-> "read", from |-> c.from, max |-> MaxEvents]
    [] c.op = "range" -> [op |-> "read", from |-> c.from, max |-> c.to]

SinkCalls == [t \in Caller |-> {SinkCall(c) : c \in CallerCalls[t]}]
LogSinkRequest == [t \in Caller |->
  CASE place[t] = "idle" -> [op |-> "idle"]
    [] place[t] = "appended" -> [op |-> "effect", value |-> <<>>]
    [] OTHER -> SinkCall(asked[t])]

LogSink == INSTANCE EventSink WITH
  Thread <- Caller, CallsOf <- SinkCalls, request <- LogSinkRequest, answer <- reply

\* Whatever other processes append between the probe, the read and the drop of
\* the caches, every call acts on the log at one instant between its call and
\* its return: a reader sees what was acknowledged before it called.
ImplementsEventSink == LogSink!Spec
=============================================================================
