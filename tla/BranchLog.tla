----------------------------- MODULE BranchLog -----------------------------
(***************************************************************************)
(* PosixEventSink's branches (runtime/platform/eventlog/                   *)
(* posix_event_sink.cc): CreateBranch and the reads that go from a session *)
(* to its parent and on to the end of its ancestry, one branch pointer at  *)
(* a time and under no lock, and then back, one log at a time.             *)
(*                                                                         *)
(* Appends to one log and reads of it act at one instant, as EventSink     *)
(* says and EventLog does; a pointer is published at one instant, as       *)
(* AtomicFile says and DurableFile does.                                   *)
(***************************************************************************)
EXTENDS Naturals, Sequences

CONSTANTS
  Session,
  Roots,           \* sessions that no call makes a branch
  NoBranch,        \* pointer of a session that is no branch
  Process, Thread,
  ProcessOf,       \* ProcessOf[t]: the process thread t runs in
  CallsOf,         \* CallsOf[t]: the calls thread t may make
  Disciplined,     \* TRUE: callers use a branch only after its creation returned
  MaxBranchDepth,  \* kMaxBranchDepth
  MaxRecords,      \* bound: records in a session's own log
  MaxFaults        \* bound: failures and dying processes

VARIABLES
  own,         \* own[s]: records in s's events.dpmlog
  used,        \* the sessions that have an events.dpmlog, be it empty
  pointer,     \* pointer[s]: s's branch_pointer.json
  mutex,       \* mutex[p][s]: the thread of p that holds the mutex of s's pointer
  pc, call,    \* where each thread is in which call
  path,        \* a read's way up: sessions, and how many records it wants there
  at,          \* which of them it is reading
  out,         \* what it has emitted
  result,      \* what a call is going to return
  known,       \* the sessions that callers know to exist
  faults       \* faults so far

vars == <<own, used, pointer, mutex, pc, call, path, at, out, result, known, faults>>
files == <<own, used, pointer>>
reading == <<path, at, out>>

\* UINT64_MAX: more records than any session shows.
Unlimited == (MaxBranchDepth + 1) * MaxRecords + 1

\* A call's own variables have no value between calls.
NoCall == [op |-> "none"]

SinkRequest == [t \in Thread |->
  CASE pc[t] = "idle" -> [op |-> "idle"]
    [] pc[t] = "return" -> [op |-> "answered", with |-> result[t]]
    [] OTHER -> call[t]]

Sink == INSTANCE BranchSink WITH request <- SinkRequest

\* ForEachRecord has no max; ForEachRecordRange's is the end of the range.
CallType ==
  [op : {"append"}, session : Session]
    \cup [op : {"read"}, session : Session, max : Nat \ {0}]
    \cup {c \in [op : {"branch"}, session : Session \ Roots, parent : Session, count : Nat] :
            c.session # c.parent}

ASSUME CallsAssumption == CallsOf \in [Thread -> SUBSET CallType]
ASSUME ThreadsAssumption == ProcessOf \in [Thread -> Process] /\ "free" \notin Thread
ASSUME SessionsAssumption ==
  Roots \subseteq Session /\ NoBranch \notin [parent : Session, count : Nat]
ASSUME BoundsAssumption ==
  /\ MaxBranchDepth \in Nat /\ MaxRecords \in Nat /\ MaxFaults \in Nat
  /\ Disciplined \in BOOLEAN

Init ==
  /\ own = [s \in Session |-> 0] /\ used = {}
  /\ pointer = [s \in Session |-> NoBranch]
  /\ mutex = [p \in Process |-> [s \in Session |-> "free"]]
  /\ pc = [t \in Thread |-> "idle"]
  /\ call = [t \in Thread |-> NoCall]
  /\ path = [t \in Thread |-> <<>>]
  /\ at = [t \in Thread |-> 0]
  /\ out = [t \in Thread |-> <<>>]
  /\ result = [t \in Thread |-> Sink!Status("none")]
  /\ known = Roots
  /\ faults = 0

Goto(t, label) == pc' = [pc EXCEPT ![t] = label]

\* The sessions a call uses; the one it makes is not among them.
Uses(c) == IF c.op = "branch" THEN c.parent ELSE c.session

\* A read, and the validation of a branch, start with the session itself.
Call(t) ==
  /\ pc[t] = "idle"
  /\ \E c \in CallsOf[t] :
       /\ Disciplined => Uses(c) \in known
       /\ call' = [call EXCEPT ![t] = c]
       /\ IF c.op = "append" THEN Goto(t, "append") /\ UNCHANGED path
          ELSE /\ Goto(t, "up")
               /\ path' = [path EXCEPT ![t] = <<[session |-> Uses(c),
                    max |-> IF c.op = "read" THEN c.max ELSE Unlimited]>>]
  /\ UNCHANGED <<files, mutex, at, out, result, known, faults>>

\* A call is over but for its return; a read forgets its way.
Finish(t, r) ==
  /\ result' = [result EXCEPT ![t] = r]
  /\ Goto(t, "return")
  /\ path' = [path EXCEPT ![t] = <<>>]
  /\ at' = [at EXCEPT ![t] = 0]
  /\ out' = [out EXCEPT ![t] = <<>>]

Return(t) ==
  /\ pc[t] = "return"
  /\ result' = [result EXCEPT ![t] = Sink!Status("none")]
  /\ call' = [call EXCEPT ![t] = NoCall]
  /\ Goto(t, "idle")
  /\ known' = IF call[t].op = "branch" /\ result[t].code \in {"ok", "exists"}
              THEN known \cup {call[t].session} ELSE known
  /\ UNCHANGED <<files, mutex, reading, faults>>

Fault == faults < MaxFaults /\ faults' = faults + 1

AppendRecord(t) ==
  /\ pc[t] = "append"
  /\ LET s == call[t].session IN
     /\ own[s] < MaxRecords
     /\ own' = [own EXCEPT ![s] = @ + 1]
     /\ used' = used \cup {s}
  /\ Finish(t, Sink!Status("ok"))
  /\ UNCHANGED <<pointer, mutex, call, known, faults>>

\* Nothing, an empty log or the record is there; a log at its bound is a full disk.
AppendFails(t) ==
  /\ pc[t] = "append"
  /\ LET s == call[t].session IN
     \/ own[s] = MaxRecords /\ UNCHANGED <<own, used, faults>>
     \/ /\ own[s] < MaxRecords /\ Fault
        /\ \/ UNCHANGED <<own, used>>
           \/ used' = used \cup {s} /\ own' \in {own, [own EXCEPT ![s] = @ + 1]}
  /\ Finish(t, Sink!Status("error"))
  /\ UNCHANGED <<pointer, mutex, call, known>>

-----------------------------------------------------------------------------
(* ForEachRecordImpl *)

Top(t) == path[t][Len(path[t])]

LimitIgnored(b, max) == max                                    \* mutant
\* How many records a branch wants of its parent.
ParentLimit(b, max) == Sink!Shorter(b.count, max)

\* The parent's records come first; pointers are read on the way up.
ToParent(t) ==
  /\ pc[t] = "up"
  /\ Len(path[t]) <= MaxBranchDepth + 1
  /\ LET b == pointer[Top(t).session] IN
     /\ b # NoBranch
     /\ path' = [path EXCEPT ![t] =
          Append(@, [session |-> b.parent, max |-> ParentLimit(b, Top(t).max)])]
  /\ UNCHANGED <<files, mutex, pc, call, at, out, result, known, faults>>

\* The end of the ancestry.
ToRecords(t) ==
  /\ pc[t] = "up"
  /\ Len(path[t]) <= MaxBranchDepth + 1
  /\ pointer[Top(t).session] = NoBranch
  /\ at' = [at EXCEPT ![t] = Len(path[t])]
  /\ Goto(t, "emit")
  /\ UNCHANGED <<files, mutex, call, path, out, result, known, faults>>

TooDeep(t) ==
  /\ pc[t] = "up"
  /\ Len(path[t]) > MaxBranchDepth + 1
  /\ Finish(t, Sink!Status("error"))
  /\ UNCHANGED <<files, mutex, call, known, faults>>

\* What a read has emitted once it has read the log it is at: as much of it as
\* is wanted there beyond what its ancestors gave.
Emitted(t) ==
  LET f == path[t][at[t]]
      wanted == IF Len(out[t]) < f.max THEN f.max - Len(out[t]) ELSE 0
  IN  out[t] \o Sink!OwnRecords(f.session, Sink!Shorter(own[f.session], wanted))

EmitOf(t) ==
  /\ pc[t] = "emit" /\ at[t] > 1
  /\ out' = [out EXCEPT ![t] = Emitted(t)]
  /\ at' = [at EXCEPT ![t] = @ - 1]
  /\ UNCHANGED <<files, mutex, pc, call, path, result, known, faults>>

EndRead(t) ==
  /\ pc[t] = "emit" /\ at[t] = 1 /\ call[t].op = "read"
  /\ Finish(t, Sink!Records(Emitted(t)))
  /\ UNCHANGED <<files, mutex, call, known, faults>>

\* A branch pointer or a log cannot be read.
ReadFails(t) ==
  /\ pc[t] \in {"up", "emit"} /\ Fault
  /\ Finish(t, Sink!Status("error"))
  /\ UNCHANGED <<files, mutex, call, known>>

-----------------------------------------------------------------------------
(* CreateBranch *)

\* The parent's records have been counted.
Validate(t) ==
  /\ pc[t] = "emit" /\ at[t] = 1 /\ call[t].op = "branch"
  /\ IF call[t].count > Len(Emitted(t))
     THEN Finish(t, Sink!Status("invalid"))
     ELSE /\ Goto(t, "lock")
          /\ path' = [path EXCEPT ![t] = <<>>]
          /\ at' = [at EXCEPT ![t] = 0]
          /\ out' = [out EXCEPT ![t] = <<>>]
          /\ UNCHANGED result
  /\ UNCHANGED <<files, mutex, call, known, faults>>

TakeMutex(t) ==
  /\ pc[t] = "lock"
  /\ mutex[ProcessOf[t]][call[t].session] = "free"
  /\ mutex' = [mutex EXCEPT ![ProcessOf[t]][call[t].session] = t]
  /\ Goto(t, "check")
  /\ UNCHANGED <<files, call, reading, result, known, faults>>

Holding(t) == UNCHANGED mutex                                  \* mutant
Release(t) == mutex' = [mutex EXCEPT ![ProcessOf[t]][call[t].session] = "free"]

InUse(s) == s \in used \/ pointer[s] # NoBranch

CheckUse(t) ==
  /\ pc[t] = "check"
  /\ IF InUse(call[t].session)
     THEN Release(t) /\ Finish(t, Sink!Status("exists"))
     ELSE Goto(t, "publish") /\ UNCHANGED <<mutex, reading, result>>
  /\ UNCHANGED <<files, call, known, faults>>

PublishOver(t) ==                                              \* mutant
  /\ pc[t] = "publish"
  /\ pointer' = [pointer EXCEPT ![call[t].session] =
       [parent |-> call[t].parent, count |-> call[t].count]]
  /\ Release(t)
  /\ Finish(t, Sink!Status("ok"))
  /\ UNCHANGED <<own, used, call, known, faults>>

\* DurablyCreateNewFile; an error may come after the pointer is there.
Publish(t) ==
  /\ pc[t] = "publish"
  /\ pointer[call[t].session] = NoBranch
  /\ pointer' = [pointer EXCEPT ![call[t].session] =
       [parent |-> call[t].parent, count |-> call[t].count]]
  /\ Release(t)
  /\ \/ Finish(t, Sink!Status("ok")) /\ UNCHANGED faults
     \/ Finish(t, Sink!Status("error")) /\ Fault
  /\ UNCHANGED <<own, used, call, known>>

\* Another process was first, or nothing could be written.
PublishFails(t) ==
  /\ pc[t] = "publish"
  /\ \/ /\ pointer[call[t].session] # NoBranch
        /\ Finish(t, Sink!Status("exists")) /\ UNCHANGED faults
     \/ Finish(t, Sink!Status("error")) /\ Fault
  /\ Release(t)
  /\ UNCHANGED <<files, call, known>>

-----------------------------------------------------------------------------
\* A process dies, its threads and mutexes with it.
Crash(p) ==
  LET Dead == {t \in Thread : ProcessOf[t] = p}
      Reset(f, x) == [t \in Thread |-> IF t \in Dead THEN x ELSE f[t]]
  IN
  /\ Fault
  /\ pc' = Reset(pc, "idle") /\ call' = Reset(call, NoCall)
  /\ path' = Reset(path, <<>>) /\ at' = Reset(at, 0) /\ out' = Reset(out, <<>>)
  /\ result' = Reset(result, Sink!Status("none"))
  /\ mutex' = [mutex EXCEPT ![p] = [s \in Session |-> "free"]]
  /\ UNCHANGED <<files, known>>

Step(t) ==
  \/ AppendRecord(t) \/ AppendFails(t)
  \/ ToParent(t) \/ ToRecords(t) \/ TooDeep(t) \/ EmitOf(t) \/ EndRead(t) \/ ReadFails(t)
  \/ Validate(t) \/ TakeMutex(t) \/ CheckUse(t) \/ Publish(t) \/ PublishFails(t)
  \/ Return(t)

Next == (\E t \in Thread : Call(t) \/ Step(t)) \/ (\E p \in Process : Crash(p))

Spec == Init /\ [][Next]_vars

-----------------------------------------------------------------------------
(* Properties *)

Labels == {"idle", "append", "up", "emit", "lock", "check", "publish", "return"}
Record == Session \X (1..MaxRecords)
ResultType == [code : {"none", "ok", "error", "exists", "invalid"}, records : Seq(Record)]

TypeOK ==
  /\ own \in [Session -> 0..MaxRecords] /\ used \subseteq Session
  /\ pointer \in [Session -> [parent : Session, count : Nat] \cup {NoBranch}]
  /\ mutex \in [Process -> [Session -> Thread \cup {"free"}]]
  /\ pc \in [Thread -> Labels]
  /\ call \in [Thread -> CallType \cup {NoCall}]
  /\ path \in [Thread -> Seq([session : Session, max : Nat])]
  /\ at \in [Thread -> Nat] /\ \A t \in Thread : at[t] \in 0..Len(path[t])
  /\ out \in [Thread -> Seq(Record)]
  /\ result \in [Thread -> ResultType]
  /\ known \subseteq Session
  /\ faults \in 0..MaxFaults
  /\ \A t \in Thread :
       /\ pc[t] \in {"up", "emit"} => path[t] # <<>>
       /\ \A p \in Process, s \in Session :
            mutex[p][s] = t <=> /\ p = ProcessOf[t] /\ pc[t] \in {"check", "publish"}
                                /\ s = call[t].session

\* Append-only (event_sink.h:29-32): what a session shows is a beginning of what
\* it will show, whoever appends to it, to its ancestors or makes it a branch. One
\* that is too deep to be read shows nothing.
ViewsGrow ==
  [][\A s \in Session : ~Sink!TooDeep(s) =>
       Sink!First(Len(Sink!View(s)), Sink!View(s)') = Sink!View(s)]_vars

\* Reads and creations act at one instant each.
ImplementsBranchSink == Sink!Spec
=============================================================================
