------------------------------ MODULE EventLog ------------------------------
(***************************************************************************)
(* PosixEventSink (runtime/platform/eventlog/posix_event_sink.cc): the     *)
(* append-only events.dpmlog of one session, used by threads of several    *)
(* processes.  A call takes the process-local mutex of the path, opens the *)
(* file, waits for the fcntl lock, and then either writes one framed       *)
(* record and syncs it, or maps the file and parses it.                    *)
(*                                                                         *)
(* The file is a sequence of cells, a cell being the least piece a write   *)
(* can stop after: two for the magic, two for a record's length and its    *)
(* complement, the rest for its body.                                      *)
(***************************************************************************)
EXTENDS Naturals, Sequences

CONSTANTS
  Thread, Proc,     \* callers and the processes they run in
  ProcOf,           \* ProcOf[t]: the process of thread t
  Spelling,         \* SpellingOf[t]: how t's sink spells the log's path, the
  SpellingOf,       \*   key of the mutex registry
  Payload, Size,    \* record payloads and the body cells each takes
  CallsOf,          \* CallsOf[t]: the calls thread t may make
  MaxCalls,         \* bound: calls a thread makes
  Faults,           \* which of AllFaults may happen
  MaxFaults,        \* bound: faults in a behaviour
  SyncLinks         \* does syncing a new file make its directory entry durable?

\* "error": open(), fcntl() or write() fails between records; "short": inside one;
\* "sync": fdatasync() fails; "crash": a process dies; "power": the machine.
AllFaults == {"error", "short", "sync", "crash", "power"}

AppendOf(p) == [op |-> "append", payload |-> p]
\* ForEachRecord(Range): the records [from, max), UINT64_MAX for all.
ReadFrom(from, max) == [op |-> "read", from |-> from, max |-> max]
ProbeCall == [op |-> "probe"]
CallType ==
  [op : {"append"}, payload : Payload] \cup [op : {"read"}, from : Nat, max : Nat]
    \cup {ProbeCall}

ASSUME ThreadsAssumption ==
  /\ ProcOf \in [Thread -> Proc]
  /\ SpellingOf \in [Thread -> Spelling]
  /\ "free" \notin Thread
ASSUME RecordsAssumption ==
  /\ Size \in [Payload -> Nat \ {0}]   \* empty payloads are rejected, l.487
  /\ "magic" \notin Payload
  /\ CallsOf \in [Thread -> SUBSET CallType]
ASSUME BoundsAssumption ==
  /\ MaxCalls \in Nat
  /\ MaxFaults \in Nat
  /\ Faults \subseteq AllFaults
  /\ SyncLinks \in BOOLEAN

VARIABLES
  exists,      \* is there a directory entry for the log?
  linked,      \* would that entry survive a power loss?
  file,        \* the cells every process sees (page cache)
  synced,      \* how many of them are known to be on the medium
  mutex,       \* PathMutexRegistry: the holder of each process's path mutex
  flock,       \* the fcntl lock each process holds on the log
  pc,          \* where each thread is in its call
  call,        \* what it called
  buf,         \* an appender's bytes still to write
  snap,        \* a reader's mapping of the file
  reply,       \* what each thread's last call returned
  calls,       \* calls made so far
  faults,      \* faults so far
  acked        \* history: the appends acknowledged, with the state of the log

vars == <<exists, linked, file, synced, mutex, flock, pc, call, buf, snap,
          reply, calls, faults, acked>>

disk  == <<exists, linked, file, synced>>
locks == <<mutex, flock>>

-----------------------------------------------------------------------------
(* Framing *)

Cell == [of : Payload \cup {"magic"}, at : Nat \ {0}]

Cells(x, from, to) == [i \in 1..(to - from + 1) |-> [of |-> x, at |-> from + i - 1]]
Magic == Cells("magic", 1, 2)
MakeRecordFromZero(p) == Cells(p, 0, 2 + Size[p])              \* mutant
MakeRecord(p) == Cells(p, 1, 2 + Size[p])
Body(p) == Cells(p, 3, 2 + Size[p])

\* What a parsed body is when it is no payload that was ever appended.
Garbled == "garbled"
RecordOf(cells) ==
  IF \E p \in Payload : cells = Body(p)
    THEN CHOOSE p \in Payload : cells = Body(p)
    ELSE Garbled

\* Two cells after offset o are a length and its complement; body bytes are
\* taken never to look like one.
HeaderAt(f, o) ==
  /\ o + 2 <= Len(f)
  /\ f[o + 1].of \in Payload /\ f[o + 1].at = 1
  /\ f[o + 2].of \in Payload /\ f[o + 2].at = 2
  /\ Size[f[o + 1].of] = Size[f[o + 2].of]

FrameEnd(f, o) == o + 2 + Size[f[o + 1].of]
FrameAt(f, o) == HeaderAt(f, o) /\ FrameEnd(f, o) <= Len(f)

\* The records that can be parsed from the front of f, and whether they end
\* where f does.
Parsed(f) ==
  LET walk[o \in 0..Len(f)] ==
        IF o = Len(f) THEN [whole |-> TRUE, records |-> <<>>]
        ELSE IF FrameAt(f, o)
        THEN LET rest == walk[FrameEnd(f, o)]
             IN  [rest EXCEPT !.records =
                    <<RecordOf(SubSeq(f, o + 3, FrameEnd(f, o)))>> \o @]
        ELSE [whole |-> FALSE, records |-> <<>>]
  IN  IF Len(f) = 0 THEN [whole |-> TRUE, records |-> <<>>]
      ELSE IF Len(f) < 2 \/ SubSeq(f, 1, 2) # Magic
      THEN [whole |-> FALSE, records |-> <<>>]
      ELSE walk[2]

Error == [ok |-> FALSE, value |-> <<>>]
Records(rs) == [ok |-> TRUE, value |-> rs]
Token(n) == [ok |-> TRUE, token |-> n]

\* Nothing but whole frames of whole payloads.
Intact(f) ==
  LET all == Parsed(f)
  IN  all.whole /\ \A i \in DOMAIN all.records : all.records[i] # Garbled

ForEachMappedRecordOneMore(f, max) ==                          \* mutant
  LET all == Parsed(f) IN
  IF max < Len(all.records)
    THEN Records(SubSeq(all.records, 1, max + 1))
    ELSE IF all.whole THEN Records(all.records) ELSE Error

\* ForEachMappedRecord: at most max records, and an error only if the walk
\* meets a damaged frame before it has them.
ForEachMappedRecord(f, max) ==
  LET all == Parsed(f) IN
  IF max <= Len(all.records)
    THEN Records(SubSeq(all.records, 1, max))
    ELSE IF all.whole THEN Records(all.records) ELSE Error

-----------------------------------------------------------------------------
(* Locks *)

Key(t) == <<ProcOf[t], SpellingOf[t]>>

LockUnheeded(p) == TRUE                                        \* mutant

\* fcntl: locks belong to processes, and a process never conflicts with itself.
CanLockExclusive(p) == \A q \in Proc \ {p} : flock[q] = "none"
CanLockShared(p) == \A q \in Proc \ {p} : flock[q] # "wr"

\* The call returns r: LockedFile and the guard on the mutex are destroyed.
Return(t, r) ==
  /\ reply' = [reply EXCEPT ![t] = r]
  /\ pc' = [pc EXCEPT ![t] = "idle"]
  /\ buf' = [buf EXCEPT ![t] = <<>>]
  /\ snap' = [snap EXCEPT ![t] = <<>>]
  /\ mutex' = [mutex EXCEPT ![Key(t)] = "free"]

Unlocked(t) == UNCHANGED flock                                 \* mutant
Unlock(t) == flock' = [flock EXCEPT ![ProcOf[t]] = "none"]

NoReply == Records(<<>>)

Init ==
  /\ exists = FALSE /\ linked = FALSE
  /\ file = <<>> /\ synced = 0
  /\ mutex = [k \in Proc \X Spelling |-> "free"]
  /\ flock = [p \in Proc |-> "none"]
  /\ pc = [t \in Thread |-> "idle"]
  /\ call = [t \in Thread |-> ProbeCall]
  /\ buf = [t \in Thread |-> <<>>]
  /\ snap = [t \in Thread |-> <<>>]
  /\ reply = [t \in Thread |-> NoReply]
  /\ calls = [t \in Thread |-> 0]
  /\ faults = 0
  /\ acked = <<>>

Call(t) ==
  /\ pc[t] = "idle" /\ calls[t] < MaxCalls
  /\ \E c \in CallsOf[t] : call' = [call EXCEPT ![t] = c]
  /\ pc' = [pc EXCEPT ![t] = "enter"]
  /\ calls' = [calls EXCEPT ![t] = @ + 1]
  /\ UNCHANGED <<disk, locks, buf, snap, reply, faults, acked>>

TakeMutex(t) ==
  /\ pc[t] = "enter"
  /\ mutex[Key(t)] = "free"
  /\ mutex' = [mutex EXCEPT ![Key(t)] = t]

-----------------------------------------------------------------------------
(* AppendRecord *)

EnterAppendTruncating(t) ==                                    \* mutant
  /\ call[t].op = "append"
  /\ TakeMutex(t)
  /\ exists' = TRUE /\ file' = <<>>
  /\ pc' = [pc EXCEPT ![t] = "lock exclusive"]
  /\ UNCHANGED <<linked, synced, flock, call, buf, snap, reply, calls,
                 faults, acked>>

\* The mutex, then open(O_CREAT | O_APPEND): the empty file is there at once.
EnterAppend(t) ==
  /\ call[t].op = "append"
  /\ TakeMutex(t)
  /\ exists' = TRUE
  /\ pc' = [pc EXCEPT ![t] = "lock exclusive"]
  /\ UNCHANGED <<linked, file, synced, flock, call, buf, snap, reply, calls,
                 faults, acked>>

\* F_SETLKW, then the size decides whether the magic goes first.
LockExclusive(t) ==
  /\ pc[t] = "lock exclusive"
  /\ CanLockExclusive(ProcOf[t])
  /\ flock' = [flock EXCEPT ![ProcOf[t]] = "wr"]
  /\ buf' = [buf EXCEPT ![t] =
       (IF file = <<>> THEN Magic ELSE <<>>) \o MakeRecord(call[t].payload)]
  /\ pc' = [pc EXCEPT ![t] = "write"]
  /\ UNCHANGED <<disk, mutex, call, snap, reply, calls, faults, acked>>

PutCellsSkipping(t, n) ==                                      \* mutant
  /\ file' = file \o SubSeq(buf[t], 1, n)
  /\ buf' = [buf EXCEPT ![t] = SubSeq(@, n + 2, Len(@))]

\* One write(): any non-empty part of what is left, at the end of the file.
PutCells(t, n) ==
  /\ file' = file \o SubSeq(buf[t], 1, n)
  /\ buf' = [buf EXCEPT ![t] = SubSeq(@, n + 1, Len(@))]

Write(t) ==
  /\ pc[t] = "write"
  /\ \E n \in 1..Len(buf[t]) :
       /\ PutCells(t, n)
       /\ pc' = [pc EXCEPT ![t] = IF n = Len(buf[t]) THEN "sync" ELSE "write"]
  /\ UNCHANGED <<exists, linked, synced, locks, call, snap, reply, calls,
                 faults, acked>>

\* write() returns 0 or -1: the call fails and leaves what it has written.
Fault(kind) == kind \in Faults /\ faults < MaxFaults /\ faults' = faults + 1

WriteFails(t) ==
  /\ pc[t] = "write"
  /\ Fault(IF Parsed(file).whole THEN "error" ELSE "short")
  /\ Return(t, Error) /\ Unlock(t)
  /\ UNCHANGED <<disk, call, calls, acked>>

SyncSkipped(t) ==                                              \* mutant
  /\ pc[t] = "sync"
  /\ acked' = Append(acked, [payload |-> call[t].payload,
                             index |-> Len(Parsed(file).records),
                             intact |-> Intact(file)])
  /\ Return(t, NoReply) /\ Unlock(t)
  /\ UNCHANGED <<disk, call, calls, faults>>

\* fdatasync, and the call succeeds.
Sync(t) ==
  /\ pc[t] = "sync"
  /\ synced' = Len(file)
  /\ linked' = (linked \/ SyncLinks)
  /\ acked' = Append(acked, [payload |-> call[t].payload,
                             index |-> Len(Parsed(file).records),
                             intact |-> Intact(file)])
  /\ Return(t, NoReply) /\ Unlock(t)
  /\ UNCHANGED <<exists, file, call, calls, faults>>

SyncFails(t) ==
  /\ pc[t] = "sync"
  /\ Fault("sync")
  /\ Return(t, Error) /\ Unlock(t)
  /\ UNCHANGED <<disk, call, calls, acked>>

-----------------------------------------------------------------------------
(* ForEachRecord, ForEachRecordRange and ProbeGeneration *)

\* The mutex, then exists(): no file, no records.
EnterRead(t) ==
  /\ call[t].op \in {"read", "probe"}
  /\ IF exists
       THEN /\ TakeMutex(t)
            /\ pc' = [pc EXCEPT ![t] = "lock shared"]
            /\ UNCHANGED <<buf, snap, reply>>
       ELSE /\ pc[t] = "enter" /\ mutex[Key(t)] = "free"
            /\ Return(t, IF call[t].op = "read" THEN Records(<<>>) ELSE Token(0))
  /\ UNCHANGED <<disk, flock, call, calls, faults, acked>>

LockShared(t) ==
  /\ pc[t] = "lock shared"
  /\ CanLockShared(ProcOf[t])
  /\ flock' = [flock EXCEPT ![ProcOf[t]] = "rd"]
  /\ pc' = [pc EXCEPT ![t] = "locked shared"]
  /\ UNCHANGED <<disk, mutex, call, buf, snap, reply, calls, faults, acked>>

\* MemoryMappedFile::Create opens the path again, maps it and closes that
\* descriptor, which drops every fcntl lock the process has on the file.
Map(t) ==
  /\ pc[t] = "locked shared" /\ call[t].op = "read"
  /\ IF file = <<>>
       THEN Return(t, Records(<<>>))
       ELSE /\ snap' = [snap EXCEPT ![t] = file]
            /\ pc' = [pc EXCEPT ![t] = "parse"]
            /\ UNCHANGED <<mutex, buf, reply>>
  /\ Unlock(t)
  /\ UNCHANGED <<disk, call, calls, faults, acked>>

\* The callback of ForEachRecordRange passes over the first records.
Skip(r, from) ==
  IF r.ok THEN Records(SubSeq(r.value, from + 1, Len(r.value))) ELSE r

Parse(t) ==
  /\ pc[t] = "parse"
  /\ Return(t, Skip(ForEachMappedRecord(snap[t], call[t].max), call[t].from))
  /\ Unlock(t)
  /\ UNCHANGED <<disk, call, calls, faults, acked>>

\* The generation token is the size of the file.
ProbeSize(t) ==
  /\ pc[t] = "locked shared" /\ call[t].op = "probe"
  /\ Return(t, Token(Len(file)))
  /\ Unlock(t)
  /\ UNCHANGED <<disk, call, calls, faults, acked>>

-----------------------------------------------------------------------------
(* Failures and crashes *)

\* LockedFile::Open fails: no file, or no lock on it, and the descriptor is closed.
OpenFails(t) ==
  /\ \/ pc[t] = "enter" /\ call[t].op = "append"
        /\ mutex[Key(t)] = "free" /\ UNCHANGED flock
     \/ pc[t] \in {"lock exclusive", "lock shared"} /\ Unlock(t)
  /\ Fault("error")
  /\ Return(t, Error)
  /\ UNCHANGED <<disk, call, calls, acked>>

Kill(P) ==
  LET dead == {t \in Thread : ProcOf[t] \in P} IN
  /\ mutex' = [k \in Proc \X Spelling |-> IF k[1] \in P THEN "free" ELSE mutex[k]]
  /\ flock' = [p \in Proc |-> IF p \in P THEN "none" ELSE flock[p]]
  /\ pc' = [t \in Thread |-> IF t \in dead THEN "idle" ELSE pc[t]]
  /\ buf' = [t \in Thread |-> IF t \in dead THEN <<>> ELSE buf[t]]
  /\ snap' = [t \in Thread |-> IF t \in dead THEN <<>> ELSE snap[t]]
  /\ reply' = [t \in Thread |-> IF t \in dead /\ pc[t] # "idle" THEN Error ELSE reply[t]]
  /\ UNCHANGED <<call, calls, acked>>

\* A process dies and is started again; the page cache outlives it.
Crash(p) ==
  /\ Fault("crash")
  /\ \E t \in Thread : ProcOf[t] = p /\ pc[t] # "idle"
  /\ Kill({p})
  /\ UNCHANGED disk

\* Everything dies; of what was not synced a prefix survives, and of a file
\* whose directory entry was not, perhaps nothing.
PowerLoss ==
  /\ Fault("power")
  /\ Kill(Proc)
  /\ \/ /\ \E n \in synced..Len(file) : file' = SubSeq(file, 1, n)
        /\ synced' = Len(file')
        /\ linked' = exists
        /\ UNCHANGED exists
     \/ /\ exists /\ ~linked
        /\ exists' = FALSE /\ linked' = FALSE
        /\ file' = <<>> /\ synced' = 0

-----------------------------------------------------------------------------
AppendStep(t) ==
  \/ EnterAppend(t) \/ LockExclusive(t) \/ Write(t)
  \/ WriteFails(t) \/ Sync(t) \/ SyncFails(t)
ReadStep(t) ==
  EnterRead(t) \/ LockShared(t) \/ Map(t) \/ Parse(t) \/ ProbeSize(t)

Next ==
  \/ \E t \in Thread : Call(t) \/ AppendStep(t) \/ ReadStep(t) \/ OpenFails(t)
  \/ \E p \in Proc : Crash(p)
  \/ PowerLoss

Spec == Init /\ [][Next]_vars

\* The scheduler runs every thread that can run.
Fairness == \A t \in Thread : WF_vars(AppendStep(t) \/ ReadStep(t))
FairSpec == Spec /\ Fairness

-----------------------------------------------------------------------------
(* Properties *)

Appending(t) == pc[t] \in {"lock exclusive", "write", "sync"}

\* Every variable has its type, and only an append gets to its steps.
TypeOK ==
  /\ exists \in BOOLEAN /\ linked \in BOOLEAN
  /\ file \in Seq(Cell) /\ synced \in Nat
  /\ mutex \in [Proc \X Spelling -> Thread \cup {"free"}]
  /\ flock \in [Proc -> {"none", "rd", "wr"}]
  /\ pc \in [Thread -> {"idle", "enter", "lock exclusive", "write", "sync",
                        "lock shared", "locked shared", "parse"}]
  /\ call \in [Thread -> CallType]
  /\ buf \in [Thread -> Seq(Cell)]
  /\ snap \in [Thread -> Seq(Cell)]
  /\ calls \in [Thread -> 0..MaxCalls]
  /\ faults \in 0..MaxFaults
  /\ \A t \in Thread : Appending(t) => call[t].op = "append"

Writing(t) == pc[t] \in {"write", "sync"}
Reading(t) == pc[t] = "locked shared"

\* While a thread writes and syncs a record, no other thread of any process
\* writes or takes the length of the file: the path mutex covers the threads
\* of one process, the fcntl lock the processes (posix_event_sink.cc:175-179).
WriterExclusion ==
  \A t, u \in Thread : t # u /\ Writing(t) => ~Writing(u) /\ ~Reading(u)

\* A record acknowledged while the log was undamaged stays readable by its
\* position, whatever fails afterwards: a short write, a failed sync, a crash
\* or a power loss behind it (ForEachMappedRecord stops at max_records before
\* it looks at what follows).
AckedStaysReadable ==
  \A i \in DOMAIN acked : acked[i].intact =>
    LET got == ForEachMappedRecord(file, acked[i].index)
    IN  /\ got.ok /\ Len(got.value) = acked[i].index
        /\ got.value[acked[i].index] = acked[i].payload

\* event_sink.h:26-28: once AppendRecord has returned OK the record can be
\* read back, in append order.
AckedReadable ==
  LET all == Parsed(file).records IN
  \A i \in DOMAIN acked : \E k \in DOMAIN all : all[k] = acked[i].payload

\* While no thread is writing and nothing has failed, the log is undamaged,
\* so that a read never reports DataLoss for a log that is merely in use.
NoSpuriousDataLoss ==
  faults = 0 => \A t \in Thread : reply[t].ok

\* "A file that only grows; nothing is erased" (README.md:7): what was synced
\* is a prefix of every later file, across crashes and power losses.
OnlyGrows ==
  [][ /\ Len(file') >= synced
      /\ SubSeq(file', 1, synced) = SubSeq(file, 1, synced) ]_<<file, synced>>

\* Every call returns: the order mutex, fcntl lock, file is the same for all
\* callers and everything taken is given back, on the error paths too.
CallsReturn == \A t \in Thread : pc[t] = "enter" ~> pc[t] = "idle"

-----------------------------------------------------------------------------
(* Refinement: EventSink seen through the file.                            *)

SinkLog == Parsed(file).records
SinkRequest == [t \in Thread |->
  CASE pc[t] = "idle" -> [op |-> "idle"]
    [] pc[t] = "sync" -> [op |-> "effect", value |-> <<>>]
    [] pc[t] = "parse" ->
         [op |-> "effect",
          value |-> Skip(ForEachMappedRecord(snap[t], call[t].max),
                         call[t].from).value]
    [] OTHER -> call[t]]
\* A generation token stands for the log as it was when the file had that size.
SinkAnswer == [t \in Thread |->
  IF "token" \in DOMAIN reply[t]
    THEN Records(Parsed(SubSeq(file, 1, reply[t].token)).records)
    ELSE reply[t]]

Sink == INSTANCE EventSink WITH
  log <- SinkLog, request <- SinkRequest, answer <- SinkAnswer

\* As long as writes fail, if at all, between records, the file behaves like
\* one list of records that every call acts on at one instant.
ImplementsEventSink == Sink!Spec
=============================================================================
