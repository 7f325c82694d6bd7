--------------------------- MODULE EventLogProofs ---------------------------
(***************************************************************************)
(* Proofs about EventLog, for any threads, processes, payloads and faults. *)
(***************************************************************************)
EXTENDS EventLog, SequenceTheorems, FiniteSetTheorems, TLAPS

\* Every sink of a process spells the log's path the same way.
OneSpellingPerProcess ==
  \A t, u \in Thread : ProcOf[t] = ProcOf[u] => SpellingOf[t] = SpellingOf[u]

-----------------------------------------------------------------------------
(* Type correctness *)

LEMMA CellsType ==
  ASSUME NEW x \in Payload \cup {"magic"}, NEW n \in Nat
  PROVE  Cells(x, 1, n) \in Seq(Cell)
<1>1. \A i \in 1..n : [of |-> x, at |-> 1 + i - 1] \in Cell
  BY DEF Cell
<1>2. Cells(x, 1, n) = [i \in 1..n |-> [of |-> x, at |-> 1 + i - 1]]
  <2>1. n - 1 + 1 = n
    OBVIOUS
  <2>2. QED
    BY <2>1, Zenon DEF Cells
<1>3. Cells(x, 1, n) \in [1..n -> Cell]
  BY <1>1, <1>2, Zenon
<1>4. QED
  BY <1>3, SeqDef, Zenon

LEMMA RecordType ==
  ASSUME NEW p \in Payload, NEW f \in Seq(Cell)
  PROVE  (IF f = <<>> THEN Magic ELSE <<>>) \o MakeRecord(p) \in Seq(Cell)
<1>1. Magic \in Seq(Cell)
  BY CellsType DEF Magic
<1>2. MakeRecord(p) \in Seq(Cell)
  BY CellsType, RecordsAssumption DEF MakeRecord
<1>3. QED
  BY <1>1, <1>2, ConcatProperties, EmptySeq

LEMMA SubSeqType ==
  ASSUME NEW f \in Seq(Cell), NEW m \in Nat \ {0}, NEW n \in Nat, n <= Len(f)
  PROVE  SubSeq(f, m, n) \in Seq(Cell)
<1>1. \A i \in m..n : f[i] \in Cell
  BY ElementOfSeq, LenProperties
<1>2. QED
  BY <1>1, SubSeqProperties

LEMMA AppendCallType ==
  ASSUME NEW c \in CallType, c.op = "append"
  PROVE  c.payload \in Payload
BY DEF CallType, ProbeCall

\* What a type invariant asks of the values a step does not look at.
LEMMA KeyType == \A t \in Thread : Key(t) \in Proc \X Spelling
BY ThreadsAssumption DEF Key

LEMMA FaultType ==
  ASSUME TypeOK, NEW k, Fault(k)
  PROVE  faults' \in 0..MaxFaults
<1>1. faults \in 0..MaxFaults
  BY DEF TypeOK
<1>2. QED
  BY <1>1, BoundsAssumption DEF Fault

LEMMA UnlockType ==
  ASSUME TypeOK, NEW t \in Thread, Unlock(t)
  PROVE  flock' \in [Proc -> {"none", "rd", "wr"}]
BY ThreadsAssumption DEF Unlock, TypeOK

\* A call that returns gives its thread's variables back in their types.
LEMMA ReturnKeepsType ==
  ASSUME TypeOK, NEW t \in Thread, NEW r, Return(t, r),
         call' = call, calls' = calls, faults' \in 0..MaxFaults,
         flock' \in [Proc -> {"none", "rd", "wr"}],
         exists' \in BOOLEAN, linked' \in BOOLEAN,
         file' \in Seq(Cell), synced' \in Nat
  PROVE  TypeOK'
<1>1. <<>> \in Seq(Cell)
  BY EmptySeq
<1>2. /\ buf' \in [Thread -> Seq(Cell)]
      /\ snap' \in [Thread -> Seq(Cell)]
      /\ mutex' \in [Proc \X Spelling -> Thread \cup {"free"}]
  BY <1>1 DEF Return, TypeOK
<1>3. \A u \in Thread : Appending(u)' => call'[u].op = "append"
  BY DEF Return, TypeOK, Appending
<1>4. QED
  BY <1>2, <1>3 DEF Return, TypeOK

\* So does the death of some processes.
LEMMA KillKeepsType ==
  ASSUME TypeOK, NEW P \in SUBSET Proc, Kill(P), faults' \in 0..MaxFaults,
         exists' \in BOOLEAN, linked' \in BOOLEAN,
         file' \in Seq(Cell), synced' \in Nat
  PROVE  TypeOK'
<1>1. <<>> \in Seq(Cell)
  BY EmptySeq
<1>2. /\ buf' \in [Thread -> Seq(Cell)]
      /\ snap' \in [Thread -> Seq(Cell)]
      /\ mutex' \in [Proc \X Spelling -> Thread \cup {"free"}]
      /\ flock' \in [Proc -> {"none", "rd", "wr"}]
  BY <1>1 DEF Kill, TypeOK
<1>3. \A u \in Thread : Appending(u)' => call'[u].op = "append"
  BY DEF Kill, TypeOK, Appending
<1>4. QED
  BY <1>2, <1>3 DEF Kill, TypeOK

LEMMA InitType == Init => TypeOK
<1> SUFFICES ASSUME Init PROVE TypeOK
  OBVIOUS
<1>1. <<>> \in Seq(Cell) /\ ProbeCall \in CallType
  BY EmptySeq DEF CallType
<1>2. call \in [Thread -> CallType] /\ file \in Seq(Cell)
  BY <1>1 DEF Init
<1>3. buf \in [Thread -> Seq(Cell)] /\ snap \in [Thread -> Seq(Cell)]
  BY <1>1 DEF Init
<1>4. calls \in [Thread -> 0..MaxCalls] /\ faults \in 0..MaxFaults
  BY BoundsAssumption DEF Init
<1>5. \A t \in Thread : Appending(t) => call[t].op = "append"
  BY DEF Init, Appending
<1>6. QED
  BY <1>2, <1>3, <1>4, <1>5 DEF Init, TypeOK

\* Every variable of EventLog keeps its type, for any system it is set up for.
THEOREM TypeCorrect == Spec => []TypeOK
<1>1. TypeOK /\ [Next]_vars => TypeOK'
  <2> SUFFICES ASSUME TypeOK, [Next]_vars PROVE TypeOK'
    OBVIOUS
  <2> USE DEF disk, locks, Appending
  <2>1. CASE UNCHANGED vars
    BY <2>1 DEF vars, TypeOK
  <2>2. ASSUME NEW t \in Thread, Call(t) PROVE TypeOK'
    <3>1. CallsOf[t] \subseteq CallType
      BY RecordsAssumption
    <3>2. /\ calls \in [Thread -> 0..MaxCalls] /\ calls[t] < MaxCalls
          /\ calls' = [calls EXCEPT ![t] = calls[t] + 1]
      BY <2>2 DEF Call, TypeOK
    <3>3. calls[t] + 1 \in 0..MaxCalls
      BY <3>2, BoundsAssumption
    <3>4. QED
      BY <2>2, <3>1, <3>2, <3>3, ZenonT(60) DEF Call, TypeOK
  <2>3. ASSUME NEW t \in Thread, EnterAppend(t) PROVE TypeOK'
    BY <2>3, KeyType DEF EnterAppend, TakeMutex, TypeOK
  <2>4. ASSUME NEW t \in Thread, LockExclusive(t) PROVE TypeOK'
    <3>1. call[t].payload \in Payload
      BY <2>4, AppendCallType DEF LockExclusive, TypeOK
    <3>2. buf' \in [Thread -> Seq(Cell)]
      BY <2>4, <3>1, RecordType DEF LockExclusive, TypeOK
    <3>3. QED
      BY <2>4, <3>2, ThreadsAssumption DEF LockExclusive, TypeOK
  <2>5. ASSUME NEW t \in Thread, Write(t) PROVE TypeOK'
    <3>1. PICK n \in 1..Len(buf[t]) : PutCells(t, n)
      BY <2>5 DEF Write
    <3>2. file \in Seq(Cell) /\ buf \in [Thread -> Seq(Cell)]
      BY DEF TypeOK
    <3>3. buf[t] \in Seq(Cell) /\ Len(buf[t]) \in Nat
      BY <3>2, LenProperties
    <3>4. n \in Nat /\ n + 1 \in Nat \ {0} /\ n <= Len(buf[t])
      BY <3>3
    <3>5. /\ SubSeq(buf[t], 1, n) \in Seq(Cell)
          /\ SubSeq(buf[t], n + 1, Len(buf[t])) \in Seq(Cell)
      BY <3>3, <3>4, SubSeqType
    <3>6. file' \in Seq(Cell) /\ buf' \in [Thread -> Seq(Cell)]
      BY <3>1, <3>2, <3>5, ConcatProperties DEF PutCells
    <3>7. pc' = [pc EXCEPT ![t] = "write"] \/ pc' = [pc EXCEPT ![t] = "sync"]
      BY <2>5 DEF Write
    <3>8. QED
      BY <2>5, <3>6, <3>7 DEF Write, TypeOK
  <2>6. ASSUME NEW t \in Thread, WriteFails(t) \/ SyncFails(t) \/ OpenFails(t) PROVE TypeOK'
    <3>1. faults' \in 0..MaxFaults
      BY <2>6, FaultType DEF WriteFails, SyncFails, OpenFails
    <3>2. QED
      BY <2>6, <3>1, ReturnKeepsType, UnlockType
      DEF WriteFails, SyncFails, OpenFails, TypeOK
  <2>7. ASSUME NEW t \in Thread, Sync(t) PROVE TypeOK'
    <3>1. synced' \in Nat /\ linked' \in BOOLEAN
      BY <2>7, LenProperties, BoundsAssumption DEF Sync, TypeOK
    <3>2. QED
      BY <2>7, <3>1, ReturnKeepsType, UnlockType DEF Sync, TypeOK
  <2>8. ASSUME NEW t \in Thread, EnterRead(t) PROVE TypeOK'
    <3>1. CASE exists
      BY <2>8, <3>1, KeyType, ZenonT(60) DEF EnterRead, TakeMutex, TypeOK
    <3>2. CASE ~exists
      BY <2>8, <3>2, ReturnKeepsType DEF EnterRead, TypeOK
    <3>3. QED
      BY <3>1, <3>2
  <2>9. ASSUME NEW t \in Thread, LockShared(t) PROVE TypeOK'
    BY <2>9, ThreadsAssumption DEF LockShared, TypeOK
  <2>10. ASSUME NEW t \in Thread, Map(t) PROVE TypeOK'
    <3>1. flock' \in [Proc -> {"none", "rd", "wr"}]
      BY <2>10, UnlockType DEF Map
    <3>2. CASE file = <<>>
      BY <2>10, <3>1, <3>2, ReturnKeepsType DEF Map, TypeOK
    <3>3. CASE file # <<>>
      BY <2>10, <3>1, <3>3 DEF Map, TypeOK
    <3>4. QED
      BY <3>2, <3>3
  <2>11. ASSUME NEW t \in Thread, Parse(t) \/ ProbeSize(t) PROVE TypeOK'
    BY <2>11, ReturnKeepsType, UnlockType DEF Parse, ProbeSize, TypeOK
  <2>12. ASSUME NEW p \in Proc, Crash(p) PROVE TypeOK'
    BY <2>12, KillKeepsType, FaultType DEF Crash, TypeOK
  <2>13. ASSUME PowerLoss PROVE TypeOK'
    <3>1. file \in Seq(Cell) /\ Len(file) \in Nat /\ synced \in Nat
      BY LenProperties DEF TypeOK
    <3>2. \A n \in synced..Len(file) : SubSeq(file, 1, n) \in Seq(Cell)
      BY <3>1, SubSeqType
    <3>3. file' \in Seq(Cell) /\ synced' \in Nat
      BY <2>13, <3>2, EmptySeq, LenProperties DEF PowerLoss
    <3>4. exists' \in BOOLEAN /\ linked' \in BOOLEAN
      BY <2>13 DEF PowerLoss, TypeOK
    <3>5. Kill(Proc) /\ faults' \in 0..MaxFaults
      BY <2>13, FaultType DEF PowerLoss
    <3>6. QED
      BY <3>3, <3>4, <3>5, KillKeepsType
  <2>14. QED
    BY <2>1, <2>2, <2>3, <2>4, <2>5, <2>6, <2>7, <2>8, <2>9, <2>10, <2>11,
       <2>12, <2>13 DEF Next, AppendStep, ReadStep
<1>2. QED
  BY <1>1, InitType, PTL DEF Spec

-----------------------------------------------------------------------------
(* Mutual exclusion of writers                                             *)

\* A thread past the mutex holds it, a writer's process has the exclusive
\* fcntl lock, a thread about to look at the file's length the shared one, and
\* an exclusive lock is the only lock.  Of one process only one thread is past
\* the mutex, so it is the thread the process's fcntl lock stands for.
LockInv ==
  /\ \A t \in Thread : pc[t] \notin {"idle", "enter"} => mutex[Key(t)] = t
  /\ \A t \in Thread : Writing(t) => flock[ProcOf[t]] = "wr"
  /\ \A t \in Thread : Reading(t) => flock[ProcOf[t]] = "rd"
  /\ \A p, q \in Proc : p # q /\ flock[p] = "wr" => flock[q] = "none"

LEMMA OneInside ==
  ASSUME OneSpellingPerProcess, LockInv, NEW t \in Thread, NEW u \in Thread,
         t # u, ProcOf[t] = ProcOf[u], pc[t] \notin {"idle", "enter"}
  PROVE  pc[u] \in {"idle", "enter"}
<1>1. Key(t) = Key(u)
  BY DEF OneSpellingPerProcess, Key
<1>2. QED
  BY <1>1 DEF LockInv

\* LockInv' in terms of the primed variables.
LEMMA LockInvPrimed ==
  ASSUME \A t \in Thread : pc'[t] \notin {"idle", "enter"} => mutex'[Key(t)] = t,
         \A t \in Thread : pc'[t] \in {"write", "sync"} => flock'[ProcOf[t]] = "wr",
         \A t \in Thread : pc'[t] = "locked shared" => flock'[ProcOf[t]] = "rd",
         \A p, q \in Proc : p # q /\ flock'[p] = "wr" => flock'[q] = "none"
  PROVE  LockInv'
BY DEF LockInv, Writing, Reading, Key

LEMMA EnterKeepsLocks ==
  ASSUME TypeOK, LockInv, NEW t \in Thread, TakeMutex(t), flock' = flock,
         NEW s \in {"lock exclusive", "lock shared"},
         pc' = [pc EXCEPT ![t] = s]
  PROVE  LockInv'
<1>1. /\ pc \in [Thread -> {"idle", "enter", "lock exclusive", "write", "sync",
                            "lock shared", "locked shared", "parse"}]
      /\ mutex \in [Proc \X Spelling -> Thread \cup {"free"}]
  BY DEF TypeOK
<1>2. \A u \in Thread : pc'[u] \notin {"idle", "enter"} => mutex'[Key(u)] = u
  <2> SUFFICES ASSUME NEW u \in Thread, pc'[u] \notin {"idle", "enter"}
               PROVE  mutex'[Key(u)] = u
    OBVIOUS
  <2>1. CASE u = t
    BY <1>1, <2>1, KeyType DEF TakeMutex
  <2>2. CASE u # t
    <3>1. mutex[Key(u)] = u
      BY <1>1, <2>2 DEF LockInv
    <3>2. Key(u) # Key(t)
      BY <3>1, ThreadsAssumption DEF TakeMutex
    <3>3. QED
      BY <1>1, <3>1, <3>2, KeyType DEF TakeMutex
  <2>3. QED
    BY <2>1, <2>2
<1>3. \A u \in Thread : pc'[u] \in {"write", "sync", "locked shared"} => pc'[u] = pc[u]
  BY <1>1
<1>4. \A u \in Thread : pc'[u] \in {"write", "sync"} => flock'[ProcOf[u]] = "wr"
  BY <1>3 DEF LockInv, Writing
<1>5. \A u \in Thread : pc'[u] = "locked shared" => flock'[ProcOf[u]] = "rd"
  BY <1>3 DEF LockInv, Reading
<1>6. \A p, q \in Proc : p # q /\ flock'[p] = "wr" => flock'[q] = "none"
  BY DEF LockInv
<1>7. QED
  BY <1>2, <1>4, <1>5, <1>6, LockInvPrimed

\* A step keeps the locks if the threads past the mutex afterwards were past it
\* before, and keep it and what their process has of the file.
LEMMA LeaveKeepsLocks ==
  ASSUME LockInv,
         \A u \in Thread : pc'[u] \notin {"idle", "enter"} =>
           /\ pc'[u] = pc[u] /\ mutex'[Key(u)] = mutex[Key(u)]
           /\ flock'[ProcOf[u]] = flock[ProcOf[u]],
         \A p \in Proc : flock'[p] \in {flock[p], "none"}
  PROVE  LockInv'
<1>1. \A u \in Thread : pc'[u] \notin {"idle", "enter"} => mutex'[Key(u)] = u
  BY DEF LockInv
<1>2. \A p, q \in Proc : p # q /\ flock'[p] = "wr" => flock'[q] = "none"
  BY DEF LockInv
<1>3. \A u \in Thread : pc'[u] \in {"write", "sync"} => flock'[ProcOf[u]] = "wr"
  BY DEF LockInv, Writing
<1>4. \A u \in Thread : pc'[u] = "locked shared" => flock'[ProcOf[u]] = "rd"
  BY ZenonT(60) DEF LockInv, Reading
<1>5. QED
  BY <1>1, <1>2, <1>3, <1>4, LockInvPrimed

\* A thread that returns gives up its process's lock, which no other thread of
\* the process relies on.
LEMMA ReturnKeepsLocks ==
  ASSUME OneSpellingPerProcess, TypeOK, LockInv, NEW t \in Thread, NEW r,
         pc[t] \notin {"idle", "enter"}, Return(t, r), Unlock(t)
  PROVE  LockInv'
<1>1. ProcOf \in [Thread -> Proc]
  BY ThreadsAssumption
<1>2. \A u \in Thread : pc'[u] \notin {"idle", "enter"} =>
        u # t /\ ProcOf[u] # ProcOf[t] /\ pc'[u] = pc[u]
  BY OneInside DEF Return, TypeOK
<1>3. \A u \in Thread : ProcOf[u] # ProcOf[t] => Key(u) # Key(t)
  BY DEF Key
<1>4. \A u \in Thread : pc'[u] \notin {"idle", "enter"} =>
        mutex'[Key(u)] = mutex[Key(u)]
  BY <1>2, <1>3, KeyType DEF Return, TypeOK
<1>5. \A u \in Thread : pc'[u] \notin {"idle", "enter"} =>
        flock'[ProcOf[u]] = flock[ProcOf[u]]
  BY <1>1, <1>2 DEF Unlock, TypeOK
<1>6. \A p \in Proc : flock'[p] \in {flock[p], "none"}
  BY <1>1 DEF Unlock, TypeOK
<1>7. \A u \in Thread : pc'[u] \notin {"idle", "enter"} =>
        /\ pc'[u] = pc[u] /\ mutex'[Key(u)] = mutex[Key(u)]
        /\ flock'[ProcOf[u]] = flock[ProcOf[u]]
  BY <1>2, <1>4, <1>5
<1>8. QED
  BY <1>6, <1>7, LeaveKeepsLocks

LEMMA KillKeepsLocks ==
  ASSUME TypeOK, LockInv, NEW P \in SUBSET Proc, Kill(P)
  PROVE  LockInv'
<1>1. ProcOf \in [Thread -> Proc]
  BY ThreadsAssumption
<1>2. \A u \in Thread : pc'[u] \notin {"idle", "enter"} =>
        ProcOf[u] \notin P /\ pc'[u] = pc[u]
  BY <1>1 DEF Kill, TypeOK
<1>3. \A u \in Thread : Key(u)[1] = ProcOf[u]
  BY DEF Key
<1>4. \A u \in Thread : ProcOf[u] \notin P => mutex'[Key(u)] = mutex[Key(u)]
  BY <1>3, KeyType DEF Kill
<1>5. \A p \in Proc : flock'[p] = IF p \in P THEN "none" ELSE flock[p]
  BY DEF Kill
<1>6. \A u \in Thread : pc'[u] \notin {"idle", "enter"} =>
        /\ pc'[u] = pc[u] /\ mutex'[Key(u)] = mutex[Key(u)]
        /\ flock'[ProcOf[u]] = flock[ProcOf[u]]
  BY <1>1, <1>2, <1>4, <1>5
<1>7. \A p \in Proc : flock'[p] \in {flock[p], "none"}
  BY <1>5
<1>8. QED
  BY <1>6, <1>7, LeaveKeepsLocks

LEMMA LockInvariant == OneSpellingPerProcess => (Spec => []LockInv)
<1> SUFFICES ASSUME OneSpellingPerProcess PROVE Spec => []LockInv
  OBVIOUS
<1>1. Init => LockInv
  BY ThreadsAssumption DEF Init, LockInv, Writing, Reading
<1>2. TypeOK /\ LockInv /\ [Next]_vars => LockInv'
  <2> SUFFICES ASSUME TypeOK, LockInv, [Next]_vars PROVE LockInv'
    OBVIOUS
  <2> USE DEF disk, locks
  <2>a. ProcOf \in [Thread -> Proc]
    BY ThreadsAssumption
  <2>1. CASE UNCHANGED vars
    BY <2>1 DEF vars, LockInv, Writing, Reading, Key
  <2>2. ASSUME NEW t \in Thread, Call(t) PROVE LockInv'
    <3>1. /\ \A u \in Thread : pc'[u] \notin {"idle", "enter"} => pc'[u] = pc[u]
          /\ mutex' = mutex /\ flock' = flock
      BY <2>2 DEF Call, TypeOK
    <3>2. QED
      BY <3>1, LeaveKeepsLocks
  <2>3. ASSUME NEW t \in Thread, EnterAppend(t) PROVE LockInv'
    BY <2>3, EnterKeepsLocks DEF EnterAppend
  <2>4. ASSUME NEW t \in Thread, LockExclusive(t) PROVE LockInv'
    <3>1. \A q \in Proc : q # ProcOf[t] => flock[q] = "none"
      BY <2>4 DEF LockExclusive, CanLockExclusive
    <3>2. \A u \in Thread : u # t =>
            ~Writing(u) /\ ~Reading(u) /\ pc'[u] = pc[u]
      BY <2>4, <2>a, <3>1, OneInside, ZenonT(60)
      DEF LockExclusive, LockInv, Writing, Reading, TypeOK
    <3>3. flock' = [flock EXCEPT ![ProcOf[t]] = "wr"] /\ mutex' = mutex
          /\ pc' = [pc EXCEPT ![t] = "write"] /\ pc[t] = "lock exclusive"
      BY <2>4 DEF LockExclusive
    <3>4. \A u \in Thread : pc'[u] \notin {"idle", "enter"} => mutex'[Key(u)] = u
      BY <3>3 DEF LockInv, TypeOK
    <3>5. \A u \in Thread :
            pc'[u] \notin {"idle", "enter", "lock exclusive", "lock shared", "parse"}
              => u = t
      BY <3>2, <3>3 DEF Writing, Reading, TypeOK
    <3>6. \A p, q \in Proc : p # q /\ flock'[p] = "wr" => flock'[q] = "none"
      BY <2>a, <3>1, <3>3 DEF TypeOK
    <3>7. pc'[t] = "write" /\ flock'[ProcOf[t]] = "wr"
      BY <2>a, <3>3 DEF TypeOK
    <3>8. QED
      BY <3>4, <3>5, <3>6, <3>7, LockInvPrimed
  <2>5. ASSUME NEW t \in Thread, Write(t) PROVE LockInv'
    <3>1. /\ pc[t] = "write" /\ mutex' = mutex /\ flock' = flock
          /\ \A u \in Thread : u # t => pc'[u] = pc[u]
          /\ pc'[t] \in {"write", "sync"}
      BY <2>5 DEF Write, TypeOK
    <3>2. \A u \in Thread : pc'[u] \notin {"idle", "enter"} => mutex'[Key(u)] = u
      BY <3>1 DEF LockInv
    <3>3. \A u \in Thread : pc'[u] \in {"write", "sync"} => flock'[ProcOf[u]] = "wr"
      BY <3>1 DEF LockInv, Writing
    <3>4. \A u \in Thread : pc'[u] = "locked shared" => flock'[ProcOf[u]] = "rd"
      BY <3>1 DEF LockInv, Reading
    <3>5. \A p, q \in Proc : p # q /\ flock'[p] = "wr" => flock'[q] = "none"
      BY <3>1 DEF LockInv
    <3>6. QED
      BY <3>2, <3>3, <3>4, <3>5, LockInvPrimed
  <2>6. ASSUME NEW t \in Thread,
               WriteFails(t) \/ Sync(t) \/ SyncFails(t) \/ Parse(t) \/ ProbeSize(t)
        PROVE  LockInv'
    BY <2>6, ReturnKeepsLocks DEF WriteFails, Sync, SyncFails, Parse, ProbeSize
  <2>7. ASSUME NEW t \in Thread, EnterRead(t) PROVE LockInv'
    <3>1. CASE exists
      BY <2>7, <3>1, EnterKeepsLocks DEF EnterRead
    <3>2. CASE ~exists
      <4>1. /\ pc[t] = "enter" /\ mutex[Key(t)] = "free" /\ flock' = flock
            /\ pc' = [pc EXCEPT ![t] = "idle"]
            /\ mutex' = [mutex EXCEPT ![Key(t)] = "free"]
        BY <2>7, <3>2 DEF EnterRead, Return
      <4>2. mutex' = mutex
        BY <4>1 DEF TypeOK
      <4>3. \A u \in Thread : pc'[u] \notin {"idle", "enter"} => pc'[u] = pc[u]
        BY <4>1 DEF TypeOK
      <4>4. QED
        BY <4>1, <4>2, <4>3, LeaveKeepsLocks
    <3>3. QED
      BY <3>1, <3>2
  <2>8. ASSUME NEW t \in Thread, LockShared(t) PROVE LockInv'
    <3>1. \A u \in Thread : u # t /\ ProcOf[u] = ProcOf[t] =>
            ~Writing(u) /\ ~Reading(u)
      BY <2>8, OneInside DEF LockShared, Writing, Reading
    <3>2. flock' = [flock EXCEPT ![ProcOf[t]] = "rd"] /\ mutex' = mutex
          /\ pc' = [pc EXCEPT ![t] = "locked shared"] /\ pc[t] = "lock shared"
      BY <2>8 DEF LockShared
    <3>3. \A u \in Thread : pc'[u] \notin {"idle", "enter"} => mutex'[Key(u)] = u
      BY <3>2 DEF LockInv, TypeOK
    <3>4. \A u \in Thread : pc'[u] \in {"write", "sync"} =>
            Writing(u) /\ ProcOf[u] # ProcOf[t]
      BY <3>1, <3>2 DEF Writing, TypeOK
    <3>5. \A u \in Thread : pc'[u] = "locked shared" =>
            u = t \/ (Reading(u) /\ ProcOf[u] # ProcOf[t])
      BY <3>1, <3>2 DEF Reading, TypeOK
    <3>6. \A p, q \in Proc : p # q /\ flock'[p] = "wr" => flock'[q] = "none"
      <4>1. \A q \in Proc : q # ProcOf[t] => flock[q] # "wr" /\ flock'[q] = flock[q]
        BY <2>8, <2>a, <3>2 DEF LockShared, CanLockShared, TypeOK
      <4>2. flock'[ProcOf[t]] = "rd"
        BY <2>a, <3>2 DEF TypeOK
      <4>3. QED
        BY <2>a, <4>1, <4>2
    <3>7. /\ \A u \in Thread : ProcOf[u] # ProcOf[t] =>
               flock'[ProcOf[u]] = flock[ProcOf[u]]
          /\ flock'[ProcOf[t]] = "rd"
      BY <2>a, <3>2 DEF TypeOK
    <3>8. \A u \in Thread : pc'[u] \in {"write", "sync"} => flock'[ProcOf[u]] = "wr"
      BY <3>4, <3>7 DEF LockInv
    <3>9. \A u \in Thread : pc'[u] = "locked shared" => flock'[ProcOf[u]] = "rd"
      BY <3>5, <3>7 DEF LockInv
    <3>10. QED
      BY <3>3, <3>6, <3>8, <3>9, LockInvPrimed
  <2>9. ASSUME NEW t \in Thread, Map(t) PROVE LockInv'
    <3>1. CASE file = <<>>
      BY <2>9, <3>1, ReturnKeepsLocks DEF Map
    <3>2. CASE file # <<>>
      <4>1. \A u \in Thread : u # t /\ ProcOf[u] = ProcOf[t] =>
              ~Writing(u) /\ ~Reading(u)
        BY <2>9, OneInside DEF Map, Writing, Reading
      <4>2. flock' = [flock EXCEPT ![ProcOf[t]] = "none"] /\ mutex' = mutex
            /\ pc' = [pc EXCEPT ![t] = "parse"] /\ pc[t] = "locked shared"
        BY <2>9, <3>2 DEF Map, Unlock
      <4>3. \A u \in Thread : pc'[u] \notin {"idle", "enter"} => mutex'[Key(u)] = u
        BY <4>2 DEF LockInv, TypeOK
      <4>4. \A u \in Thread : pc'[u] \in {"write", "sync", "locked shared"} =>
              /\ pc'[u] = pc[u] /\ flock'[ProcOf[u]] = flock[ProcOf[u]]
        BY <2>a, <4>1, <4>2 DEF Writing, Reading, TypeOK
      <4>5. \A p \in Proc : flock'[p] \in {flock[p], "none"}
        BY <2>a, <4>2 DEF TypeOK
      <4>6. \A u \in Thread : pc'[u] \in {"write", "sync"} => flock'[ProcOf[u]] = "wr"
        BY <4>4 DEF LockInv, Writing
      <4>7. \A u \in Thread : pc'[u] = "locked shared" => flock'[ProcOf[u]] = "rd"
        BY <4>4 DEF LockInv, Reading
      <4>8. \A p, q \in Proc : p # q /\ flock'[p] = "wr" => flock'[q] = "none"
        BY <4>5 DEF LockInv
      <4>9. QED
        BY <4>3, <4>6, <4>7, <4>8, LockInvPrimed
    <3>3. QED
      BY <3>1, <3>2
  <2>10. ASSUME NEW p \in Proc, Crash(p) PROVE LockInv'
    BY <2>10, KillKeepsLocks DEF Crash
  <2>11. ASSUME PowerLoss PROVE LockInv'
    BY <2>11, KillKeepsLocks DEF PowerLoss
  <2>12. ASSUME NEW t \in Thread, OpenFails(t) PROVE LockInv'
    <3>1. CASE pc[t] = "enter"
      <4>1. /\ mutex[Key(t)] = "free" /\ flock' = flock
            /\ pc' = [pc EXCEPT ![t] = "idle"]
            /\ mutex' = [mutex EXCEPT ![Key(t)] = "free"]
        BY <2>12, <3>1 DEF OpenFails, Return
      <4>2. mutex' = mutex
        BY <4>1 DEF TypeOK
      <4>3. \A u \in Thread : pc'[u] \notin {"idle", "enter"} => pc'[u] = pc[u]
        BY <4>1 DEF TypeOK
      <4>4. QED
        BY <4>1, <4>2, <4>3, LeaveKeepsLocks
    <3>2. CASE pc[t] # "enter"
      BY <2>12, <3>2, ReturnKeepsLocks DEF OpenFails
    <3>3. QED
      BY <3>1, <3>2
  <2>13. QED
    BY <2>1, <2>2, <2>3, <2>4, <2>5, <2>6, <2>7, <2>8, <2>9, <2>10, <2>11, <2>12
    DEF Next, AppendStep, ReadStep
<1>3. QED
  BY <1>1, <1>2, TypeCorrect, PTL DEF Spec

LEMMA Exclusion ==
  ASSUME OneSpellingPerProcess, LockInv
  PROVE  WriterExclusion
<1> SUFFICES ASSUME NEW t \in Thread, NEW u \in Thread, t # u, Writing(t)
             PROVE  ~Writing(u) /\ ~Reading(u)
  BY DEF WriterExclusion
<1>1. CASE ProcOf[t] = ProcOf[u]
  BY <1>1, OneInside DEF Writing, Reading
<1>2. CASE ProcOf[t] # ProcOf[u]
  BY <1>2, ThreadsAssumption DEF LockInv
<1>3. QED
  BY <1>1, <1>2

\* At most one thread of all processes writes, and none takes the length of
\* the file meanwhile, provided each process spells the path in one way.
THEOREM WritersExclude == OneSpellingPerProcess => (Spec => []WriterExclusion)
<1> SUFFICES ASSUME OneSpellingPerProcess PROVE Spec => []WriterExclusion
  OBVIOUS
<1>1. LockInv => WriterExclusion
  BY Exclusion
<1>2. QED
  BY <1>1, LockInvariant, PTL

-----------------------------------------------------------------------------
(* What was synced stays                                                   *)

\* The synced part is a part of the file, and a file with a synced part has a
\* durable directory entry: the first sync made one, and no step that keeps the
\* synced part takes it away.
DiskInv ==
  /\ synced <= Len(file)
  /\ synced # 0 => linked
  /\ linked => exists
  /\ ~exists => file = <<>>
  /\ \A t \in Thread : Appending(t) => exists

\* A longer file that starts with the old one starts with its synced part.
LEMMA SyncedIsKept ==
  ASSUME NEW f \in Seq(Cell), NEW g \in Seq(Cell), NEW n \in Nat, n <= Len(f)
  PROVE  /\ Len(f \o g) >= n
         /\ SubSeq(f \o g, 1, n) = SubSeq(f, 1, n)
<1>1. /\ f \o g \in Seq(Cell) /\ Len(f \o g) = Len(f) + Len(g)
      /\ \A i \in 1..Len(f) : (f \o g)[i] = f[i]
      /\ Len(f) \in Nat /\ Len(g) \in Nat
  BY ConcatProperties, LenProperties
<1>2. /\ \A i \in 1..n : f[i] \in Cell /\ (f \o g)[i] \in Cell
      /\ \A i \in 1..n : (f \o g)[i] = f[i]
  BY <1>1, ElementOfSeq
<1>3. /\ SubSeq(f, 1, n) \in Seq(Cell)
      /\ Len(SubSeq(f, 1, n)) = IF 1 <= n THEN n - 1 + 1 ELSE 0
      /\ \A i \in 1..(n - 1 + 1) : SubSeq(f, 1, n)[i] = f[1 + i - 1]
  BY <1>2, SubSeqProperties
<1>4. /\ SubSeq(f \o g, 1, n) \in Seq(Cell)
      /\ Len(SubSeq(f \o g, 1, n)) = IF 1 <= n THEN n - 1 + 1 ELSE 0
      /\ \A i \in 1..(n - 1 + 1) : SubSeq(f \o g, 1, n)[i] = (f \o g)[1 + i - 1]
  BY <1>2, SubSeqProperties
<1>5. /\ Len(SubSeq(f, 1, n)) = n /\ Len(SubSeq(f \o g, 1, n)) = n
      /\ \A i \in 1..n : SubSeq(f \o g, 1, n)[i] = SubSeq(f, 1, n)[i]
  BY <1>2, <1>3, <1>4
<1>6. SubSeq(f \o g, 1, n) = SubSeq(f, 1, n)
  BY <1>3, <1>4, <1>5, SeqEqual
<1>7. QED
  BY <1>1, <1>6

\* So does a prefix that is no shorter than it.
LEMMA SyncedSurvivesCut ==
  ASSUME NEW f \in Seq(Cell), NEW m \in Nat, NEW n \in m..Len(f)
  PROVE  /\ SubSeq(f, 1, n) \in Seq(Cell) /\ Len(SubSeq(f, 1, n)) = n
         /\ SubSeq(SubSeq(f, 1, n), 1, m) = SubSeq(f, 1, m)
<1>1. Len(f) \in Nat /\ n \in Nat /\ m <= n /\ n <= Len(f)
  BY LenProperties
<1>2. \A i \in 1..n : f[i] \in Cell
  BY <1>1, ElementOfSeq
<1>3. /\ SubSeq(f, 1, n) \in Seq(Cell)
      /\ Len(SubSeq(f, 1, n)) = n
      /\ \A i \in 1..n : SubSeq(f, 1, n)[i] = f[i]
  BY <1>1, <1>2, SubSeqProperties
<1>4. /\ SubSeq(f, 1, m) \in Seq(Cell)
      /\ Len(SubSeq(f, 1, m)) = m
      /\ \A i \in 1..m : SubSeq(f, 1, m)[i] = f[i]
  BY <1>1, <1>2, SubSeqProperties
<1>5. \A i \in 1..m : SubSeq(f, 1, n)[i] \in Cell
  BY <1>1, <1>2, <1>3
<1>6. /\ SubSeq(SubSeq(f, 1, n), 1, m) \in Seq(Cell)
      /\ Len(SubSeq(SubSeq(f, 1, n), 1, m)) = m
      /\ \A i \in 1..m : SubSeq(SubSeq(f, 1, n), 1, m)[i] = SubSeq(f, 1, n)[i]
  BY <1>1, <1>5, SubSeqProperties
<1>7. \A i \in 1..m : SubSeq(SubSeq(f, 1, n), 1, m)[i] = SubSeq(f, 1, m)[i]
  BY <1>1, <1>3, <1>4, <1>6
<1>8. QED
  BY <1>3, <1>4, <1>6, <1>7, SeqEqual

\* The step of OnlyGrows.
Grows == /\ Len(file') >= synced
         /\ SubSeq(file', 1, synced) = SubSeq(file, 1, synced)

LEMMA DiskStep ==
  ASSUME SyncLinks, TypeOK, DiskInv, [Next]_vars
  PROVE  DiskInv' /\ (Grows \/ UNCHANGED <<file, synced>>)
<1> USE DEF disk, locks
<1>a. file \in Seq(Cell) /\ Len(file) \in Nat /\ synced \in Nat
  BY LenProperties DEF TypeOK
<1>1. CASE UNCHANGED vars
  BY <1>1 DEF vars, DiskInv, Appending
<1>2. ASSUME UNCHANGED disk, \A t \in Thread : Appending(t)' => Appending(t)
      PROVE  DiskInv' /\ (Grows \/ UNCHANGED <<file, synced>>)
  BY <1>2 DEF DiskInv
<1>3. ASSUME NEW t \in Thread, Call(t) \/ LockExclusive(t) \/ WriteFails(t)
               \/ SyncFails(t) \/ OpenFails(t) \/ ReadStep(t)
      PROVE  DiskInv' /\ (Grows \/ UNCHANGED <<file, synced>>)
  <2>1. UNCHANGED disk
    BY <1>3 DEF Call, LockExclusive, WriteFails, SyncFails, OpenFails, ReadStep, EnterRead,
       LockShared, Map, Parse, ProbeSize
  <2>2. \/ pc[t] = "lock exclusive"
        \/ \E s \in {"enter", "idle", "lock shared", "locked shared", "parse"} :
             pc' = [pc EXCEPT ![t] = s]
    BY <1>3 DEF Call, LockExclusive, WriteFails, SyncFails, OpenFails, ReadStep, EnterRead,
       LockShared, Map, Parse, ProbeSize, Return
  <2>3. \A u \in Thread : u # t => pc'[u] = pc[u]
    BY <1>3 DEF Call, LockExclusive, WriteFails, SyncFails, OpenFails, ReadStep, EnterRead,
       LockShared, Map, Parse, ProbeSize, Return, TypeOK
  <2>4. \A u \in Thread : Appending(u)' => Appending(u)
    BY <2>2, <2>3 DEF Appending, TypeOK
  <2>5. QED
    BY <1>2, <2>1, <2>4
<1>4. ASSUME NEW t \in Thread, EnterAppend(t)
      PROVE  DiskInv' /\ (Grows \/ UNCHANGED <<file, synced>>)
  BY <1>4 DEF EnterAppend, DiskInv
<1>5. ASSUME NEW t \in Thread, Write(t)
      PROVE  DiskInv' /\ (Grows \/ UNCHANGED <<file, synced>>)
  <2>1. PICK n \in 1..Len(buf[t]) : PutCells(t, n)
    BY <1>5 DEF Write
  <2>2. buf[t] \in Seq(Cell) /\ Len(buf[t]) \in Nat
    BY LenProperties DEF TypeOK
  <2>3. SubSeq(buf[t], 1, n) \in Seq(Cell)
    BY <2>2, SubSeqType
  <2>4. Grows
    BY <1>a, <2>1, <2>3, SyncedIsKept DEF PutCells, Grows, DiskInv
  <2>5. exists /\ UNCHANGED <<exists, linked, synced>>
    BY <1>5 DEF Write, DiskInv, Appending
  <2>6. QED
    BY <2>4, <2>5 DEF DiskInv, Grows
<1>6. ASSUME NEW t \in Thread, Sync(t)
      PROVE  DiskInv' /\ (Grows \/ UNCHANGED <<file, synced>>)
  <2>1. file' = file /\ exists' = exists /\ synced' = Len(file) /\ linked'
    BY <1>6 DEF Sync
  <2>2. exists
    BY <1>6 DEF Sync, DiskInv, Appending
  <2>3. QED
    BY <1>a, <2>1, <2>2 DEF DiskInv, Grows
<1>7. ASSUME NEW p \in Proc, Crash(p)
      PROVE  DiskInv' /\ (Grows \/ UNCHANGED <<file, synced>>)
  BY <1>2, <1>7 DEF Crash, Kill, Appending, TypeOK
<1>8. ASSUME PowerLoss
      PROVE  DiskInv' /\ (Grows \/ UNCHANGED <<file, synced>>)
  <2>1. \A t \in Thread : ~Appending(t)'
    BY <1>8, ThreadsAssumption DEF PowerLoss, Kill, Appending
  <2>2. ASSUME NEW n \in synced..Len(file), file' = SubSeq(file, 1, n),
               synced' = Len(file'), linked' = exists, exists' = exists
        PROVE  DiskInv' /\ Grows
    <3>1. Len(file') = n /\ Grows
      BY <1>a, <2>2, SyncedSurvivesCut DEF Grows
    <3>2. ~exists => n = 0
      BY <1>a DEF DiskInv
    <3>3. ~exists => file' = <<>>
      BY <1>a, <2>2, <3>2, SubSeqEmpty
    <3>4. QED
      BY <1>a, <2>1, <2>2, <3>1, <3>2, <3>3 DEF DiskInv
  <2>3. ASSUME ~linked, exists' = FALSE, linked' = FALSE, file' = <<>>, synced' = 0
        PROVE  DiskInv' /\ Grows
    <3>1. synced = 0
      BY <2>3 DEF DiskInv
    <3>2. Len(<<>>) = 0 /\ SubSeq(<<>>, 1, 0) = <<>> /\ SubSeq(file, 1, 0) = <<>>
      BY SubSeqEmpty
    <3>3. QED
      BY <2>1, <2>3, <3>1, <3>2 DEF DiskInv, Grows
  <2>4. QED
    BY <1>8, <2>2, <2>3 DEF PowerLoss
<1>9. QED
  BY <1>1, <1>3, <1>4, <1>5, <1>6, <1>7, <1>8 DEF Next, AppendStep

\* If syncing a new file makes its directory entry durable, nothing that was
\* synced is ever erased, by any call, crash or power loss.
THEOREM SyncedStays == SyncLinks => (Spec => OnlyGrows)
<1> SUFFICES ASSUME SyncLinks PROVE Spec => OnlyGrows
  OBVIOUS
<1>1. Init => DiskInv
  BY EmptySeq DEF Init, DiskInv, Appending
<1>2. TypeOK /\ DiskInv /\ [Next]_vars => DiskInv'
  BY DiskStep
<1>3. TypeOK /\ DiskInv /\ [Next]_vars => [Grows]_<<file, synced>>
  BY DiskStep
<1>4. Spec => [][Grows]_<<file, synced>>
  BY <1>1, <1>2, <1>3, TypeCorrect, PTL DEF Spec
<1>5. QED
  BY <1>4, PTL DEF OnlyGrows, Grows

-----------------------------------------------------------------------------
(* Induction from the end of a file.  The parser is a recursive function over *)
(* the offsets, and what holds of it holds at an offset if it holds at all    *)
(* later ones: a set of offsets with that property has no last missing one.   *)

\* A set of numbers up to n has a largest.
LEMMA Largest ==
  ASSUME NEW n \in Nat, NEW S \in SUBSET (0..n), S # {}
  PROVE  \E m \in S : \A k \in S : k <= m
<1> DEFINE R == StrictSubsetOrdering(0..n)
           T == {k..n : k \in S}
<1>1. IsFiniteSet(0..n)
  BY FS_Interval
<1>2. IsWellFoundedOn(R, SUBSET (0..n))
  BY <1>1, FS_StrictSubsetOrderingWellFounded, FS_FiniteSubsetsOfFinite
<1>3. T \subseteq SUBSET (0..n) /\ T # {}
  <2>1. \A k \in S : k..n \in SUBSET (0..n)
    OBVIOUS
  <2>2. PICK k \in S : TRUE
    OBVIOUS
  <2>3. k..n \in T
    OBVIOUS
  <2>4. QED
    BY <2>1, <2>3
<1>4. PICK x \in T : \A y \in T : ~(<<y, x>> \in R)
  <2> HIDE DEF R, T
  <2>1. QED
    BY <1>2, <1>3, WFMin
<1>5. PICK m \in S : x = m..n
  BY <1>4
<1>6. ASSUME NEW k \in S PROVE k <= m
  <2>1. SUFFICES ASSUME k > m PROVE FALSE
    OBVIOUS
  <2>2. k..n \in T /\ k..n \subseteq m..n /\ m \in m..n /\ m \notin k..n
    BY <2>1
  <2>3. k..n \in SUBSET (0..n) /\ m..n \in SUBSET (0..n)
    OBVIOUS
  <2>4. <<k..n, m..n>> \in R
    BY <2>2, <2>3 DEF StrictSubsetOrdering
  <2>5. QED
    BY <1>4, <1>5, <2>2, <2>4
<1>7. QED
  BY <1>6

\* So a set that has n, and each offset whose later ones it has, has them all.
LEMMA Downwards ==
  ASSUME NEW n \in Nat, NEW S, n \in S,
         \A o \in 0..n : o # n /\ (\A k \in (o + 1)..n : k \in S) => o \in S
  PROVE  \A o \in 0..n : o \in S
<1> DEFINE B == {o \in 0..n : o \notin S}
<1>1. SUFFICES ASSUME B # {} PROVE FALSE
  OBVIOUS
<1>2. PICK m \in B : \A k \in B : k <= m
  <2>1. B \in SUBSET (0..n)
    OBVIOUS
  <2> HIDE DEF B
  <2>2. QED
  BY <1>1, <2>1, Largest
<1>3. \A k \in (m + 1)..n : k \in S
  BY <1>2
<1>4. QED
  BY <1>2, <1>3

-----------------------------------------------------------------------------
(* The walk over the frames *)

Record == Payload \cup {Garbled}
Outcome == [whole : BOOLEAN, records : Seq(Record)]
Ended == [whole |-> TRUE, records |-> <<>>]
Damaged == [whole |-> FALSE, records |-> <<>>]

\* The record of the frame at o before those of what follows.
First(f, o) == <<RecordOf(SubSeq(f, o + 3, FrameEnd(f, o)))>>
Before(f, o, rest) == [rest EXCEPT !.records = First(f, o) \o @]

Walk(f) == CHOOSE walk : walk = [o \in 0..Len(f) |->
  IF o = Len(f) THEN Ended
  ELSE IF FrameAt(f, o) THEN Before(f, o, walk[FrameEnd(f, o)]) ELSE Damaged]

\* Parsed is this walk from behind the magic.
LEMMA ParsedWalks ==
  ASSUME NEW f
  PROVE  Parsed(f) = IF Len(f) = 0 THEN Ended
                     ELSE IF Len(f) < 2 \/ SubSeq(f, 1, 2) # Magic THEN Damaged
                     ELSE Walk(f)[2]
BY DEF Parsed, Walk, Ended, Damaged, Before, First

\* A frame ends behind its offset, in the file.
LEMMA FrameForward ==
  ASSUME NEW f \in Seq(Cell), NEW o \in 0..Len(f), FrameAt(f, o)
  PROVE  /\ FrameEnd(f, o) \in (o + 3)..Len(f)
         /\ f[o + 1].of \in Payload /\ Size[f[o + 1].of] \in Nat \ {0}
         /\ FrameEnd(f, o) = o + 2 + Size[f[o + 1].of]
<1>1. f[o + 1].of \in Payload /\ FrameEnd(f, o) <= Len(f)
  BY DEF FrameAt, HeaderAt
<1>2. Size[f[o + 1].of] \in Nat \ {0}
  BY <1>1, RecordsAssumption
<1>3. PICK s \in Nat \ {0} : s = Size[f[o + 1].of]
  BY <1>2
<1>4. FrameEnd(f, o) = o + 2 + s /\ o \in Nat /\ Len(f) \in Nat
  BY <1>3, LenProperties DEF FrameEnd
<1>5. QED
  BY <1>1, <1>3, <1>4

\* There is such a walk.
LEMMA WalkExists ==
  ASSUME NEW f \in Seq(Cell)
  PROVE  \E walk : walk = [o \in 0..Len(f) |->
           IF o = Len(f) THEN Ended
           ELSE IF FrameAt(f, o) THEN Before(f, o, walk[FrameEnd(f, o)]) ELSE Damaged]
<1> DEFINE n == Len(f)
           From(k, w) == w = [o \in k..n |->
             IF o = n THEN Ended
             ELSE IF FrameAt(f, o) THEN Before(f, o, w[FrameEnd(f, o)]) ELSE Damaged]
           S == {k \in 0..n : \E w : From(k, w)}
<1>1. n \in Nat
  BY LenProperties
<1> HIDE DEF n
<1>2. n \in S
  <2>1. n..n = {n}
    BY <1>1
  <2>2. From(n, [o \in n..n |-> Ended])
    BY <2>1
  <2>3. n \in 0..n /\ \E w : From(n, w)
    <3> HIDE DEF From
    <3>1. QED
      BY <1>1, <2>2
  <2>4. QED
    BY <2>3
<1>3. ASSUME NEW k \in 0..n, k # n, \A j \in (k + 1)..n : j \in S PROVE k \in S
  <2>1. k + 1 \in (k + 1)..n
    BY <1>1, <1>3
  <2>2. PICK w : From(k + 1, w)
    BY <1>3, <2>1
  <2> DEFINE v == [o \in k..n |->
               IF o = k
               THEN IF FrameAt(f, o) THEN Before(f, o, w[FrameEnd(f, o)]) ELSE Damaged
               ELSE w[o]]
  <2>3. \A o \in k..n : FrameAt(f, o) /\ o # n =>
          FrameEnd(f, o) \in (k + 1)..n /\ v[FrameEnd(f, o)] = w[FrameEnd(f, o)]
    <3>1. SUFFICES ASSUME NEW o \in k..n, FrameAt(f, o)
          PROVE  FrameEnd(f, o) \in (k + 1)..n /\ v[FrameEnd(f, o)] = w[FrameEnd(f, o)]
      OBVIOUS
    <3>2. FrameEnd(f, o) \in (o + 3)..n
      BY <1>1, <3>1, FrameForward DEF n
    <3>3. PICK e \in (k + 1)..n : e = FrameEnd(f, o) /\ e # k
      BY <1>1, <3>2
    <3>4. v[e] = w[e]
      BY <3>3
    <3>5. QED
      BY <3>3, <3>4
  <2>4. \A o \in (k + 1)..n : w[o] =
          (IF o = n THEN Ended
           ELSE IF FrameAt(f, o) THEN Before(f, o, w[FrameEnd(f, o)]) ELSE Damaged)
    BY <2>2
  <2>5. \A o \in k..n : v[o] =
          (IF o = n THEN Ended
           ELSE IF FrameAt(f, o) THEN Before(f, o, v[FrameEnd(f, o)]) ELSE Damaged)
    <3>1. SUFFICES ASSUME NEW o \in k..n
          PROVE  v[o] = (IF o = n THEN Ended
                         ELSE IF FrameAt(f, o) THEN Before(f, o, v[FrameEnd(f, o)]) ELSE Damaged)
      OBVIOUS
    <3>2. CASE o = k
      BY <1>3, <2>3, <3>2
    <3>3. CASE o # k
      <4>1. o \in (k + 1)..n /\ v[o] = w[o]
        BY <1>1, <3>3
      <4>2. QED
        BY <2>3, <2>4, <4>1
    <3>4. QED
      BY <3>2, <3>3
  <2>6. From(k, v)
    <3>1. v = [o \in k..n |-> v[o]]
      OBVIOUS
    <3> HIDE DEF v
    <3>2. QED
      BY <2>5, <3>1
  <2>7. QED
    BY <2>6
<1>4. \A o \in 0..n : o \in S
  <2> HIDE DEF S
  <2>1. QED
    BY <1>1, <1>2, <1>3, Downwards
<1>5. 0 \in S
  <2>1. 0 \in 0..n
    BY <1>1
  <2> HIDE DEF S
  <2>2. QED
    BY <1>4, <2>1
<1>6. QED
  BY <1>5 DEF n

\* So the walk obeys its equation.
LEMMA WalkStep ==
  ASSUME NEW f \in Seq(Cell), NEW o \in 0..Len(f)
  PROVE  Walk(f)[o] = IF o = Len(f) THEN Ended
                      ELSE IF FrameAt(f, o) THEN Before(f, o, Walk(f)[FrameEnd(f, o)])
                      ELSE Damaged
<1>1. Walk(f) = [i \in 0..Len(f) |->
        IF i = Len(f) THEN Ended
        ELSE IF FrameAt(f, i) THEN Before(f, i, Walk(f)[FrameEnd(f, i)]) ELSE Damaged]
  BY WalkExists, Zenon DEF Walk
<1>2. QED
  BY <1>1, Zenon

-----------------------------------------------------------------------------
(* What the walk returns *)

LEMMA RecordOfType == \A cells : RecordOf(cells) \in Record
BY DEF RecordOf, Record

LEMMA BodyType ==
  ASSUME NEW p \in Payload
  PROVE  /\ Body(p) \in Seq(Cell) /\ Len(Body(p)) = Size[p] /\ Size[p] \in Nat \ {0}
         /\ \A i \in 1..Size[p] : Body(p)[i] = [of |-> p, at |-> 2 + i]
<1>1. PICK n \in Nat \ {0} : n = Size[p]
  BY RecordsAssumption
<1>2. 2 + n - 3 + 1 = n /\ \A i \in 1..n : 3 + i - 1 = 2 + i /\ 2 + i \in Nat \ {0}
  BY <1>1
<1>3. Body(p) = [i \in 1..n |-> [of |-> p, at |-> 3 + i - 1]]
  BY <1>1, <1>2 DEF Body, Cells
<1>4. Body(p) = [i \in 1..n |-> [of |-> p, at |-> 2 + i]]
  BY <1>2, <1>3
<1>5. \A i \in 1..n : [of |-> p, at |-> 2 + i] \in Cell
  BY <1>2 DEF Cell
<1>6. Body(p) \in [1..n -> Cell]
  BY <1>4, <1>5
<1>7. Body(p) \in Seq(Cell) /\ DOMAIN Body(p) = 1..n
  BY <1>1, <1>6, SeqDef
<1>8. Len(Body(p)) = n
  BY <1>1, <1>6, <1>7, LenProperties
<1>9. QED
  BY <1>1, <1>4, <1>7, <1>8

LEMMA RecordOfBody ==
  ASSUME NEW p \in Payload
  PROVE  RecordOf(Body(p)) = p
<1>1. PICK q \in Payload : q = RecordOf(Body(p)) /\ Body(p) = Body(q)
  BY DEF RecordOf
<1>2. 1 \in 1..Size[p] /\ 1 \in 1..Size[q]
  BY BodyType
<1>3. Body(p)[1] = [of |-> p, at |-> 2 + 1] /\ Body(q)[1] = [of |-> q, at |-> 2 + 1]
  BY <1>2, BodyType
<1>4. Body(p)[1].of = p /\ Body(q)[1].of = q
  BY <1>3
<1>5. QED
  BY <1>1, <1>4

LEMMA FirstType ==
  ASSUME NEW f, NEW o
  PROVE  First(f, o) \in Seq(Record) /\ Len(First(f, o)) = 1
BY RecordOfType DEF First

LEMMA BeforeType ==
  ASSUME NEW f, NEW o, NEW rest \in Outcome
  PROVE  /\ Before(f, o, rest) \in Outcome /\ Before(f, o, rest).whole = rest.whole
         /\ Before(f, o, rest).records = First(f, o) \o rest.records
<1>1. PICK s \in Seq(Record) : s = First(f, o)
  BY FirstType
<1>2. Before(f, o, rest) = [rest EXCEPT !.records = s \o rest.records]
  BY <1>1 DEF Before
<1>3. rest.records \in Seq(Record)
  BY DEF Outcome, Record
<1>4. s \o rest.records \in Seq(Record)
  BY <1>3, ConcatProperties
<1>5. QED
  BY <1>1, <1>2, <1>4 DEF Outcome, Record

LEMMA EndedType == Ended \in Outcome /\ Damaged \in Outcome
BY EmptySeq DEF Ended, Damaged, Outcome

LEMMA WalkType ==
  ASSUME NEW f \in Seq(Cell)
  PROVE  \A o \in 0..Len(f) : Walk(f)[o] \in Outcome
<1> DEFINE S == {o \in 0..Len(f) : Walk(f)[o] \in Outcome}
<1>1. Len(f) \in Nat
  BY LenProperties
<1>2. Len(f) \in S
  BY <1>1, WalkStep, EndedType
<1>3. ASSUME NEW o \in 0..Len(f), o # Len(f), \A k \in (o + 1)..Len(f) : k \in S PROVE o \in S
  <2>1. CASE FrameAt(f, o)
    <3>1. FrameEnd(f, o) \in (o + 1)..Len(f)
      BY <1>1, <2>1, FrameForward
    <3>2. Walk(f)[FrameEnd(f, o)] \in Outcome
      BY <1>3, <3>1
    <3>3. Walk(f)[o] = Before(f, o, Walk(f)[FrameEnd(f, o)])
      BY <1>3, <2>1, WalkStep
    <3>4. QED
      BY <3>2, <3>3, BeforeType
  <2>2. CASE ~FrameAt(f, o)
    BY <1>3, <2>2, WalkStep, EndedType
  <2>3. QED
    BY <2>1, <2>2
<1>4. \A o \in 0..Len(f) : o \in S
  <2> HIDE DEF S
  <2>1. QED
    BY <1>1, <1>2, <1>3, Downwards
<1>5. QED
  BY <1>4

LEMMA ParsedType ==
  ASSUME NEW f \in Seq(Cell)
  PROVE  Parsed(f) \in Outcome
<1>1. Len(f) \in Nat
  BY LenProperties
<1>2. Len(f) >= 2 => Walk(f)[2] \in Outcome
  BY <1>1, WalkType
<1>3. QED
  BY <1>1, <1>2, EndedType, ParsedWalks

-----------------------------------------------------------------------------
(* A file that goes on after g *)

LEMMA FrameStays ==
  ASSUME NEW g \in Seq(Cell), NEW h \in Seq(Cell), NEW o \in 0..Len(g), FrameAt(g, o)
  PROVE  /\ FrameAt(g \o h, o) /\ FrameEnd(g \o h, o) = FrameEnd(g, o)
         /\ SubSeq(g \o h, o + 3, FrameEnd(g, o)) = SubSeq(g, o + 3, FrameEnd(g, o))
<1>1. PICK e \in Nat, m \in Nat, n \in Nat : e = FrameEnd(g, o) /\ m = Len(g) /\ n = Len(h)
  BY FrameForward, LenProperties
<1>2. o + 3 <= e /\ e <= m /\ o \in Nat
  BY <1>1, FrameForward
<1>3. Len(g \o h) = m + n
  BY <1>1, ConcatProperties
<1>4. o + 1 \in 1..(m + n) /\ o + 2 \in 1..(m + n) /\ o + 1 <= m /\ o + 2 <= m
  BY <1>2
<1>5. (g \o h)[o + 1] = g[o + 1] /\ (g \o h)[o + 2] = g[o + 2]
  BY <1>1, <1>4, ConcatProperties
<1>6. o + 2 <= m + n /\ e <= m + n
  BY <1>2, <1>4
<1>7. FrameEnd(g \o h, o) = e
  BY <1>1, <1>5 DEF FrameEnd
<1>8. FrameAt(g \o h, o)
  BY <1>3, <1>5, <1>6, <1>7 DEF FrameAt, HeaderAt
<1>9. o + 3 \in 1..m /\ e \in 1..m
  BY <1>2
<1>10. SubSeq(g \o h, o + 3, e) = SubSeq(g, o + 3, e)
  BY <1>1, <1>9, SubSeqOfConcat1
<1>11. QED
  BY <1>1, <1>7, <1>8, <1>10

LEMMA ThreeParts ==
  ASSUME NEW r \in Seq(Record), NEW a \in Seq(Record), NEW b \in Seq(Record)
  PROVE  r \o (a \o b) = (r \o a) \o b
BY ConcatAssociative

\* What was parsed to the end of g is parsed before what follows.
LEMMA WalkGoesOn ==
  ASSUME NEW g \in Seq(Cell), NEW h \in Seq(Cell)
  PROVE  \A o \in 0..Len(g) : Walk(g)[o].whole =>
           /\ Walk(g \o h)[o].whole = Walk(g \o h)[Len(g)].whole
           /\ Walk(g \o h)[o].records = Walk(g)[o].records \o Walk(g \o h)[Len(g)].records
<1>1. g \o h \in Seq(Cell) /\ Len(g \o h) = Len(g) + Len(h)
  BY ConcatProperties
<1>2. PICK f \in Seq(Cell), n \in Nat : f = g \o h /\ n = Len(g) /\ n <= Len(f) /\ Len(f) \in Nat
  <2>1. Len(g) \in Nat /\ Len(h) \in Nat /\ Len(g) <= Len(g \o h) /\ Len(g \o h) \in Nat
    BY <1>1, LenProperties
  <2>2. QED
    BY <1>1, <2>1
<1> DEFINE S == {o \in 0..n : Walk(g)[o].whole =>
                   /\ Walk(f)[o].whole = Walk(f)[n].whole
                   /\ Walk(f)[o].records = Walk(g)[o].records \o Walk(f)[n].records}
<1>3. n \in 0..n /\ \A o \in 0..n : o \in 0..Len(f) /\ o \in 0..Len(g)
  BY <1>2
<1>4. Walk(f)[n] \in Outcome /\ Walk(f)[n].records \in Seq(Record)
  <2>1. Walk(f)[n] \in Outcome
    BY <1>3, WalkType
  <2>2. QED
    BY <2>1 DEF Outcome, Record
<1>5. n \in S
  <2>1. n \in 0..n /\ Walk(g)[n] = Ended
    BY <1>2, <1>3, WalkStep
  <2>2. <<>> \o Walk(f)[n].records = Walk(f)[n].records
    BY <1>4, ConcatEmptySeq
  <2>3. Walk(g)[n].records = <<>>
    BY <2>1 DEF Ended
  <2>4. QED
    BY <1>3, <2>2, <2>3
<1>6. ASSUME NEW o \in 0..n, o # n, \A k \in (o + 1)..n : k \in S PROVE o \in S
  <2>1. SUFFICES ASSUME Walk(g)[o].whole
        PROVE  /\ Walk(f)[o].whole = Walk(f)[n].whole
               /\ Walk(f)[o].records = Walk(g)[o].records \o Walk(f)[n].records
    OBVIOUS
  <2>2. FrameAt(g, o)
    BY <1>2, <1>3, <1>6, <2>1, WalkStep DEF Damaged
  <2>3. PICK e : e = FrameEnd(g, o)
    OBVIOUS
  <2>4. e \in (o + 1)..n /\ e \in 0..n /\ e \in 0..Len(f)
    BY <1>2, <1>3, <2>2, <2>3, FrameForward
  <2>5. PICK r \in Seq(Record) : r = First(g, o)
    BY FirstType
  <2>6. Walk(g)[e] \in Outcome /\ Walk(f)[e] \in Outcome
    BY <1>2, <2>4, WalkType
  <2>7. PICK x \in Outcome, y \in Outcome : x = Walk(g)[e] /\ y = Walk(f)[e]
    BY <2>6
  <2>8. Walk(g)[o].whole = x.whole /\ Walk(g)[o].records = r \o x.records
    <3>1. Walk(g)[o] = Before(g, o, x)
      BY <1>2, <1>3, <1>6, <2>2, <2>3, <2>7, WalkStep
    <3>2. Before(g, o, x).whole = x.whole /\ Before(g, o, x).records = r \o x.records
      <4>1. Before(g, o, x).records = First(g, o) \o x.records /\ Before(g, o, x).whole = x.whole
        BY BeforeType
      <4>2. QED
        BY <2>5, <4>1
    <3>3. QED
      BY <3>1, <3>2
  <2>9. /\ FrameAt(f, o) /\ FrameEnd(f, o) = e
        /\ SubSeq(f, o + 3, e) = SubSeq(g, o + 3, e)
    BY <1>2, <1>3, <2>2, <2>3, FrameStays
  <2>10. Walk(f)[o] = Before(f, o, y)
    <3>1. o # Len(f) /\ o \in 0..Len(f)
      BY <1>2, <1>3, <1>6
    <3>2. QED
      BY <2>9, <2>7, <3>1, WalkStep
  <2>11. Walk(f)[o].whole = y.whole /\ Walk(f)[o].records = r \o y.records
    <3>1. First(f, o) = r
      BY <2>3, <2>5, <2>9 DEF First
    <3>2. Before(f, o, y).whole = y.whole /\ Before(f, o, y).records = r \o y.records
      <4>1. Before(f, o, y).records = First(f, o) \o y.records /\ Before(f, o, y).whole = y.whole
        BY BeforeType
      <4>2. QED
        BY <3>1, <4>1
    <3>3. QED
      BY <2>10, <3>2
  <2>12. y.whole = Walk(f)[n].whole /\ y.records = x.records \o Walk(f)[n].records
    BY <1>6, <2>1, <2>4, <2>8, <2>7
  <2>13. PICK a \in Seq(Record), b \in Seq(Record) : a = x.records /\ b = Walk(f)[n].records
    BY <1>4, <2>7 DEF Outcome, Record
  <2>14. r \o (a \o b) = (r \o a) \o b
    BY ThreeParts
  <2>15. QED
    BY <2>8, <2>11, <2>12, <2>13, <2>14
<1>7. \A o \in 0..n : o \in S
  <2> HIDE DEF S
  <2>1. QED
    BY <1>2, <1>5, <1>6, Downwards
<1>8. QED
  BY <1>2, <1>7

-----------------------------------------------------------------------------
(* What an append does to the records                                      *)

\* A file that is whole and not empty starts with the magic.
LEMMA WholeBegins ==
  ASSUME NEW g \in Seq(Cell), Parsed(g).whole, g # <<>>
  PROVE  /\ Len(g) >= 2 /\ Len(g) \in Nat /\ SubSeq(g, 1, 2) = Magic
         /\ Parsed(g) = Walk(g)[2]
<1>1. Len(g) \in Nat \ {0}
  BY EmptySeq
<1>2. Damaged.whole = FALSE
  BY DEF Damaged
<1>3. QED
  BY <1>1, <1>2, ParsedWalks

\* What was parsed to the end of g is still parsed, before what follows it.
LEMMA ParsedGoesOn ==
  ASSUME NEW g \in Seq(Cell), NEW h \in Seq(Cell), Parsed(g).whole, g # <<>>
  PROVE  /\ Parsed(g \o h).whole = Walk(g \o h)[Len(g)].whole
         /\ Parsed(g \o h).records = Parsed(g).records \o Walk(g \o h)[Len(g)].records
<1>1. PICK m \in Nat, n \in Nat : m = Len(g) /\ n = Len(h) /\ m >= 2
  BY WholeBegins, LenProperties
<1>2. Len(g \o h) = m + n
  BY <1>1, ConcatProperties
<1>3. 1 \in 1..m /\ 2 \in 1..m /\ 2 \in 0..m /\ m + n # 0 /\ ~(m + n < 2)
  BY <1>1
<1>4. SubSeq(g \o h, 1, 2) = Magic
  BY <1>1, <1>3, SubSeqOfConcat1, WholeBegins
<1>5. Parsed(g \o h) = Walk(g \o h)[2]
  BY <1>2, <1>3, <1>4, ParsedWalks
<1>6. Parsed(g) = Walk(g)[2]
  BY WholeBegins
<1>7. 2 \in 0..Len(g) /\ Walk(g)[2].whole
  BY <1>1, <1>3, <1>6
<1>8. \A o \in 0..Len(g) : Walk(g)[o].whole =>
        /\ Walk(g \o h)[o].whole = Walk(g \o h)[Len(g)].whole
        /\ Walk(g \o h)[o].records = Walk(g)[o].records \o Walk(g \o h)[Len(g)].records
  BY WalkGoesOn
<1>9. QED
  BY <1>5, <1>6, <1>7, <1>8

LEMMA RecordCells ==
  ASSUME NEW p \in Payload
  PROVE  /\ Size[p] \in Nat \ {0}
         /\ MakeRecord(p) \in Seq(Cell) /\ Len(MakeRecord(p)) = 2 + Size[p]
         /\ \A i \in 1..(2 + Size[p]) : MakeRecord(p)[i] = [of |-> p, at |-> i]
         /\ SubSeq(MakeRecord(p), 3, 2 + Size[p]) = Body(p)
<1>1. PICK s \in Nat \ {0} : s = Size[p]
  BY RecordsAssumption
<1>2. PICK n \in Nat \ {0} : n = 2 + s
  BY <1>1
<1>3. n - 1 + 1 = n /\ \A i \in 1..n : 1 + i - 1 = i /\ i \in Nat \ {0}
  BY <1>2
<1>4. MakeRecord(p) = [i \in 1..n |-> [of |-> p, at |-> 1 + i - 1]]
  BY <1>1, <1>2, <1>3 DEF MakeRecord, Cells
<1>5. MakeRecord(p) = [i \in 1..n |-> [of |-> p, at |-> i]]
  BY <1>3, <1>4
<1>6. \A i \in 1..n : [of |-> p, at |-> i] \in Cell
  BY <1>3 DEF Cell
<1>7. MakeRecord(p) \in [1..n -> Cell]
  BY <1>5, <1>6
<1>8. MakeRecord(p) \in Seq(Cell) /\ DOMAIN MakeRecord(p) = 1..n
  BY <1>2, <1>7, SeqDef
<1>9. Len(MakeRecord(p)) = n
  BY <1>2, <1>7, <1>8, LenProperties
<1>10. SubSeq(MakeRecord(p), 3, n) = Body(p)
  <2>1. \A i \in 3..n : MakeRecord(p)[i] \in Cell
    BY <1>2, <1>5, <1>6
  <2>2. n - 3 + 1 = s /\ 3 <= n /\ 3 \in Int /\ n \in Int
    BY <1>1, <1>2
  <2>3. /\ SubSeq(MakeRecord(p), 3, n) \in Seq(Cell)
        /\ Len(SubSeq(MakeRecord(p), 3, n)) = s
        /\ \A i \in 1..s : SubSeq(MakeRecord(p), 3, n)[i] = MakeRecord(p)[3 + i - 1]
    BY <2>1, <2>2, SubSeqProperties
  <2>4. \A i \in 1..s : 3 + i - 1 = 2 + i /\ 2 + i \in 1..n
    BY <1>1, <1>2
  <2>5. \A i \in 1..s : SubSeq(MakeRecord(p), 3, n)[i] = [of |-> p, at |-> 2 + i]
    BY <1>5, <2>3, <2>4
  <2>6. \A i \in 1..s : SubSeq(MakeRecord(p), 3, n)[i] = Body(p)[i]
    BY <1>1, <2>5, BodyType
  <2>7. Body(p) \in Seq(Cell) /\ Len(Body(p)) = s
    BY <1>1, BodyType
  <2>8. QED
    BY <2>3, <2>6, <2>7, SeqEqual
<1>11. QED
  BY <1>1, <1>2, <1>5, <1>8, <1>9, <1>10

\* The first k cells of a record behind g.
LEMMA PartCells ==
  ASSUME NEW g \in Seq(Cell), NEW p \in Payload, NEW k \in 0..(2 + Size[p])
  PROVE  /\ SubSeq(MakeRecord(p), 1, k) \in Seq(Cell)
         /\ g \o SubSeq(MakeRecord(p), 1, k) \in Seq(Cell)
         /\ Len(g \o SubSeq(MakeRecord(p), 1, k)) = Len(g) + k
         /\ \A i \in 1..k : (g \o SubSeq(MakeRecord(p), 1, k))[Len(g) + i] = [of |-> p, at |-> i]
<1>1. PICK r \in Seq(Cell), s \in Nat, m \in Nat :
        /\ r = MakeRecord(p) /\ s = 2 + Size[p] /\ m = Len(g)
        /\ Len(r) = s /\ \A i \in 1..s : r[i] = [of |-> p, at |-> i]
  <2>1. 2 + Size[p] \in Nat /\ Len(g) \in Nat
    BY RecordCells, LenProperties
  <2>2. QED
    BY <2>1, RecordCells
<1>2. k \in Nat /\ k <= s /\ 1 \in Int /\ k \in Int /\ k - 1 + 1 = k
  BY <1>1
<1>3. \A i \in 1..k : i \in 1..s /\ r[i] \in Cell /\ 1 + i - 1 = i
  BY <1>1, <1>2, ElementOfSeq
<1>4. /\ SubSeq(r, 1, k) \in Seq(Cell)
      /\ Len(SubSeq(r, 1, k)) = IF 1 <= k THEN k ELSE 0
      /\ \A i \in 1..k : SubSeq(r, 1, k)[i] = r[1 + i - 1]
  BY <1>2, <1>3, SubSeqProperties
<1>5. PICK h \in Seq(Cell) : h = SubSeq(r, 1, k) /\ Len(h) = k
  <2>1. Len(SubSeq(r, 1, k)) = k
    BY <1>2, <1>4
  <2>2. QED
    BY <1>4, <2>1
<1>6. \A i \in 1..k : h[i] = [of |-> p, at |-> i]
  BY <1>1, <1>3, <1>4, <1>5
<1>7. /\ g \o h \in Seq(Cell) /\ Len(g \o h) = m + k
      /\ \A i \in 1..(m + k) : (g \o h)[i] = IF i <= m THEN g[i] ELSE h[i - m]
  BY <1>1, <1>5, ConcatProperties
<1>8. \A i \in 1..k : m + i \in 1..(m + k) /\ ~(m + i <= m) /\ (m + i) - m = i
  BY <1>1, <1>2
<1>9. \A i \in 1..k : (g \o h)[m + i] = [of |-> p, at |-> i]
  BY <1>6, <1>7, <1>8
<1>10. QED
  BY <1>1, <1>4, <1>5, <1>7, <1>9

LEMMA Behind ==
  ASSUME NEW m \in Nat, NEW s \in Nat \ {0}, NEW k \in Nat, k = 2 + s
  PROVE  /\ m + 3 \in Nat /\ m + k \in Nat
         /\ m + 3 \in m + 1 .. m + k /\ m + k \in m + 1 .. m + k
         /\ (m + 3) - m = 3 /\ (m + k) - m = k
OBVIOUS

\* A whole record behind g is parsed from there to its end.
LEMMA WalkRecord ==
  ASSUME NEW g \in Seq(Cell), NEW p \in Payload
  PROVE  /\ g \o MakeRecord(p) \in Seq(Cell)
         /\ Len(g \o MakeRecord(p)) = Len(g) + (2 + Size[p])
         /\ Walk(g \o MakeRecord(p))[Len(g)] = [whole |-> TRUE, records |-> <<p>>]
<1>1. PICK s \in Nat \ {0}, k \in Nat, m \in Nat : s = Size[p] /\ k = 2 + s /\ m = Len(g)
  BY RecordCells, LenProperties
<1>2. SubSeq(MakeRecord(p), 1, k) = MakeRecord(p)
  BY <1>1, RecordCells, SubSeqFull
<1>3. k \in 0..(2 + Size[p])
  BY <1>1
<1>4. PICK f \in Seq(Cell) : f = g \o MakeRecord(p) /\ Len(f) = m + k
                             /\ \A i \in 1..k : f[m + i] = [of |-> p, at |-> i]
  <2>1. PICK h : h = SubSeq(MakeRecord(p), 1, k)
    OBVIOUS
  <2>2. /\ g \o h \in Seq(Cell) /\ Len(g \o h) = Len(g) + k
        /\ \A i \in 1..k : (g \o h)[Len(g) + i] = [of |-> p, at |-> i]
    <3>1. /\ g \o SubSeq(MakeRecord(p), 1, k) \in Seq(Cell)
          /\ Len(g \o SubSeq(MakeRecord(p), 1, k)) = Len(g) + k
          /\ \A i \in 1..k :
               (g \o SubSeq(MakeRecord(p), 1, k))[Len(g) + i] = [of |-> p, at |-> i]
      BY <1>3, PartCells
    <3>2. QED
      BY <2>1, <3>1
  <2>3. QED
    BY <1>1, <1>2, <2>1, <2>2
<1>5. 1 \in 1..k /\ 2 \in 1..k /\ m + 2 <= m + k /\ m \in 0..(m + k) /\ m # m + k
      /\ m + 2 + s = m + k
  BY <1>1
<1>6. f[m + 1] = [of |-> p, at |-> 1] /\ f[m + 2] = [of |-> p, at |-> 2]
  BY <1>4, <1>5
<1>7. FrameEnd(f, m) = m + k
  BY <1>1, <1>5, <1>6 DEF FrameEnd
<1>8. FrameAt(f, m)
  <2>1. f[m + 1].of = p /\ f[m + 1].at = 1 /\ f[m + 2].of = p /\ f[m + 2].at = 2
    BY <1>6
  <2>2. m + k <= m + k
    BY <1>1
  <2>3. QED
    BY <1>4, <1>5, <1>7, <2>1, <2>2 DEF FrameAt, HeaderAt
<1>9. SubSeq(f, m + 3, m + k) = Body(p)
  <2>1. PICK r \in Seq(Cell) : r = MakeRecord(p) /\ Len(r) = k /\ SubSeq(r, 3, k) = Body(p)
    BY <1>1, RecordCells
  <2>2. PICK a \in Nat, b \in Nat : /\ a = m + 3 /\ b = m + k
                                    /\ a \in m + 1 .. m + k /\ b \in m + 1 .. m + k
                                    /\ a - m = 3 /\ b - m = k
    <3>1. /\ m + 3 \in Nat /\ m + k \in Nat
          /\ m + 3 \in m + 1 .. m + k /\ m + k \in m + 1 .. m + k
          /\ (m + 3) - m = 3 /\ (m + k) - m = k
      <4>1. k = 2 + s
        BY <1>1
      <4>2. QED
        BY <4>1, Behind, Zenon
    <3>2. QED
      BY <3>1
  <2>3. a \in Len(g) + 1 .. Len(g) + Len(r) /\ b \in Len(g) + 1 .. Len(g) + Len(r)
        /\ a - Len(g) = 3 /\ b - Len(g) = k
    <3>1. Len(g) = m /\ Len(r) = k
      BY <1>1, <2>1
    <3>2. QED
      BY <2>2, <3>1, Zenon
  <2>4. SubSeq(g \o r, a, b) = SubSeq(r, a - Len(g), b - Len(g))
    BY <2>3, SubSeqOfConcat2
  <2>5. QED
    BY <1>4, <2>1, <2>2, <2>3, <2>4
<1>10. First(f, m) = <<p>>
  BY <1>7, <1>9, RecordOfBody DEF First
<1>11. Walk(f)[m + k] = Ended
  <2>1. m + k \in 0..Len(f)
    <3>1. Len(f) = m + k /\ m + k \in Nat
      BY <1>4
    <3>2. QED
      BY <3>1
  <2>2. QED
    BY <1>4, <2>1, WalkStep
<1>12. Walk(f)[m] = Before(f, m, Ended)
  <2>1. m \in 0..Len(f) /\ m # Len(f)
    BY <1>4, <1>5
  <2>2. QED
    BY <1>7, <1>8, <1>11, <2>1, WalkStep
<1>13. Before(f, m, Ended) = [whole |-> TRUE, records |-> <<p>>]
  <2>1. <<p>> \o <<>> = <<p>>
    OBVIOUS
  <2>2. QED
    <3>1. /\ Before(f, m, Ended) \in Outcome
          /\ Before(f, m, Ended).whole = Ended.whole
          /\ Before(f, m, Ended).records = First(f, m) \o Ended.records
      BY EndedType, BeforeType
    <3>2. Ended.whole = TRUE /\ Ended.records = <<>>
      BY DEF Ended
    <3>3. PICK x \in Outcome : x = Before(f, m, Ended) /\ x.whole = TRUE /\ x.records = <<p>>
      BY <1>10, <2>1, <3>1, <3>2
    <3>4. x = [whole |-> TRUE, records |-> <<p>>]
      BY <3>3 DEF Outcome
    <3>5. QED
      BY <3>3, <3>4
<1>14. QED
  BY <1>1, <1>4, <1>12, <1>13

\* A part of one is not parsed.
LEMMA WalkPart ==
  ASSUME NEW g \in Seq(Cell), NEW p \in Payload, NEW k \in 1..(1 + Size[p])
  PROVE  Walk(g \o SubSeq(MakeRecord(p), 1, k))[Len(g)] = Damaged
<1>1. PICK s \in Nat \ {0}, m \in Nat : s = Size[p] /\ m = Len(g)
  BY RecordCells, LenProperties
<1>2. k \in 0..(2 + Size[p]) /\ k \in Nat /\ k >= 1 /\ k <= 1 + s
  BY <1>1
<1>3. PICK f \in Seq(Cell) : f = g \o SubSeq(MakeRecord(p), 1, k) /\ Len(f) = m + k
                             /\ \A i \in 1..k : f[m + i] = [of |-> p, at |-> i]
  <2>1. /\ g \o SubSeq(MakeRecord(p), 1, k) \in Seq(Cell)
        /\ Len(g \o SubSeq(MakeRecord(p), 1, k)) = Len(g) + k
        /\ \A i \in 1..k :
             (g \o SubSeq(MakeRecord(p), 1, k))[Len(g) + i] = [of |-> p, at |-> i]
    BY <1>2, PartCells
  <2>2. PICK f : f = g \o SubSeq(MakeRecord(p), 1, k)
    OBVIOUS
  <2>3. QED
    BY <1>1, <2>1, <2>2
<1>4. m \in 0..(m + k) /\ m # m + k
  BY <1>1, <1>2
<1>5. ~FrameAt(f, m)
  <2>1. CASE k = 1
    <3>1. ~(m + 2 <= m + k)
      BY <1>1, <2>1
    <3>2. QED
      BY <1>3, <3>1 DEF FrameAt, HeaderAt
  <2>2. CASE k # 1
    <3>1. f[m + 1] = [of |-> p, at |-> 1]
      <4>1. 1 \in 1..k
        BY <1>2
      <4>2. QED
        BY <1>3, <4>1
    <3>2. FrameEnd(f, m) = m + 2 + s
      BY <1>1, <3>1 DEF FrameEnd
    <3>3. ~(m + 2 + s <= m + k)
      BY <1>1, <1>2
    <3>4. QED
      BY <1>3, <3>2, <3>3 DEF FrameAt
  <2>3. QED
    BY <2>1, <2>2
<1>6. QED
  BY <1>1, <1>3, <1>4, <1>5, WalkStep

LEMMA MagicCells ==
  /\ Magic \in Seq(Cell) /\ Len(Magic) = 2 /\ Magic # <<>>
  /\ Magic[1] = [of |-> "magic", at |-> 1] /\ Magic[2] = [of |-> "magic", at |-> 2]
  /\ SubSeq(Magic, 1, 2) = Magic
<1>1. 2 - 1 + 1 = 2 /\ 1 + 1 - 1 = 1 /\ 1 + 2 - 1 = 2 /\ 1..2 = {1, 2}
  OBVIOUS
<1>2. Magic = [i \in 1..2 |-> [of |-> "magic", at |-> 1 + i - 1]]
  BY <1>1 DEF Magic, Cells
<1>3. \A i \in 1..2 : [of |-> "magic", at |-> 1 + i - 1] \in Cell
  BY DEF Cell
<1>4. Magic \in [1..2 -> Cell]
  BY <1>2, <1>3
<1>5. Magic \in Seq(Cell) /\ DOMAIN Magic = 1..2
  BY <1>4, SeqDef
<1>6. Len(Magic) = 2
  BY <1>4, <1>5, LenProperties
<1>7. Magic[1] = [of |-> "magic", at |-> 1] /\ Magic[2] = [of |-> "magic", at |-> 2]
  BY <1>1, <1>2
<1>8. SubSeq(Magic, 1, 2) = Magic
  BY <1>5, <1>6, SubSeqFull
<1>9. Magic # <<>>
  BY <1>6, EmptySeq
<1>10. QED
  BY <1>5, <1>6, <1>7, <1>8, <1>9

LEMMA MagicParsed == Parsed(Magic) = Ended /\ Parsed(<<>>) = Ended
<1>1. Len(Magic) = 2 /\ Magic \in Seq(Cell) /\ 2 \in 0..Len(Magic)
  BY MagicCells
<1>2. Walk(Magic)[2] = Ended
  BY <1>1, WalkStep
<1>3. QED
  BY <1>1, <1>2, MagicCells, EmptySeq, ParsedWalks

\* A record written behind a whole file is the last of its records.
LEMMA RecordEnters ==
  ASSUME NEW g \in Seq(Cell), NEW p \in Payload, Parsed(g).whole, g # <<>>
  PROVE  /\ Parsed(g \o MakeRecord(p)).whole
         /\ Parsed(g \o MakeRecord(p)).records = Append(Parsed(g).records, p)
<1>1. PICK r \in Seq(Cell) : r = MakeRecord(p)
  BY RecordCells
<1>2. Walk(g \o r)[Len(g)].whole /\ Walk(g \o r)[Len(g)].records = <<p>>
  <2>1. Walk(g \o r)[Len(g)] = [whole |-> TRUE, records |-> <<p>>]
    BY <1>1, WalkRecord
  <2>2. QED
    BY <2>1
<1>3. Parsed(g \o r).whole /\ Parsed(g \o r).records = Parsed(g).records \o <<p>>
  BY <1>2, ParsedGoesOn
<1>4. Parsed(g).records \in Seq(Record) /\ p \in Record
  BY ParsedType DEF Outcome, Record
<1>5. QED
  BY <1>1, <1>3, <1>4, AppendIsConcat

\* A part of a record adds nothing to the records.
LEMMA PartAddsNothing ==
  ASSUME NEW g \in Seq(Cell), NEW p \in Payload, Parsed(g).whole, g # <<>>,
         NEW k \in 0..(1 + Size[p])
  PROVE  Parsed(g \o SubSeq(MakeRecord(p), 1, k)).records = Parsed(g).records
<1>1. PICK s \in Nat \ {0} : s = Size[p]
  BY RecordCells
<1>2. Parsed(g).records \in Seq(Record)
  BY ParsedType DEF Outcome, Record
<1>3. CASE k = 0
  <2>1. SubSeq(MakeRecord(p), 1, k) = <<>>
    BY <1>3, SubSeqEmpty
  <2>2. g \o <<>> = g
    BY ConcatEmptySeq
  <2>3. QED
    BY <2>1, <2>2
<1>4. CASE k # 0
  <2>1. k \in 1..(1 + Size[p]) /\ k \in 0..(2 + Size[p])
    BY <1>1, <1>4
  <2>2. PICK h \in Seq(Cell) : h = SubSeq(MakeRecord(p), 1, k)
    BY <2>1, PartCells
  <2>3. Walk(g \o h)[Len(g)].records = <<>>
    BY <2>1, <2>2, WalkPart DEF Damaged
  <2>4. Parsed(g \o h).records = Parsed(g).records \o <<>>
    BY <2>3, ParsedGoesOn
  <2>5. QED
    BY <1>2, <2>2, <2>4, ConcatEmptySeq
<1>5. QED
  BY <1>3, <1>4

LEMMA ShorterPart ==
  ASSUME NEW f \in Seq(Cell), NEW b \in Seq(Cell), NEW g \in Seq(Cell), NEW r \in Seq(Cell),
         f \o b = g \o r, Len(f) >= Len(g)
  PROVE  /\ Len(f) - Len(g) \in 0..Len(r)
         /\ f = g \o SubSeq(r, 1, Len(f) - Len(g))
         /\ b # <<>> => Len(f) - Len(g) < Len(r)
<1>1. PICK x \in Nat, y \in Nat, m \in Nat, n \in Nat, k \in Nat :
        /\ x = Len(f) /\ y = Len(b) /\ m = Len(g) /\ n = Len(r)
        /\ k = Len(f) - Len(g) /\ x = m + k /\ x + y = m + n /\ k <= n
  <2>1. PICK x \in Nat, y \in Nat, m \in Nat, n \in Nat :
          x = Len(f) /\ y = Len(b) /\ m = Len(g) /\ n = Len(r)
    BY LenProperties
  <2>2. Len(f \o b) = x + y /\ Len(g \o r) = m + n /\ x >= m
    BY <2>1, ConcatProperties
  <2>3. x - m \in Nat /\ x = m + (x - m) /\ x + y = m + n /\ x - m <= n
    BY <2>2
  <2>4. QED
    BY <2>1, <2>3
<1>2. /\ \A i \in 1..(x + y) : (f \o b)[i] = IF i <= x THEN f[i] ELSE b[i - x]
      /\ \A i \in 1..(m + n) : (g \o r)[i] = IF i <= m THEN g[i] ELSE r[i - m]
  BY <1>1, ConcatProperties
<1>3. /\ k \in 0..n /\ 1 \in Int /\ k \in Int /\ k - 1 + 1 = k
      /\ \A i \in 1..k : i \in 1..n /\ 1 + i - 1 = i
  BY <1>1
<1>4. PICK h \in Seq(Cell) : /\ h = SubSeq(r, 1, k) /\ Len(h) = k
                             /\ \A i \in 1..k : h[i] = r[i]
  <2>1. \A i \in 1..k : r[i] \in Cell
    BY <1>1, <1>3, ElementOfSeq
  <2>2. /\ SubSeq(r, 1, k) \in Seq(Cell)
        /\ Len(SubSeq(r, 1, k)) = IF 1 <= k THEN k ELSE 0
        /\ \A i \in 1..k : SubSeq(r, 1, k)[i] = r[1 + i - 1]
    BY <1>3, <2>1, SubSeqProperties
  <2>3. (IF 1 <= k THEN k ELSE 0) = k
    BY <1>1
  <2>4. QED
    BY <1>3, <2>2, <2>3
<1>5. /\ g \o h \in Seq(Cell) /\ Len(g \o h) = x
      /\ \A i \in 1..x : (g \o h)[i] = IF i <= m THEN g[i] ELSE h[i - m]
  BY <1>1, <1>4, ConcatProperties
<1>6. \A i \in 1..x : f[i] = (g \o h)[i]
  <2>1. SUFFICES ASSUME NEW i \in 1..x PROVE f[i] = (g \o h)[i]
    OBVIOUS
  <2>2. i \in 1..(x + y) /\ i \in 1..(m + n) /\ i <= x /\ (~(i <= m) => i - m \in 1..k)
    BY <1>1
  <2>3. f[i] = (f \o b)[i] /\ (f \o b)[i] = (g \o r)[i]
    BY <1>2, <2>2
  <2>4. CASE i <= m
    BY <1>2, <1>5, <2>2, <2>3, <2>4
  <2>5. CASE ~(i <= m)
    BY <1>2, <1>4, <1>5, <2>2, <2>3, <2>5
  <2>6. QED
    BY <2>4, <2>5
<1>7. f = g \o h
  BY <1>1, <1>5, <1>6, SeqEqual
<1>8. b # <<>> => k < n
  <2>1. b # <<>> => y # 0
    BY <1>1, EmptySeq
  <2>2. QED
    BY <1>1, <2>1
<1>9. QED
  BY <1>1, <1>3, <1>4, <1>7, <1>8

\* While a record is being written, the records are those before it.
BeingWritten(f, b, g, p) ==
  /\ f \in Seq(Cell) /\ b \in Seq(Cell) /\ g \in Seq(Cell) /\ p \in Payload
  /\ Parsed(g).whole /\ g # <<>> /\ f \o b = g \o MakeRecord(p) /\ b # <<>>
  /\ Len(f) >= Len(g) \/ g = Magic

LEMMA RecordsSoFar ==
  ASSUME NEW f, NEW b, NEW g, NEW p, BeingWritten(f, b, g, p)
  PROVE  Parsed(f).records = Parsed(g).records
<1>1. /\ f \in Seq(Cell) /\ b \in Seq(Cell) /\ g \in Seq(Cell) /\ p \in Payload
      /\ Parsed(g).whole /\ g # <<>> /\ f \o b = g \o MakeRecord(p) /\ b # <<>>
      /\ Len(f) >= Len(g) \/ g = Magic
  BY DEF BeingWritten
<1>2. CASE Len(f) >= Len(g)
  <2>1. PICK s \in Nat \ {0} : s = Size[p]
    BY <1>1, RecordCells
  <2>2. PICK r \in Seq(Cell) : r = MakeRecord(p) /\ Len(r) = 2 + s
    BY <1>1, <2>1, RecordCells
  <2>3. /\ Len(f) - Len(g) \in 0..Len(r) /\ Len(f) - Len(g) < Len(r)
        /\ f = g \o SubSeq(r, 1, Len(f) - Len(g))
    <3>1. f \o b = g \o r /\ Len(f) >= Len(g)
      BY <1>1, <1>2, <2>2
    <3>2. /\ Len(f) - Len(g) \in 0..Len(r)
          /\ f = g \o SubSeq(r, 1, Len(f) - Len(g))
          /\ b # <<>> => Len(f) - Len(g) < Len(r)
      <4>1. PICK x \in Seq(Cell), y \in Seq(Cell), z \in Seq(Cell) : x = f /\ y = b /\ z = g
        BY <1>1
      <4>2. x \o y = z \o r /\ Len(x) >= Len(z)
        BY <3>1, <4>1
      <4>3. /\ Len(x) - Len(z) \in 0..Len(r)
            /\ x = z \o SubSeq(r, 1, Len(x) - Len(z))
            /\ y # <<>> => Len(x) - Len(z) < Len(r)
        BY <4>2, ShorterPart, Zenon
      <4>4. QED
        BY <4>1, <4>3
    <3>3. QED
      BY <1>1, <3>2
  <2>4. PICK k \in 0..Len(r) : f = g \o SubSeq(r, 1, k) /\ k < Len(r)
    BY <2>3
  <2>5. k \in 0..(1 + Size[p])
    BY <2>1, <2>2, <2>4
  <2>6. QED
    BY <1>1, <2>2, <2>4, <2>5, PartAddsNothing
<1>3. CASE ~(Len(f) >= Len(g))
  <2>1. g = Magic /\ Len(g) = 2 /\ Len(f) \in Nat
    BY <1>1, <1>3, MagicCells, LenProperties
  <2>2. Parsed(f) = Ended \/ Parsed(f) = Damaged
    BY <1>1, <1>3, <2>1, ParsedWalks
  <2>3. QED
    BY <2>1, <2>2, MagicParsed DEF Ended, Damaged
<1>4. QED
  BY <1>2, <1>3

\* The body of a record that is a payload's holds no header cell.
LEMMA NoHeaderInside ==
  ASSUME NEW f \in Seq(Cell), NEW a \in Nat, NEW e \in Nat, a + 3 <= e, e <= Len(f),
         RecordOf(SubSeq(f, a + 3, e)) # Garbled, NEW i \in (a + 3)..e
  PROVE  f[i].at # 1
<1>1. PICK q \in Payload : SubSeq(f, a + 3, e) = Body(q)
  BY DEF RecordOf
<1>2. PICK n \in Nat, j \in Nat \ {0}, m \in Nat :
        n = Len(f) /\ m = a + 3 /\ i = m + j - 1 /\ j \in 1..(e - m + 1) /\ m <= e /\ m >= 1
  <2>1. Len(f) \in Nat /\ i - (a + 3) + 1 \in Nat \ {0} /\ a + 3 \in Nat
    BY LenProperties
  <2>2. i = (a + 3) + (i - (a + 3) + 1) - 1 /\ i - (a + 3) + 1 \in 1..(e - (a + 3) + 1)
    OBVIOUS
  <2>3. QED
    BY <2>1, <2>2
<1>3. \A k \in m..e : k \in 1..n /\ f[k] \in Cell
  BY <1>2, ElementOfSeq
<1>4. /\ Len(SubSeq(f, m, e)) = e - m + 1
      /\ SubSeq(f, m, e)[j] = f[m + j - 1]
  BY <1>2, <1>3, SubSeqProperties
<1>5. PICK s \in Nat \ {0} : s = Size[q] /\ s = e - m + 1
  BY <1>1, <1>2, <1>4, BodyType
<1>6. Body(q)[j] = [of |-> q, at |-> 2 + j]
  BY <1>2, <1>5, BodyType
<1>7. f[i] = [of |-> q, at |-> 2 + j]
  BY <1>1, <1>2, <1>4, <1>6
<1>8. 2 + j # 1
  BY <1>2
<1>9. QED
  BY <1>7, <1>8

\* If a file that ends with the bytes of p's record holds nothing but whole
\* payloads, p is its last record: no frame before it can reach into it.
LEMMA LastRecord ==
  ASSUME NEW g \in Seq(Cell), NEW p \in Payload, Intact(g \o MakeRecord(p))
  PROVE  /\ Len(Parsed(g \o MakeRecord(p)).records) \in Nat \ {0}
         /\ Parsed(g \o MakeRecord(p)).records[Len(Parsed(g \o MakeRecord(p)).records)] = p
<1>1. PICK s \in Nat \ {0}, m \in Nat, n \in Nat, f \in Seq(Cell) :
        /\ s = Size[p] /\ m = Len(g) /\ f = g \o MakeRecord(p)
        /\ n = Len(f) /\ n = m + 2 + s
        /\ f[m + 1] = [of |-> p, at |-> 1]
  <2>1. PICK s \in Nat \ {0}, m \in Nat, k \in Nat : s = Size[p] /\ m = Len(g) /\ k = 2 + s
    BY RecordCells, LenProperties
  <2>2. SubSeq(MakeRecord(p), 1, k) = MakeRecord(p) /\ k \in 0..(2 + Size[p]) /\ 1 \in 1..k
    BY <2>1, RecordCells, SubSeqFull
  <2>3. PICK h : h = SubSeq(MakeRecord(p), 1, k)
    OBVIOUS
  <2>4. /\ g \o h \in Seq(Cell) /\ Len(g \o h) = Len(g) + k
        /\ \A i \in 1..k : (g \o h)[Len(g) + i] = [of |-> p, at |-> i]
    <3>1. /\ g \o SubSeq(MakeRecord(p), 1, k) \in Seq(Cell)
          /\ Len(g \o SubSeq(MakeRecord(p), 1, k)) = Len(g) + k
          /\ \A i \in 1..k :
               (g \o SubSeq(MakeRecord(p), 1, k))[Len(g) + i] = [of |-> p, at |-> i]
      <4>1. k \in 0..(2 + Size[p])
        BY <2>2
      <4>2. QED
        BY <4>1, PartCells
    <3>2. QED
      BY <2>3, <3>1
  <2>5. /\ g \o h \in Seq(Cell) /\ Len(g \o h) = m + k
        /\ (g \o h)[m + 1] = [of |-> p, at |-> 1]
    BY <2>1, <2>2, <2>4
  <2>6. m + k \in Nat /\ m + k = m + 2 + s
    BY <2>1
  <2>7. QED
    BY <2>1, <2>2, <2>3, <2>5, <2>6
<1>2. Walk(f)[m] = [whole |-> TRUE, records |-> <<p>>]
  BY <1>1, WalkRecord
<1> DEFINE Good(x) == x.whole /\ \A i \in 1..Len(x.records) : x.records[i] # Garbled
           Last(x) == Len(x.records) \in Nat \ {0} /\ x.records[Len(x.records)] = p
           S == {o \in 0..m : Good(Walk(f)[o]) => Last(Walk(f)[o])}
<1>3. m \in S
  <2>1. Walk(f)[m].records = <<p>>
    BY <1>2
  <2>2. m \in 0..m
    BY <1>1
  <2>3. Len(<<p>>) = 1 /\ 1 \in Nat \ {0} /\ <<p>>[1] = p
    OBVIOUS
  <2>4. Last(Walk(f)[m])
    BY <2>1, <2>3
  <2>5. QED
    BY <2>2, <2>4
<1>4. ASSUME NEW o \in 0..m, o # m, \A k \in (o + 1)..m : k \in S PROVE o \in S
  <2>1. SUFFICES ASSUME Good(Walk(f)[o]) PROVE Last(Walk(f)[o])
    OBVIOUS
  <2>2. o \in 0..n /\ o # n /\ o \in Nat
    BY <1>1, <1>4
  <2>3. FrameAt(f, o)
    <3>1. Walk(f)[o].whole /\ Damaged.whole = FALSE
      BY <2>1 DEF Damaged
    <3>2. ~FrameAt(f, o) => Walk(f)[o] = Damaged
      BY <1>1, <2>2, WalkStep
    <3>3. QED
      BY <3>1, <3>2
  <2>4. PICK e \in Nat : e = FrameEnd(f, o) /\ o + 3 <= e /\ e <= n
    <3>1. FrameEnd(f, o) \in (o + 3)..n
      BY <1>1, <2>2, <2>3, FrameForward
    <3>2. \A e \in (o + 3)..n : e \in Nat /\ o + 3 <= e /\ e <= n
      BY <1>1, <2>2
    <3>3. QED
      BY <3>1, <3>2
  <2>5. PICK x \in Outcome : x = Walk(f)[e]
    <3>1. e \in 0..n
      BY <1>1, <2>4
    <3>2. QED
      BY <1>1, <3>1, WalkType
  <2>6. Walk(f)[o] = Before(f, o, x)
    BY <1>1, <2>2, <2>3, <2>4, <2>5, WalkStep
  <2>7. PICK r \in Seq(Record), a \in Seq(Record), l \in Nat :
          /\ r = First(f, o) /\ Len(r) = 1 /\ a = x.records /\ l = Len(a)
          /\ Len(r \o a) = 1 + l
          /\ \A i \in 1..(1 + l) : (r \o a)[i] = IF i <= 1 THEN r[i] ELSE a[i - 1]
    <3>1. PICK r \in Seq(Record) : r = First(f, o) /\ Len(r) = 1
      BY FirstType
    <3>2. PICK a \in Seq(Record), l \in Nat : a = x.records /\ l = Len(a)
      BY LenProperties DEF Outcome, Record
    <3>3. /\ Len(r \o a) = Len(r) + Len(a)
          /\ \A i \in 1..(Len(r) + Len(a)) :
               (r \o a)[i] = IF i <= Len(r) THEN r[i] ELSE a[i - Len(r)]
      BY ConcatProperties
    <3>4. /\ Len(r \o a) = 1 + l
          /\ \A i \in 1..(1 + l) : (r \o a)[i] = IF i <= 1 THEN r[i] ELSE a[i - 1]
      <4>1. Len(r) = 1 /\ Len(a) = l
        BY <3>1, <3>2
      <4>2. QED
        BY <3>3, <4>1, Zenon
    <3>5. QED
      BY <3>1, <3>2, <3>4
  <2>8. Walk(f)[o].whole = x.whole /\ Walk(f)[o].records = r \o a
    <3>1. Before(f, o, x).records = First(f, o) \o x.records /\ Before(f, o, x).whole = x.whole
      BY BeforeType
    <3>2. QED
      BY <2>6, <2>7, <3>1
  <2>9. x.whole /\ \A i \in 1..(1 + l) : (r \o a)[i] # Garbled
    BY <2>1, <2>7, <2>8
  <2>10. RecordOf(SubSeq(f, o + 3, e)) # Garbled
    <3>1. 1 \in 1..(1 + l)
      BY <2>7
    <3>2. r[1] # Garbled
      BY <2>7, <2>9, <3>1
    <3>3. r = <<RecordOf(SubSeq(f, o + 3, e))>>
      BY <2>4, <2>7 DEF First
    <3>4. QED
      BY <3>2, <3>3
  <2>11. e <= m
    <3>1. SUFFICES ASSUME ~(e <= m) PROVE FALSE
      OBVIOUS
    <3>2. f[o + 2].at = 2 /\ f[m + 1].at = 1
      BY <1>1, <2>3 DEF FrameAt, HeaderAt
    <3>3. o + 2 # m + 1
      BY <3>2
    <3>4. m + 1 \in (o + 3)..e
      <4>1. o \in Nat /\ m \in Nat /\ o <= m /\ o # m
        BY <1>4
      <4>2. e \in Nat
        BY <2>2, <2>4
      <4>3. QED
        BY <3>1, <3>3, <4>1, <4>2
    <3>5. QED
      BY <1>1, <2>2, <2>4, <2>10, <3>2, <3>4, NoHeaderInside
  <2>12. e \in S
    <3>1. e \in (o + 1)..m
      BY <1>1, <2>2, <2>4, <2>11
    <3>2. QED
      BY <1>4, <3>1
  <2>13. Good(x)
    <3>1. \A i \in 1..l : a[i] # Garbled
      <4>1. SUFFICES ASSUME NEW i \in 1..l PROVE a[i] # Garbled
        OBVIOUS
      <4>2. PICK j \in 1..(1 + l) : ~(j <= 1) /\ j - 1 = i
        <5>1. i + 1 \in 1..(1 + l) /\ ~(i + 1 <= 1) /\ (i + 1) - 1 = i
          BY <2>7
        <5>2. QED
          BY <5>1
      <4>3. (r \o a)[j] # Garbled
        BY <2>9
      <4>4. (r \o a)[j] = a[i]
        BY <2>7, <4>2
      <4>5. QED
        BY <4>3, <4>4
    <3>2. QED
      BY <2>7, <2>9, <3>1
  <2>14. l \in Nat \ {0} /\ a[l] = p
    BY <2>5, <2>7, <2>12, <2>13
  <2>15. 1 + l \in Nat \ {0} /\ (r \o a)[1 + l] = p
    <3>1. 1 + l \in 1..(1 + l) /\ ~(1 + l <= 1) /\ (1 + l) - 1 = l /\ 1 + l \in Nat \ {0}
      BY <2>14
    <3>2. QED
      BY <2>7, <2>14, <3>1
  <2>16. QED
    BY <2>7, <2>8, <2>15
<1>5. \A o \in 0..m : o \in S
  <2> HIDE DEF S
  <2>1. QED
    BY <1>1, <1>3, <1>4, Downwards
<1>6. Parsed(f) \in Outcome /\ Good(Parsed(f))
  <2>1. PICK x \in Outcome : x = Parsed(f)
    BY ParsedType
  <2>2. x.whole /\ \A i \in DOMAIN x.records : x.records[i] # Garbled
    BY <1>1, <2>1 DEF Intact
  <2>3. DOMAIN x.records = 1..Len(x.records)
    BY <2>1, LenProperties DEF Outcome
  <2>4. QED
    BY <2>1, <2>2, <2>3
<1>7. f # <<>>
  <2>1. n # 0
    BY <1>1
  <2>2. QED
    BY <1>1, <2>1, EmptySeq
<1>8. Parsed(f) = Walk(f)[2] /\ SubSeq(f, 1, 2) = Magic /\ n >= 2
  BY <1>1, <1>6, <1>7, WholeBegins
<1>9. 2 \in 0..m
  <2>1. f[1] = [of |-> "magic", at |-> 1] /\ f[2].at = 2
    <3>1. /\ \A i \in 1..2 : f[i] \in Cell
          /\ 2 - 1 + 1 = 2 /\ 1 \in 1..2 /\ 2 \in 1..2 /\ 1 + 1 - 1 = 1 /\ 1 + 2 - 1 = 2
      <4>1. \A i \in 1..2 : i \in 1..n
        BY <1>8
      <4>2. \A i \in 1..n : f[i] \in Cell
        BY <1>1, ElementOfSeq
      <4>3. QED
        BY <4>1, <4>2
    <3>2. SubSeq(f, 1, 2)[1] = f[1] /\ SubSeq(f, 1, 2)[2] = f[2]
      BY <3>1, SubSeqProperties
    <3>3. Magic[2].at = 2
      BY MagicCells
    <3>4. QED
      BY <1>8, <3>2, <3>3, MagicCells
  <2>2. m + 1 # 1
    <3>1. SUFFICES ASSUME m + 1 = 1 PROVE FALSE
      OBVIOUS
    <3>2. f[1] = [of |-> p, at |-> 1]
      BY <1>1, <3>1
    <3>3. p = "magic"
      BY <2>1, <3>2
    <3>4. QED
      BY <3>3, RecordsAssumption
  <2>3. m + 1 # 2
    <3>1. f[m + 1].at = 1
      BY <1>1
    <3>2. QED
      BY <2>1, <3>1
  <2>4. QED
    BY <1>1, <2>2, <2>3
<1>10. Last(Parsed(f))
  BY <1>5, <1>6, <1>8, <1>9
<1>11. QED
  BY <1>1, <1>10

-----------------------------------------------------------------------------
(* An acknowledged record stays readable *)

Ack == [payload : Payload, index : Nat, intact : BOOLEAN]

\* The bytes a writer has put in the file and those it has left end with its
\* record, and nothing is left once it syncs.
WriterInv ==
  \A t \in Thread : Writing(t) =>
    /\ pc[t] = "sync" => buf[t] = <<>>
    /\ \E g \in Seq(Cell) : file \o buf[t] = g \o MakeRecord(call[t].payload)

\* f is undamaged and a's record is the last in it.
EndsWith(f, a) ==
  /\ Parsed(f).whole /\ f # <<>>
  /\ a.index \in Nat \ {0} /\ Len(Parsed(f).records) = a.index
  /\ Parsed(f).records[a.index] = a.payload

\* What the file was when an append was acknowledged is a part of what is
\* synced.
AckedInv ==
  /\ acked \in Seq(Ack)
  /\ \A i \in 1..Len(acked) : acked[i].intact =>
       \E n \in 0..synced : EndsWith(SubSeq(file, 1, n), acked[i])

LEMMA WritersUntouched ==
  ASSUME WriterInv, file' = file,
         \A u \in Thread : pc'[u] \in {"write", "sync"} =>
           pc'[u] = pc[u] /\ buf'[u] = buf[u] /\ call'[u] = call[u]
  PROVE  WriterInv'
BY DEF WriterInv, Writing

LEMMA NoWriters ==
  ASSUME \A u \in Thread : pc'[u] \notin {"write", "sync"}
  PROVE  WriterInv'
BY DEF WriterInv, Writing

LEMMA ReturnLeavesWriters ==
  ASSUME TypeOK, WriterInv, NEW t \in Thread, NEW r, Return(t, r), file' = file, call' = call
  PROVE  WriterInv'
<1>1. \A u \in Thread : pc'[u] \in {"write", "sync"} =>
        pc'[u] = pc[u] /\ buf'[u] = buf[u] /\ call'[u] = call[u]
  BY DEF Return, TypeOK
<1>2. QED
  BY <1>1, WritersUntouched

LEMMA Regroup ==
  ASSUME NEW a \in Seq(Cell), NEW b \in Seq(Cell), NEW c \in Seq(Cell)
  PROVE  (a \o b) \o c = a \o (b \o c)
BY ConcatAssociative

\* The parts a write() cuts a buffer into.
LEMMA CutBuffer ==
  ASSUME NEW f \in Seq(Cell), NEW b \in Seq(Cell), NEW n \in 1..Len(b)
  PROVE  /\ SubSeq(b, 1, n) \in Seq(Cell) /\ SubSeq(b, n + 1, Len(b)) \in Seq(Cell)
         /\ (f \o SubSeq(b, 1, n)) \o SubSeq(b, n + 1, Len(b)) = f \o b
         /\ n = Len(b) <=> SubSeq(b, n + 1, Len(b)) = <<>>
<1>1. PICK m \in Nat : m = Len(b) /\ n \in Nat /\ n <= m /\ 1 <= n
  BY LenProperties
<1>2. /\ n + 1 \in Nat \ {0} /\ 1 \in 1..m + 1 /\ n \in 1 - 1..m /\ m \in n..m
      /\ n <= m /\ m <= m /\ m \in Nat
  BY <1>1
<1>3. PICK c \in Seq(Cell), d \in Seq(Cell) : c = SubSeq(b, 1, n) /\ d = SubSeq(b, n + 1, m)
  <2>1. SubSeq(b, 1, n) \in Seq(Cell)
    BY <1>1, SubSeqType
  <2>2. SubSeq(b, n + 1, m) \in Seq(Cell)
    BY <1>1, <1>2, SubSeqType
  <2>3. QED
    BY <2>1, <2>2
<1>4. SubSeq(b, 1, n) \o SubSeq(b, n + 1, m) = SubSeq(b, 1, m)
  BY <1>1, <1>2, ConcatAdjacentSubSeq
<1>5. c \o d = b
  BY <1>1, <1>3, <1>4, SubSeqFull
<1>6. (f \o c) \o d = f \o (c \o d)
  BY Regroup
<1>7. Len(c) = n
  <2>1. \A i \in 1..n : i \in 1..m /\ b[i] \in Cell
    BY <1>1, ElementOfSeq
  <2>2. Len(SubSeq(b, 1, n)) = IF 1 <= n THEN n - 1 + 1 ELSE 0
    BY <1>1, <2>1, SubSeqProperties
  <2>3. QED
    BY <1>1, <1>3, <2>2
<1>8. Len(c) + Len(d) = m
  BY <1>1, <1>5, ConcatProperties
<1>9. Len(d) \in Nat /\ (Len(d) = 0 <=> d = <<>>)
  BY EmptySeq, LenProperties
<1>10. n = m <=> d = <<>>
  BY <1>1, <1>7, <1>8, <1>9
<1>11. QED
  BY <1>1, <1>3, <1>5, <1>6, <1>10

LEMMA WriterStep ==
  ASSUME OneSpellingPerProcess, TypeOK, LockInv, WriterInv, [Next]_vars
  PROVE  WriterInv'
<1> USE DEF disk, locks
<1>1. /\ pc \in [Thread -> {"idle", "enter", "lock exclusive", "write", "sync",
                            "lock shared", "locked shared", "parse"}]
      /\ buf \in [Thread -> Seq(Cell)] /\ call \in [Thread -> CallType] /\ file \in Seq(Cell)
  BY DEF TypeOK
<1>2. CASE UNCHANGED vars
  BY <1>2, WritersUntouched DEF vars
<1>3. ASSUME NEW t \in Thread, Call(t) PROVE WriterInv'
  <2>1. \A u \in Thread : pc'[u] \in {"write", "sync"} =>
          pc'[u] = pc[u] /\ buf'[u] = buf[u] /\ call'[u] = call[u]
    BY <1>1, <1>3 DEF Call
  <2>2. QED
    BY <1>3, <2>1, WritersUntouched DEF Call
<1>4. ASSUME NEW t \in Thread, EnterAppend(t) PROVE WriterInv'
  <2>1. \A u \in Thread : pc'[u] \in {"write", "sync"} =>
          pc'[u] = pc[u] /\ buf'[u] = buf[u] /\ call'[u] = call[u]
    BY <1>1, <1>4 DEF EnterAppend
  <2>2. QED
    BY <1>4, <2>1, WritersUntouched DEF EnterAppend
<1>5. ASSUME NEW t \in Thread, LockExclusive(t) PROVE WriterInv'
  <2>1. PICK h \in Seq(Cell), r \in Seq(Cell) :
          h = (IF file = <<>> THEN Magic ELSE <<>>) /\ r = MakeRecord(call[t].payload)
    <3>1. call[t].payload \in Payload
      BY <1>5, AppendCallType DEF LockExclusive, TypeOK, Appending
    <3>2. QED
      BY <3>1, RecordCells, MagicCells, EmptySeq
  <2>2. /\ buf' = [buf EXCEPT ![t] = h \o r] /\ pc' = [pc EXCEPT ![t] = "write"]
        /\ file' = file /\ call' = call
    BY <1>5, <2>1 DEF LockExclusive
  <2>3. file \o (h \o r) = (file \o h) \o r /\ file \o h \in Seq(Cell)
    <3>1. file \o (h \o r) = (file \o h) \o r
      <4>1. (file \o h) \o r = file \o (h \o r)
        BY <1>1, Regroup, Zenon
      <4>2. QED
        BY <4>1
    <3>2. QED
      BY <1>1, <2>1, <3>1, ConcatProperties
  <2>4. ASSUME NEW u \in Thread, pc'[u] \in {"write", "sync"}
        PROVE  /\ pc'[u] = "sync" => buf'[u] = <<>>
               /\ \E g \in Seq(Cell) : file' \o buf'[u] = g \o MakeRecord(call'[u].payload)
    <3>1. CASE u = t
      BY <1>1, <2>1, <2>2, <2>3, <3>1
    <3>2. CASE u # t
      BY <1>1, <2>2, <2>4, <3>2 DEF WriterInv, Writing
    <3>3. QED
      BY <3>1, <3>2
  <2>5. QED
    BY <2>4 DEF WriterInv, Writing
<1>6. ASSUME NEW t \in Thread, Write(t) PROVE WriterInv'
  <2>1. PICK n \in 1..Len(buf[t]) :
          PutCells(t, n) /\ pc' = [pc EXCEPT ![t] = IF n = Len(buf[t]) THEN "sync" ELSE "write"]
    BY <1>6 DEF Write
  <2>2. PICK b \in Seq(Cell) : b = buf[t]
    BY <1>1
  <2>3. PICK c \in Seq(Cell), d \in Seq(Cell) :
          /\ c = SubSeq(b, 1, n) /\ d = SubSeq(b, n + 1, Len(b))
          /\ (file \o c) \o d = file \o b /\ (n = Len(b) <=> d = <<>>)
    <3>1. n \in 1..Len(b)
      BY <2>1, <2>2
    <3>2. /\ SubSeq(b, 1, n) \in Seq(Cell) /\ SubSeq(b, n + 1, Len(b)) \in Seq(Cell)
          /\ (file \o SubSeq(b, 1, n)) \o SubSeq(b, n + 1, Len(b)) = file \o b
          /\ n = Len(b) <=> SubSeq(b, n + 1, Len(b)) = <<>>
      BY <1>1, <3>1, CutBuffer
    <3>3. QED
      BY <3>2
  <2>4. file' = file \o c /\ buf' = [buf EXCEPT ![t] = d] /\ call' = call
    BY <1>6, <2>1, <2>2, <2>3 DEF PutCells, Write
  <2>5. pc[t] = "write" /\ Writing(t)
    BY <1>6 DEF Write, Writing
  <2>6. \A u \in Thread : u # t => ~Writing(u)
    BY <2>5, Exclusion DEF WriterExclusion
  <2>7. \A u \in Thread : pc'[u] \in {"write", "sync"} => u = t
    BY <1>1, <2>1, <2>6 DEF Writing
  <2>8. PICK g \in Seq(Cell) : file \o b = g \o MakeRecord(call[t].payload)
    BY <2>2, <2>5 DEF WriterInv
  <2>9. file' \o buf'[t] = g \o MakeRecord(call'[t].payload)
    BY <1>1, <2>3, <2>4, <2>8
  <2>10. pc'[t] = "sync" => buf'[t] = <<>>
    BY <1>1, <2>1, <2>2, <2>3, <2>4
  <2>11. QED
    BY <2>7, <2>9, <2>10 DEF WriterInv, Writing
<1>7. ASSUME NEW t \in Thread,
             WriteFails(t) \/ Sync(t) \/ SyncFails(t) \/ OpenFails(t) \/ Parse(t) \/ ProbeSize(t)
      PROVE  WriterInv'
  <2>1. file' = file /\ call' = call /\ \E r : Return(t, r)
    BY <1>7 DEF WriteFails, Sync, SyncFails, OpenFails, Parse, ProbeSize
  <2>2. QED
    BY <2>1, ReturnLeavesWriters
<1>8. ASSUME NEW t \in Thread, EnterRead(t) \/ Map(t) PROVE WriterInv'
  <2>1. CASE \E r : Return(t, r)
    BY <1>8, <2>1, ReturnLeavesWriters DEF EnterRead, Map
  <2>2. CASE ~\E r : Return(t, r)
    <3>1. /\ file' = file /\ call' = call /\ buf' = buf
          /\ \E s \in {"lock shared", "parse"} : pc' = [pc EXCEPT ![t] = s]
      BY <1>8, <2>2 DEF EnterRead, Map
    <3>2. \A u \in Thread : pc'[u] \in {"write", "sync"} => pc'[u] = pc[u]
      BY <1>1, <3>1
    <3>3. QED
      BY <3>1, <3>2, WritersUntouched
  <2>3. QED
    BY <2>1, <2>2
<1>9. ASSUME NEW t \in Thread, LockShared(t) PROVE WriterInv'
  <2>1. \A u \in Thread : pc'[u] \in {"write", "sync"} =>
          pc'[u] = pc[u] /\ buf'[u] = buf[u] /\ call'[u] = call[u]
    BY <1>1, <1>9 DEF LockShared
  <2>2. QED
    BY <1>9, <2>1, WritersUntouched DEF LockShared
<1>10. ASSUME NEW p \in Proc, Crash(p) PROVE WriterInv'
  <2>1. \A u \in Thread : pc'[u] \in {"write", "sync"} =>
          pc'[u] = pc[u] /\ buf'[u] = buf[u] /\ call'[u] = call[u]
    BY <1>1, <1>10 DEF Crash, Kill
  <2>2. QED
    BY <1>10, <2>1, WritersUntouched DEF Crash
<1>11. ASSUME PowerLoss PROVE WriterInv'
  <2>1. \A u \in Thread : pc'[u] \notin {"write", "sync"}
    BY <1>11, ThreadsAssumption DEF PowerLoss, Kill
  <2>2. QED
    BY <2>1, NoWriters
<1>12. QED
  BY <1>2, <1>3, <1>4, <1>5, <1>6, <1>7, <1>8, <1>9, <1>10, <1>11
  DEF Next, AppendStep, ReadStep

\* What is on the medium never gets shorter.
LEMMA SyncedGrows ==
  ASSUME SyncLinks, TypeOK, DiskInv, [Next]_vars
  PROVE  synced' >= synced
<1> USE DEF disk, locks
<1>1. file \in Seq(Cell) /\ Len(file) \in Nat /\ synced \in Nat /\ synced <= Len(file)
  BY LenProperties DEF TypeOK, DiskInv
<1>2. ASSUME synced' = synced PROVE synced' >= synced
  BY <1>1, <1>2
<1>3. CASE UNCHANGED vars
  BY <1>2, <1>3 DEF vars
<1>4. ASSUME NEW t \in Thread, Call(t) \/ EnterAppend(t) \/ LockExclusive(t) \/ Write(t)
               \/ WriteFails(t) \/ SyncFails(t) \/ OpenFails(t) \/ ReadStep(t)
      PROVE  synced' >= synced
  BY <1>2, <1>4 DEF Call, EnterAppend, LockExclusive, Write, WriteFails, SyncFails, OpenFails, ReadStep,
     EnterRead, LockShared, Map, Parse, ProbeSize
<1>5. ASSUME NEW t \in Thread, Sync(t) PROVE synced' >= synced
  BY <1>1, <1>5 DEF Sync
<1>6. ASSUME NEW p \in Proc, Crash(p) PROVE synced' >= synced
  BY <1>2, <1>6 DEF Crash
<1>7. ASSUME PowerLoss PROVE synced' >= synced
  <2>1. ASSUME NEW n \in synced..Len(file), file' = SubSeq(file, 1, n), synced' = Len(file')
        PROVE  synced' >= synced
    <3>1. Len(SubSeq(file, 1, n)) = n
      BY <1>1, SyncedSurvivesCut
    <3>2. QED
      BY <1>1, <2>1, <3>1
  <2>2. ASSUME ~linked, synced' = 0 PROVE synced' >= synced
    BY <1>1, <2>2 DEF DiskInv
  <2>3. QED
    BY <1>7, <2>1, <2>2 DEF PowerLoss
<1>8. QED
  BY <1>3, <1>4, <1>5, <1>6, <1>7 DEF Next, AppendStep

\* Only a sync acknowledges.
LEMMA OnlySyncAcks ==
  ASSUME [Next]_vars, \A t \in Thread : ~Sync(t)
  PROVE  acked' = acked
BY DEF Next, AppendStep, ReadStep, vars, Call, EnterAppend, LockExclusive, Write, WriteFails,
   SyncFails, OpenFails, EnterRead, LockShared, Map, Parse, ProbeSize, Crash, PowerLoss, Kill

LEMMA EarlierPart ==
  ASSUME NEW f \in Seq(Cell), NEW g \in Seq(Cell), NEW m \in Nat, NEW n \in 0..m,
         m <= Len(f), m <= Len(g), SubSeq(g, 1, m) = SubSeq(f, 1, m)
  PROVE  SubSeq(g, 1, n) = SubSeq(f, 1, n)
<1>1. m \in n..Len(f) /\ m \in n..Len(g) /\ n \in Nat
  BY LenProperties
<1>2. SubSeq(SubSeq(f, 1, m), 1, n) = SubSeq(f, 1, n)
  BY <1>1, SyncedSurvivesCut
<1>3. SubSeq(SubSeq(g, 1, m), 1, n) = SubSeq(g, 1, n)
  BY <1>1, SyncedSurvivesCut
<1>4. QED
  BY <1>2, <1>3

\* An acknowledgement stays good as long as the synced part is kept.
LEMMA AckKept ==
  ASSUME TypeOK, DiskInv, file' \in Seq(Cell), synced' \in Nat, synced' >= synced, Grows,
         NEW a, \E n \in 0..synced : EndsWith(SubSeq(file, 1, n), a)
  PROVE  \E n \in 0..synced' : EndsWith(SubSeq(file', 1, n), a)
<1>1. PICK n \in 0..synced : EndsWith(SubSeq(file, 1, n), a)
  OBVIOUS
<1>2. file \in Seq(Cell) /\ synced \in Nat /\ synced <= Len(file) /\ synced <= Len(file')
      /\ SubSeq(file', 1, synced) = SubSeq(file, 1, synced)
  <2>1. Len(file') \in Nat
    BY LenProperties
  <2>2. QED
    BY <2>1 DEF TypeOK, DiskInv, Grows
<1>3. PICK f \in Seq(Cell), g \in Seq(Cell), m \in Nat :
        f = file /\ g = file' /\ m = synced
  BY <1>2
<1>4. SubSeq(g, 1, n) = SubSeq(f, 1, n)
  BY <1>2, <1>3, EarlierPart
<1>5. n \in 0..synced'
  BY <1>2
<1>6. EndsWith(SubSeq(file', 1, n), a)
  BY <1>1, <1>3, <1>4
<1>7. QED
  BY <1>5, <1>6

\* What a sync acknowledges.
LEMMA SyncAcks ==
  ASSUME TypeOK, WriterInv, NEW t \in Thread, Sync(t)
  PROVE  \E a \in Ack : /\ acked' = Append(acked, a)
                        /\ a.intact => EndsWith(file, a)
<1>1. pc[t] = "sync" /\ Appending(t) /\ Writing(t)
  BY DEF Sync, Appending, Writing
<1>2. PICK p \in Payload : p = call[t].payload
  BY <1>1, AppendCallType DEF TypeOK
<1>3. PICK g \in Seq(Cell) : file \o buf[t] = g \o MakeRecord(p) /\ buf[t] = <<>>
  BY <1>1, <1>2 DEF WriterInv
<1>4. file \in Seq(Cell)
  BY DEF TypeOK
<1>5. file = g \o MakeRecord(p)
  BY <1>3, <1>4, ConcatEmptySeq
<1>6. PICK x \in Outcome : x = Parsed(file)
  BY <1>4, ParsedType
<1>7. Len(x.records) \in Nat
  BY <1>6, LenProperties DEF Outcome
<1>8. Intact(file) \in BOOLEAN
  <2>1. x.whole \in BOOLEAN
    BY <1>6 DEF Outcome
  <2>2. QED
    BY <1>6, <2>1 DEF Intact
<1>9. PICK a : a = [payload |-> p, index |-> Len(x.records), intact |-> Intact(file)]
  OBVIOUS
<1>10. a \in Ack /\ a.payload = p /\ a.index = Len(x.records) /\ a.intact = Intact(file)
  BY <1>2, <1>7, <1>8, <1>9 DEF Ack
<1>11. acked' = Append(acked, a)
  BY <1>2, <1>6, <1>9 DEF Sync
<1>12. ASSUME a.intact PROVE EndsWith(file, a)
  <2>1. Intact(file)
    BY <1>10, <1>12
  <2>2. Parsed(file).whole
    BY <2>1 DEF Intact
  <2>3. Len(x.records) \in Nat \ {0} /\ x.records[Len(x.records)] = p
    BY <1>5, <1>6, <2>1, LastRecord
  <2>4. file # <<>>
    <3>1. SUFFICES ASSUME file = <<>> PROVE FALSE
      OBVIOUS
    <3>2. Parsed(file).records = <<>>
      BY <3>1, MagicParsed DEF Ended
    <3>3. QED
      BY <1>6, <2>3, <3>2
  <2>5. QED
    BY <1>6, <1>10, <2>2, <2>3, <2>4 DEF EndsWith
<1>13. QED
  BY <1>10, <1>11, <1>12

LEMMA AckedStep ==
  ASSUME SyncLinks, TypeOK, TypeOK', DiskInv, WriterInv, AckedInv, [Next]_vars
  PROVE  AckedInv'
<1>1. /\ file \in Seq(Cell) /\ file' \in Seq(Cell) /\ synced \in Nat /\ synced' \in Nat
      /\ synced <= Len(file) /\ Len(file) \in Nat
  BY LenProperties DEF TypeOK, DiskInv
<1>2. synced' >= synced
  BY SyncedGrows
<1>3. Grows
  BY <1>1, DiskStep DEF Grows
<1>4. PICK n \in Nat : n = Len(acked) /\ acked \in Seq(Ack)
  BY LenProperties DEF AckedInv
<1>5. \A i \in 1..n : acked[i].intact =>
        \E k \in 0..synced' : EndsWith(SubSeq(file', 1, k), acked[i])
  <2>1. SUFFICES ASSUME NEW i \in 1..n, acked[i].intact
        PROVE  \E k \in 0..synced' : EndsWith(SubSeq(file', 1, k), acked[i])
    OBVIOUS
  <2>2. \E k \in 0..synced : EndsWith(SubSeq(file, 1, k), acked[i])
    BY <1>4, <2>1 DEF AckedInv
  <2>3. QED
    BY <1>1, <1>2, <1>3, <2>2, AckKept
<1>6. CASE \E t \in Thread : Sync(t)
  <2>1. PICK t \in Thread : Sync(t)
    BY <1>6
  <2>2. PICK a \in Ack : acked' = Append(acked, a) /\ (a.intact => EndsWith(file, a))
    BY <2>1, SyncAcks
  <2>3. synced' = Len(file) /\ file' = file
    BY <2>1 DEF Sync
  <2>4. /\ acked' \in Seq(Ack) /\ Len(acked') = n + 1
        /\ \A i \in 1..n : acked'[i] = acked[i]
        /\ acked'[n + 1] = a
    BY <1>4, <2>2, AppendProperties
  <2>5. ASSUME NEW i \in 1..(n + 1), acked'[i].intact
        PROVE  \E k \in 0..synced' : EndsWith(SubSeq(file', 1, k), acked'[i])
    <3>1. CASE i \in 1..n
      BY <1>5, <2>4, <2>5, <3>1
    <3>2. CASE i \notin 1..n
      <4>1. i = n + 1
        BY <1>4, <3>2
      <4>2. SubSeq(file, 1, Len(file)) = file /\ Len(file) \in 0..Len(file)
        BY <1>1, SubSeqFull
      <4>3. EndsWith(file, a)
        BY <2>2, <2>4, <2>5, <4>1
      <4>4. PICK k \in 0..synced' : SubSeq(file', 1, k) = file
        BY <2>3, <4>2
      <4>5. QED
        BY <2>4, <4>1, <4>3, <4>4
    <3>3. QED
      BY <3>1, <3>2
  <2>6. QED
    BY <2>4, <2>5 DEF AckedInv
<1>7. CASE ~\E t \in Thread : Sync(t)
  <2>1. acked' = acked
    BY <1>7, OnlySyncAcks
  <2>2. QED
    BY <1>4, <1>5, <2>1 DEF AckedInv
<1>8. QED
  BY <1>6, <1>7

\* From the invariant to the property: the part that was acknowledged is
\* parsed before what follows it, damaged or not.
LEMMA AckReadable ==
  ASSUME NEW f \in Seq(Cell), NEW n \in 0..Len(f), NEW a, EndsWith(SubSeq(f, 1, n), a)
  PROVE  /\ ForEachMappedRecord(f, a.index).ok
         /\ Len(ForEachMappedRecord(f, a.index).value) = a.index
         /\ ForEachMappedRecord(f, a.index).value[a.index] = a.payload
<1>1. PICK g \in Seq(Cell), h \in Seq(Cell) : g = SubSeq(f, 1, n) /\ f = g \o h
  <2>1. PICK m \in Nat : m = Len(f) /\ n \in Nat /\ n <= m
    BY LenProperties
  <2>2. /\ n + 1 \in Nat \ {0} /\ 1 \in 1..m + 1 /\ n \in 1 - 1..m /\ m \in n..m
        /\ m <= m
    BY <2>1
  <2>3. SubSeq(f, 1, n) \o SubSeq(f, n + 1, m) = SubSeq(f, 1, m)
    BY <2>1, <2>2, ConcatAdjacentSubSeq
  <2>4. SubSeq(f, 1, m) = f
    BY <2>1, SubSeqFull
  <2>5. SubSeq(f, 1, n) \in Seq(Cell)
    BY <2>1, SubSeqType
  <2>6. SubSeq(f, n + 1, m) \in Seq(Cell)
    BY <2>1, <2>2, SubSeqType
  <2>7. QED
    BY <2>3, <2>4, <2>5, <2>6
<1>2. PICK k \in Nat \ {0} : k = a.index
  BY DEF EndsWith
<1>3. Parsed(g).whole /\ g # <<>> /\ Len(Parsed(g).records) = k /\ Parsed(g).records[k] = a.payload
  BY <1>1, <1>2 DEF EndsWith
<1>4. PICK r \in Seq(Record), s \in Seq(Record), l \in Nat, all \in Outcome :
        /\ r = Parsed(g).records /\ all = Parsed(f) /\ all.records = r \o s /\ l = Len(s)
  <2>1. PICK x \in Outcome, y \in Outcome : x = Parsed(g) /\ y = Walk(f)[Len(g)]
    <3>1. Parsed(g) \in Outcome
      BY ParsedType
    <3>2. Len(g) \in 0..Len(f)
      <4>1. Len(f) = Len(g) + Len(h) /\ Len(g) \in Nat /\ Len(h) \in Nat
        BY <1>1, ConcatProperties, LenProperties
      <4>2. QED
        BY <4>1
    <3>3. QED
      BY <3>1, <3>2, WalkType
  <2>2. PICK r \in Seq(Record), s \in Seq(Record) : r = x.records /\ s = y.records
    BY DEF Outcome, Record
  <2>3. Parsed(f).records = r \o s
    <3>1. Parsed(g \o h).records = Parsed(g).records \o Walk(g \o h)[Len(g)].records
      BY <1>3, ParsedGoesOn
    <3>2. QED
      BY <1>1, <2>1, <2>2, <3>1
  <2>4. Parsed(f) \in Outcome /\ Len(s) \in Nat
    BY ParsedType, LenProperties
  <2>5. QED
    BY <2>1, <2>2, <2>3, <2>4
<1>5. PICK v \in Seq(Record) : /\ v = all.records /\ Len(v) = k + l /\ v[k] = a.payload
  <2>1. k \in 1..(k + l) /\ k <= k /\ Len(r) = k /\ r[k] = a.payload
    BY <1>2, <1>3, <1>4
  <2>2. /\ r \o s \in Seq(Record) /\ Len(r \o s) = Len(r) + Len(s)
        /\ \A i \in 1..(Len(r) + Len(s)) : (r \o s)[i] = IF i <= Len(r) THEN r[i] ELSE s[i - Len(r)]
    BY ConcatProperties
  <2>3. (r \o s)[k] = a.payload
    BY <1>4, <2>1, <2>2
  <2>4. QED
    BY <1>4, <2>1, <2>2, <2>3
<1>6. k <= k + l /\ 1 <= k /\ k - 1 + 1 = k /\ k \in 1..k /\ 1 + k - 1 = k /\ 1 \in Int /\ k \in Int
      /\ \A i \in 1..k : i \in 1..(k + l)
  BY <1>2, <1>4
<1>7. ForEachMappedRecord(f, k) = Records(SubSeq(v, 1, k))
  BY <1>4, <1>5, <1>6 DEF ForEachMappedRecord
<1>8. Len(SubSeq(v, 1, k)) = k /\ SubSeq(v, 1, k)[k] = v[k]
  <2>1. \A i \in 1..(k + l) : v[i] \in Record
    BY <1>5, ElementOfSeq
  <2>2. \A i \in 1..k : v[i] \in Record
    BY <1>6, <2>1
  <2>3. /\ Len(SubSeq(v, 1, k)) = IF 1 <= k THEN k - 1 + 1 ELSE 0
        /\ \A i \in 1..k - 1 + 1 : SubSeq(v, 1, k)[i] = v[1 + i - 1]
    BY <1>6, <2>2, SubSeqProperties
  <2>4. QED
    BY <1>6, <2>3
<1>9. PICK w : w = SubSeq(v, 1, k) /\ Len(w) = k /\ w[k] = a.payload
  BY <1>5, <1>8
<1>10. ForEachMappedRecord(f, k) = [ok |-> TRUE, value |-> w]
  BY <1>7, <1>9 DEF Records
<1>11. QED
  BY <1>2, <1>9, <1>10

\* What has been acknowledged while the log was undamaged is read at its place
\* for ever, through short writes, failed syncs, crashes and power losses, if
\* each process spells the path in one way and syncing a new file makes its
\* directory entry durable.
THEOREM AckedStays ==
  OneSpellingPerProcess /\ SyncLinks => (Spec => []AckedStaysReadable)
<1> SUFFICES ASSUME OneSpellingPerProcess, SyncLinks PROVE Spec => []AckedStaysReadable
  OBVIOUS
<1>1. Init => DiskInv /\ WriterInv /\ AckedInv
  <2> SUFFICES ASSUME Init PROVE DiskInv /\ WriterInv /\ AckedInv
    OBVIOUS
  <2>1. DiskInv /\ WriterInv
    BY EmptySeq DEF Init, DiskInv, Appending, WriterInv, Writing
  <2>2. acked = <<>> /\ acked \in Seq(Ack) /\ Len(acked) = 0
    BY EmptySeq DEF Init
  <2>3. 1..0 = {}
    OBVIOUS
  <2>4. QED
    BY <2>1, <2>2, <2>3 DEF AckedInv
<1>2. TypeOK /\ DiskInv /\ [Next]_vars => DiskInv'
  BY DiskStep
<1>3. TypeOK /\ LockInv /\ WriterInv /\ [Next]_vars => WriterInv'
  BY WriterStep
<1>4. TypeOK /\ TypeOK' /\ DiskInv /\ WriterInv /\ AckedInv /\ [Next]_vars => AckedInv'
  BY AckedStep
<1>5. TypeOK /\ DiskInv /\ AckedInv => AckedStaysReadable
  <2> SUFFICES ASSUME TypeOK, DiskInv, AckedInv, NEW i \in DOMAIN acked, acked[i].intact
               PROVE  /\ ForEachMappedRecord(file, acked[i].index).ok
                      /\ Len(ForEachMappedRecord(file, acked[i].index).value) = acked[i].index
                      /\ ForEachMappedRecord(file, acked[i].index).value[acked[i].index]
                           = acked[i].payload
    BY DEF AckedStaysReadable
  <2>1. i \in 1..Len(acked)
    BY LenProperties DEF AckedInv
  <2>2. PICK n \in 0..synced : EndsWith(SubSeq(file, 1, n), acked[i])
    BY <2>1 DEF AckedInv
  <2>3. file \in Seq(Cell) /\ synced \in Nat /\ Len(file) \in Nat /\ synced <= Len(file)
    BY LenProperties DEF TypeOK, DiskInv
  <2>4. n \in 0..Len(file)
    BY <2>3
  <2>5. QED
    BY <2>2, <2>3, <2>4, AckReadable
<1>6. QED
  BY <1>1, <1>2, <1>3, <1>4, <1>5, TypeCorrect, LockInvariant, PTL DEF Spec

-----------------------------------------------------------------------------
(* The refinement                                                          *)

\* Nothing fails but a write between records and a sync.
CalmFaults == Faults \subseteq {"error", "sync"}

LEMMA NobodyDies ==
  ASSUME CalmFaults
  PROVE  ~PowerLoss /\ \A p \in Proc : ~Crash(p)
BY DEF CalmFaults, PowerLoss, Crash, Fault

\* What t has written and what it has left is its record behind an undamaged
\* file, or behind the magic of a new one.
Underway(t) ==
  /\ pc[t] = "sync" <=> buf[t] = <<>>
  /\ \E g \in Seq(Cell) :
       /\ Parsed(g).whole /\ g # <<>>
       /\ file \o buf[t] = g \o MakeRecord(call[t].payload)
       /\ Len(file) >= Len(g) \/ g = Magic

ExistInv ==
  /\ ~exists => file = <<>>
  /\ \A t \in Thread : Appending(t) => exists

\* The file is damaged only by a record that is being written.
FileInv ==
  /\ (\A t \in Thread : ~Writing(t)) => Parsed(file).whole
  /\ \A t \in Thread : Writing(t) => Underway(t)

\* What a reader parses was not being written when it was mapped, and a token
\* is a size the file has had.
SnapInv == \A t \in Thread : pc[t] = "parse" => Parsed(snap[t]).whole
TokenInv == \A t \in Thread : "token" \in DOMAIN reply[t] => reply[t].token \in 0..Len(file)

LEMMA ExistStep ==
  ASSUME CalmFaults, TypeOK, ExistInv, [Next]_vars
  PROVE  ExistInv'
<1> USE DEF disk, locks
<1>1. pc \in [Thread -> {"idle", "enter", "lock exclusive", "write", "sync",
                         "lock shared", "locked shared", "parse"}]
  BY DEF TypeOK
<1>2. ASSUME file' = file, exists' = exists, \A t \in Thread : Appending(t)' => Appending(t)
      PROVE  ExistInv'
  BY <1>2 DEF ExistInv
<1>3. CASE UNCHANGED vars
  BY <1>2, <1>3 DEF vars, Appending
<1>4. ASSUME NEW t \in Thread, EnterAppend(t) PROVE ExistInv'
  BY <1>4 DEF EnterAppend, ExistInv
<1>5. ASSUME NEW t \in Thread, Write(t) PROVE ExistInv'
  <2>1. exists /\ exists' = exists
    BY <1>5 DEF Write, ExistInv, Appending
  <2>2. QED
    BY <2>1 DEF ExistInv
<1>6. ASSUME NEW t \in Thread, Call(t) \/ LockExclusive(t) \/ WriteFails(t) \/ Sync(t)
               \/ SyncFails(t) \/ OpenFails(t) \/ ReadStep(t)
      PROVE  ExistInv'
  <2>1. file' = file /\ exists' = exists
    BY <1>6 DEF Call, LockExclusive, WriteFails, Sync, SyncFails, OpenFails, ReadStep, EnterRead,
       LockShared, Map, Parse, ProbeSize
  <2>2. \/ pc[t] = "lock exclusive"
        \/ \E s \in {"enter", "idle", "lock shared", "locked shared", "parse"} :
             pc' = [pc EXCEPT ![t] = s]
    BY <1>6 DEF Call, LockExclusive, WriteFails, Sync, SyncFails, OpenFails, ReadStep, EnterRead,
       LockShared, Map, Parse, ProbeSize, Return
  <2>3. \A u \in Thread : u # t => pc'[u] = pc[u]
    BY <1>1, <1>6 DEF Call, LockExclusive, WriteFails, Sync, SyncFails, OpenFails, ReadStep, EnterRead,
       LockShared, Map, Parse, ProbeSize, Return
  <2>4. \A u \in Thread : Appending(u)' => Appending(u)
    BY <1>1, <2>2, <2>3 DEF Appending
  <2>5. QED
    BY <1>2, <2>1, <2>4
<1>7. QED
  BY <1>3, <1>4, <1>5, <1>6, NobodyDies DEF Next, AppendStep

LEMMA FileUntouched ==
  ASSUME FileInv, file' = file,
         \A u \in Thread : pc[u] \in {"write", "sync"} \/ pc'[u] \in {"write", "sync"} =>
           pc'[u] = pc[u] /\ buf'[u] = buf[u] /\ call'[u] = call[u]
  PROVE  FileInv'
<1>1. \A u \in Thread : Writing(u)' <=> Writing(u)
  BY DEF Writing
<1>2. \A u \in Thread : Writing(u)' => (Underway(u)' <=> Underway(u))
  BY DEF Writing, Underway
<1>3. QED
  BY <1>1, <1>2 DEF FileInv

\* A writer that leaves an undamaged file behind was the only one.
LEMMA WriterLeaves ==
  ASSUME OneSpellingPerProcess, TypeOK, LockInv, NEW t \in Thread, Writing(t), NEW r,
         Return(t, r), file' = file, Parsed(file).whole
  PROVE  FileInv'
<1>1. \A u \in Thread : u # t => ~Writing(u)
  BY Exclusion DEF WriterExclusion
<1>2. \A u \in Thread : ~Writing(u)'
  BY <1>1 DEF Return, TypeOK, Writing
<1>3. QED
  BY <1>2 DEF FileInv

\* At the sync the record is there.
LEMMA WrittenWhole ==
  ASSUME TypeOK, NEW t \in Thread, pc[t] = "sync", Underway(t)
  PROVE  Parsed(file).whole
<1>1. PICK p \in Payload : p = call[t].payload
  BY AppendCallType DEF TypeOK, Appending
<1>2. PICK g \in Seq(Cell) : Parsed(g).whole /\ g # <<>> /\ file \o buf[t] = g \o MakeRecord(p)
  BY <1>1 DEF Underway
<1>3. buf[t] = <<>> /\ file \in Seq(Cell)
  BY DEF Underway, TypeOK
<1>4. file = g \o MakeRecord(p)
  BY <1>2, <1>3, ConcatEmptySeq
<1>5. QED
  BY <1>2, <1>4, RecordEnters

LEMMA ExclusionPrimed ==
  ASSUME OneSpellingPerProcess, LockInv'
  PROVE  WriterExclusion'
<1>1. \A t \in Thread : pc'[t] \notin {"idle", "enter"} => mutex'[Key(t)] = t
  BY DEF LockInv, Key
<1>2. \A t \in Thread : pc'[t] \in {"write", "sync"} => flock'[ProcOf[t]] = "wr"
  BY DEF LockInv, Writing
<1>3. \A t \in Thread : pc'[t] = "locked shared" => flock'[ProcOf[t]] = "rd"
  BY DEF LockInv, Reading
<1>4. \A p, q \in Proc : p # q /\ flock'[p] = "wr" => flock'[q] = "none"
  BY DEF LockInv
<1>5. \A t, u \in Thread : t # u /\ pc'[t] \in {"write", "sync"} =>
        pc'[u] \notin {"write", "sync", "locked shared"}
  <2> SUFFICES ASSUME NEW t \in Thread, NEW u \in Thread, t # u, pc'[t] \in {"write", "sync"}
               PROVE  pc'[u] \notin {"write", "sync", "locked shared"}
    OBVIOUS
  <2>1. CASE ProcOf[t] = ProcOf[u]
    <3>1. Key(t) = Key(u)
      BY <2>1 DEF Key, OneSpellingPerProcess
    <3>2. QED
      BY <1>1, <3>1
  <2>2. CASE ProcOf[t] # ProcOf[u]
    BY <1>2, <1>3, <1>4, <2>2, ThreadsAssumption
  <2>3. QED
    BY <2>1, <2>2
<1>6. QED
  BY <1>5 DEF WriterExclusion, Writing, Reading

LEMMA FileStep ==
  ASSUME CalmFaults, OneSpellingPerProcess, TypeOK, LockInv, LockInv', FileInv, [Next]_vars
  PROVE  FileInv'
<1> USE DEF disk, locks
<1>1. /\ pc \in [Thread -> {"idle", "enter", "lock exclusive", "write", "sync",
                            "lock shared", "locked shared", "parse"}]
      /\ buf \in [Thread -> Seq(Cell)] /\ call \in [Thread -> CallType] /\ file \in Seq(Cell)
  BY DEF TypeOK
<1>2. CASE UNCHANGED vars
  BY <1>2, FileUntouched DEF vars
<1>3. ASSUME NEW t \in Thread, Call(t) \/ EnterAppend(t) \/ LockShared(t) PROVE FileInv'
  <2>1. \A u \in Thread : pc[u] \in {"write", "sync"} \/ pc'[u] \in {"write", "sync"} =>
           pc'[u] = pc[u] /\ buf'[u] = buf[u] /\ call'[u] = call[u]
    BY <1>1, <1>3 DEF Call, EnterAppend, TakeMutex, LockShared
  <2>2. file' = file
    BY <1>3 DEF Call, EnterAppend, LockShared
  <2>3. QED
    BY <2>1, <2>2, FileUntouched
<1>4. ASSUME NEW t \in Thread,
             EnterRead(t) \/ Map(t) \/ Parse(t) \/ ProbeSize(t) \/ OpenFails(t)
      PROVE  FileInv'
  <2>1. /\ file' = file /\ call' = call
        /\ pc[t] \in {"enter", "lock exclusive", "lock shared", "locked shared", "parse"}
    BY <1>4 DEF EnterRead, TakeMutex, Map, Parse, ProbeSize, OpenFails
  <2>2. /\ \E s \in {"idle", "lock shared", "parse"} : pc' = [pc EXCEPT ![t] = s]
        /\ \/ buf' = buf
           \/ buf' = [buf EXCEPT ![t] = <<>>]
    BY <1>4 DEF EnterRead, Map, Parse, ProbeSize, OpenFails, Return
  <2>3. \A u \in Thread : pc[u] \in {"write", "sync"} \/ pc'[u] \in {"write", "sync"} =>
           pc'[u] = pc[u] /\ buf'[u] = buf[u] /\ call'[u] = call[u]
    BY <1>1, <2>1, <2>2
  <2>4. QED
    BY <2>1, <2>3, FileUntouched
<1>5. ASSUME NEW t \in Thread, WriteFails(t) PROVE FileInv'
  <2>1. Parsed(file).whole
    BY <1>5 DEF WriteFails, Fault, CalmFaults
  <2>2. QED
    BY <1>5, <2>1, WriterLeaves DEF WriteFails, Writing
<1>6. ASSUME NEW t \in Thread, Sync(t) \/ SyncFails(t) PROVE FileInv'
  <2>1. pc[t] = "sync" /\ Writing(t) /\ file' = file /\ \E r : Return(t, r)
    BY <1>6 DEF Sync, SyncFails, Writing
  <2>2. Parsed(file).whole
    BY <2>1, WrittenWhole DEF FileInv
  <2>3. QED
    BY <2>1, <2>2, WriterLeaves
<1>7. ASSUME NEW t \in Thread, LockExclusive(t) PROVE FileInv'
  <2>1. pc[t] = "lock exclusive" /\ file' = file /\ call' = call
        /\ pc' = [pc EXCEPT ![t] = "write"]
    BY <1>7 DEF LockExclusive
  <2>2. Writing(t)'
    BY <1>1, <2>1 DEF Writing
  <2>3. \A u \in Thread : u # t => ~Writing(u)'
    <3>1. WriterExclusion'
      BY ExclusionPrimed
    <3>2. QED
      BY <2>2, <3>1 DEF WriterExclusion
  <2>4. \A u \in Thread : ~Writing(u)
    BY <1>1, <2>1, <2>3 DEF Writing
  <2>5. Parsed(file).whole
    BY <2>4 DEF FileInv
  <2>6. PICK p \in Payload, r \in Seq(Cell) :
          p = call[t].payload /\ r = MakeRecord(p) /\ r # <<>>
    <3>1. call[t].payload \in Payload
      BY <2>1, AppendCallType DEF TypeOK, Appending
    <3>2. PICK p \in Payload : p = call[t].payload
      BY <3>1
    <3>3. Len(MakeRecord(p)) # 0 /\ MakeRecord(p) \in Seq(Cell)
      BY RecordCells
    <3>4. MakeRecord(p) # <<>>
      BY <3>3, EmptySeq
    <3>5. QED
      BY <3>2, <3>3, <3>4
  <2>7. PICK h \in Seq(Cell) : h = (IF file = <<>> THEN Magic ELSE <<>>)
    BY MagicCells, EmptySeq
  <2>8. buf'[t] = h \o r
    BY <1>1, <1>7, <2>6, <2>7 DEF LockExclusive
  <2>9. h \o r # <<>>
    BY <2>6, ConcatEqualIffEmpty
  <2>10. PICK g \in Seq(Cell) : /\ g = file \o h /\ Parsed(g).whole /\ g # <<>>
                                /\ Len(file) >= Len(g) \/ g = Magic
    <3>1. CASE file = <<>>
      <4>1. file \o h = Magic
        BY <2>7, <3>1, MagicCells, ConcatEmptySeq
      <4>2. Parsed(Magic).whole
        BY MagicParsed DEF Ended
      <4>3. QED
        BY <4>1, <4>2, MagicCells
    <3>2. CASE file # <<>>
      <4>1. file \o h = file /\ Len(file) \in Nat
        BY <1>1, <2>7, <3>2, ConcatEmptySeq, LenProperties
      <4>2. PICK g \in Seq(Cell) : g = file \o h /\ g = file
        BY <1>1, <4>1
      <4>3. Parsed(g).whole /\ g # <<>> /\ Len(file) >= Len(g)
        BY <2>5, <3>2, <4>1, <4>2
      <4>4. QED
        BY <4>2, <4>3
    <3>3. QED
      BY <3>1, <3>2
  <2>11. file' \o buf'[t] = g \o MakeRecord(call'[t].payload)
    <3>1. (file \o h) \o r = file \o (h \o r)
      BY <1>1, Regroup
    <3>2. QED
      BY <2>1, <2>6, <2>8, <2>10, <3>1
  <2>12. Underway(t)'
    <3>1. pc'[t] = "write" /\ buf'[t] # <<>>
      BY <1>1, <2>1, <2>8, <2>9
    <3>2. Len(file') >= Len(g) \/ g = Magic
      BY <2>1, <2>10
    <3>3. QED
      BY <2>10, <2>11, <3>1, <3>2 DEF Underway
  <2>13. QED
    BY <2>2, <2>3, <2>12 DEF FileInv
<1>8. ASSUME NEW t \in Thread, Write(t) PROVE FileInv'
  <2>1. PICK n \in 1..Len(buf[t]) :
          PutCells(t, n) /\ pc' = [pc EXCEPT ![t] = IF n = Len(buf[t]) THEN "sync" ELSE "write"]
    BY <1>8 DEF Write
  <2>2. PICK b \in Seq(Cell) : b = buf[t]
    BY <1>1
  <2>3. PICK c \in Seq(Cell), d \in Seq(Cell) :
          /\ c = SubSeq(b, 1, n) /\ d = SubSeq(b, n + 1, Len(b))
          /\ (file \o c) \o d = file \o b /\ (n = Len(b) <=> d = <<>>)
    <3>1. n \in 1..Len(b)
      BY <2>1, <2>2
    <3>2. /\ SubSeq(b, 1, n) \in Seq(Cell) /\ SubSeq(b, n + 1, Len(b)) \in Seq(Cell)
          /\ (file \o SubSeq(b, 1, n)) \o SubSeq(b, n + 1, Len(b)) = file \o b
          /\ n = Len(b) <=> SubSeq(b, n + 1, Len(b)) = <<>>
      BY <1>1, <3>1, CutBuffer
    <3>3. QED
      BY <3>2
  <2>4. file' = file \o c /\ buf' = [buf EXCEPT ![t] = d] /\ call' = call
    BY <1>8, <2>1, <2>2, <2>3 DEF PutCells, Write
  <2>5. pc[t] = "write" /\ Writing(t)
    BY <1>8 DEF Write, Writing
  <2>6. \A u \in Thread : u # t => ~Writing(u)
    BY <2>5, Exclusion DEF WriterExclusion
  <2>7. Writing(t)' /\ \A u \in Thread : u # t => ~Writing(u)'
    BY <1>1, <2>1, <2>6 DEF Writing
  <2>8. PICK g \in Seq(Cell) : /\ Parsed(g).whole /\ g # <<>>
                               /\ file \o b = g \o MakeRecord(call[t].payload)
                               /\ Len(file) >= Len(g) \/ g = Magic
    BY <2>2, <2>5 DEF FileInv, Underway
  <2>9. file' \o buf'[t] = g \o MakeRecord(call'[t].payload)
    BY <1>1, <2>3, <2>4, <2>8
  <2>10. pc'[t] = "sync" <=> buf'[t] = <<>>
    BY <1>1, <2>1, <2>2, <2>3, <2>4
  <2>11. Len(file') >= Len(g) \/ g = Magic
    <3>1. Len(file) \in Nat /\ Len(g) \in Nat /\ Len(c) \in Nat
      BY <1>1, LenProperties
    <3>2. Len(file \o c) = Len(file) + Len(c)
      BY <1>1, ConcatProperties
    <3>3. QED
      BY <2>4, <2>8, <3>1, <3>2
  <2>12. Underway(t)'
    BY <2>8, <2>9, <2>10, <2>11 DEF Underway
  <2>13. QED
    BY <2>7, <2>12 DEF FileInv
<1>9. QED
  BY <1>2, <1>3, <1>4, <1>5, <1>6, <1>7, <1>8, NobodyDies DEF Next, AppendStep, ReadStep

LEMMA SnapKept ==
  ASSUME SnapInv, \A u \in Thread : pc'[u] = "parse" => pc[u] = "parse" /\ snap'[u] = snap[u]
  PROVE  SnapInv'
BY DEF SnapInv

\* While a thread has the shared lock nobody writes.
LEMMA ReaderSeesWhole ==
  ASSUME OneSpellingPerProcess, LockInv, FileInv, NEW t \in Thread, pc[t] = "locked shared"
  PROVE  Parsed(file).whole
<1>1. \A u \in Thread : ~Writing(u)
  BY Exclusion DEF WriterExclusion, Writing, Reading
<1>2. QED
  BY <1>1 DEF FileInv

LEMMA SnapStep ==
  ASSUME CalmFaults, OneSpellingPerProcess, TypeOK, LockInv, FileInv, SnapInv, [Next]_vars
  PROVE  SnapInv'
<1>1. /\ pc \in [Thread -> {"idle", "enter", "lock exclusive", "write", "sync",
                            "lock shared", "locked shared", "parse"}]
      /\ snap \in [Thread -> Seq(Cell)]
  BY DEF TypeOK
<1>2. CASE UNCHANGED vars
  BY <1>2, SnapKept DEF vars
<1>3. ASSUME NEW t \in Thread, snap' = snap, NEW s, s # "parse", pc' = [pc EXCEPT ![t] = s]
      PROVE  SnapInv'
  <2>1. \A u \in Thread : pc'[u] = "parse" => pc[u] = "parse" /\ snap'[u] = snap[u]
    BY <1>1, <1>3
  <2>2. QED
    BY <2>1, SnapKept
<1>4. ASSUME NEW t \in Thread, NEW r, Return(t, r)
      PROVE  SnapInv'
  <2>1. \A u \in Thread : pc'[u] = "parse" => pc[u] = "parse" /\ snap'[u] = snap[u]
    BY <1>1, <1>4 DEF Return
  <2>2. QED
    BY <2>1, SnapKept
<1>5. ASSUME NEW t \in Thread, Call(t) \/ EnterAppend(t) \/ LockExclusive(t) \/ LockShared(t)
      PROVE  SnapInv'
  <2>1. snap' = snap
    BY <1>5 DEF Call, EnterAppend, LockExclusive, LockShared
  <2>2. \E s \in {"enter", "lock exclusive", "write", "locked shared"} : pc' = [pc EXCEPT ![t] = s]
    BY <1>5 DEF Call, EnterAppend, LockExclusive, LockShared
  <2>3. QED
    BY <1>3, <2>1, <2>2
<1>6. ASSUME NEW t \in Thread, Write(t) PROVE SnapInv'
  <2>1. snap' = snap /\ \E s \in {"write", "sync"} : pc' = [pc EXCEPT ![t] = s]
    BY <1>6 DEF Write
  <2>2. QED
    BY <1>3, <2>1
<1>7. ASSUME NEW t \in Thread, WriteFails(t) \/ Sync(t) \/ SyncFails(t) \/ OpenFails(t) \/ Parse(t) \/ ProbeSize(t)
      PROVE  SnapInv'
  BY <1>4, <1>7 DEF WriteFails, Sync, SyncFails, OpenFails, Parse, ProbeSize
<1>8. ASSUME NEW t \in Thread, EnterRead(t) PROVE SnapInv'
  <2>1. CASE exists
    <3>1. snap' = snap /\ pc' = [pc EXCEPT ![t] = "lock shared"]
      BY <1>8, <2>1 DEF EnterRead
    <3>2. QED
      BY <1>3, <3>1
  <2>2. CASE ~exists
    BY <1>4, <1>8, <2>2 DEF EnterRead
  <2>3. QED
    BY <2>1, <2>2
<1>9. ASSUME NEW t \in Thread, Map(t) PROVE SnapInv'
  <2>1. CASE file = <<>>
    BY <1>4, <1>9, <2>1 DEF Map
  <2>2. CASE file # <<>>
    <3>1. /\ pc[t] = "locked shared" /\ snap' = [snap EXCEPT ![t] = file]
          /\ pc' = [pc EXCEPT ![t] = "parse"]
      BY <1>9, <2>2 DEF Map
    <3>2. Parsed(file).whole
      BY <3>1, ReaderSeesWhole
    <3>3. \A u \in Thread : u # t => pc'[u] = pc[u] /\ snap'[u] = snap[u]
      BY <1>1, <3>1
    <3>4. snap'[t] = file
      BY <1>1, <3>1
    <3>5. QED
      BY <3>2, <3>3, <3>4 DEF SnapInv
  <2>3. QED
    BY <2>1, <2>2
<1>10. QED
  BY <1>2, <1>5, <1>6, <1>7, <1>8, <1>9, NobodyDies DEF Next, AppendStep, ReadStep

\* No reply of the parser's is a token.
Plain(r) == "token" \notin DOMAIN r

LEMMA PlainReplies ==
  /\ Plain(Error) /\ Plain(NoReply) /\ \A v : Plain(Records(v))
  /\ \A f, max, from : Plain(Skip(ForEachMappedRecord(f, max), from))
<1>1. Plain(Error) /\ Plain(NoReply) /\ \A v : Plain(Records(v))
  BY DEF Plain, Error, NoReply, Records
<1>2. ASSUME NEW f, NEW max, NEW from PROVE Plain(Skip(ForEachMappedRecord(f, max), from))
  <2>1. \/ ForEachMappedRecord(f, max) = Error
        \/ \E v : ForEachMappedRecord(f, max) = Records(v)
    BY DEF ForEachMappedRecord
  <2>2. PICK r : r = ForEachMappedRecord(f, max) /\ Plain(r)
    BY <1>1, <2>1
  <2>3. QED
    BY <1>1, <2>2 DEF Skip
<1>3. QED
  BY <1>1, <1>2

\* reply is a function of the threads, and no token is larger than the file.
ReplyInv == TokenInv /\ reply = [t \in Thread |-> reply[t]]

LEMMA ReplyStays ==
  ASSUME TypeOK, TypeOK', ReplyInv, reply' = reply, Len(file') >= Len(file)
  PROVE  ReplyInv'
<1>1. Len(file) \in Nat /\ Len(file') \in Nat
  BY LenProperties DEF TypeOK
<1>2. \A n \in 0..Len(file) : n \in 0..Len(file')
  BY <1>1
<1>3. QED
  BY <1>2 DEF ReplyInv, TokenInv

LEMMA ReplyReturned ==
  ASSUME TypeOK, ReplyInv, NEW t \in Thread, NEW r, Return(t, r), file' = file,
         Plain(r) \/ r = Token(0) \/ r = Token(Len(file))
  PROVE  ReplyInv'
<1>1. Len(file) \in Nat
  BY LenProperties DEF TypeOK
<1>2. Plain(r) \/ r.token \in 0..Len(file)
  BY <1>1 DEF Token
<1>3. reply' = [reply EXCEPT ![t] = r] /\ reply = [u \in Thread |-> reply[u]]
  BY DEF Return, ReplyInv
<1>4. reply'[t] = r /\ \A u \in Thread : u # t => reply'[u] = reply[u]
  BY <1>3
<1>5. TokenInv'
  BY <1>2, <1>4 DEF ReplyInv, TokenInv, Plain
<1>6. reply' = [u \in Thread |-> reply'[u]]
  BY <1>3
<1>7. QED
  BY <1>5, <1>6 DEF ReplyInv

LEMMA ReplyStep ==
  ASSUME CalmFaults, TypeOK, TypeOK', ReplyInv, [Next]_vars
  PROVE  ReplyInv'
<1> USE DEF disk, locks
<1>1. file \in Seq(Cell) /\ Len(file) \in Nat
  BY LenProperties DEF TypeOK
<1>2. ASSUME reply' = reply, file' = file PROVE ReplyInv'
  BY <1>1, <1>2, ReplyStays
<1>3. CASE UNCHANGED vars
  BY <1>2, <1>3 DEF vars
<1>4. ASSUME NEW t \in Thread, Call(t) \/ EnterAppend(t) \/ LockExclusive(t) \/ LockShared(t)
      PROVE  ReplyInv'
  BY <1>2, <1>4 DEF Call, EnterAppend, LockExclusive, LockShared
<1>5. ASSUME NEW t \in Thread, Write(t) PROVE ReplyInv'
  <2>1. PICK n \in 1..Len(buf[t]) : PutCells(t, n)
    BY <1>5 DEF Write
  <2>2. PICK c \in Seq(Cell) : file' = file \o c
    <3>1. PICK b \in Seq(Cell) : b = buf[t]
      BY DEF TypeOK
    <3>2. SubSeq(b, 1, n) \in Seq(Cell)
      BY <2>1, <3>1, CutBuffer, EmptySeq
    <3>3. QED
      BY <2>1, <3>1, <3>2 DEF PutCells
  <2>3. Len(file') >= Len(file)
    BY <1>1, <2>2, ConcatProperties, LenProperties
  <2>4. QED
    BY <1>5, <2>3, ReplyStays DEF Write
<1>6. ASSUME NEW t \in Thread, WriteFails(t) \/ Sync(t) \/ SyncFails(t) \/ OpenFails(t) \/ Parse(t)
      PROVE  ReplyInv'
  <2>1. file' = file /\ \E r : Return(t, r) /\ Plain(r)
    BY <1>6, PlainReplies DEF WriteFails, Sync, SyncFails, OpenFails, Parse
  <2>2. QED
    BY <2>1, ReplyReturned
<1>7. ASSUME NEW t \in Thread, ProbeSize(t) PROVE ReplyInv'
  BY <1>7, ReplyReturned DEF ProbeSize
<1>8. ASSUME NEW t \in Thread, EnterRead(t) PROVE ReplyInv'
  <2>1. CASE exists
    BY <1>2, <1>8, <2>1 DEF EnterRead
  <2>2. CASE ~exists
    <3>1. file' = file /\ \E r : Return(t, r) /\ (Plain(r) \/ r = Token(0))
      BY <1>8, <2>2, PlainReplies DEF EnterRead
    <3>2. QED
      BY <3>1, ReplyReturned
  <2>3. QED
    BY <2>1, <2>2
<1>9. ASSUME NEW t \in Thread, Map(t) PROVE ReplyInv'
  <2>1. CASE file = <<>>
    <3>1. file' = file /\ \E r : Return(t, r) /\ Plain(r)
      BY <1>9, <2>1, PlainReplies DEF Map
    <3>2. QED
      BY <3>1, ReplyReturned
  <2>2. CASE file # <<>>
    BY <1>2, <1>9, <2>2 DEF Map
  <2>3. QED
    BY <2>1, <2>2
<1>10. QED
  BY <1>3, <1>4, <1>5, <1>6, <1>7, <1>8, <1>9, NobodyDies DEF Next, AppendStep, ReadStep

-----------------------------------------------------------------------------
(* Every step is one of EventSink's, or none *)

LEMMA CutOfCut ==
  ASSUME NEW s \in Seq(Record), NEW a \in Nat, NEW m \in 0..Len(s)
  PROVE  /\ Len(SubSeq(s, 1, m)) = m
         /\ SubSeq(SubSeq(s, 1, m), a + 1, m) = SubSeq(s, a + 1, m)
<1>1. PICK l \in Nat : l = Len(s) /\ m \in Nat /\ m <= l
  BY LenProperties
<1>2. \A i \in 1..m : i \in 1..l /\ s[i] \in Record
  BY <1>1, ElementOfSeq
<1>3. Len(SubSeq(s, 1, m)) = m
  <2>1. Len(SubSeq(s, 1, m)) = IF 1 <= m THEN m - 1 + 1 ELSE 0
    BY <1>1, <1>2, SubSeqProperties
  <2>2. QED
    BY <1>1, <2>1
<1>4. CASE a + 1 <= m
  <2>1. /\ 1 \in 1..l /\ m \in 1..l /\ a + 1 \in 1..m - 1 + 1 /\ m \in 1..m - 1 + 1
        /\ 1 + (a + 1) - 1 = a + 1 /\ 1 + m - 1 = m
    BY <1>1, <1>4
  <2>2. SubSeq(SubSeq(s, 1, m), a + 1, m) = SubSeq(s, 1 + (a + 1) - 1, 1 + m - 1)
    BY <1>1, <2>1, SubSeqOfSubSeq
  <2>3. QED
    BY <1>3, <2>1, <2>2
<1>5. CASE ~(a + 1 <= m)
  <2>1. a + 1 \in Int /\ m \in Int /\ m < a + 1
    BY <1>1, <1>5
  <2>2. QED
    BY <1>3, <2>1, SubSeqEmpty
<1>6. QED
  BY <1>4, <1>5

\* What a read of an undamaged file returns.
LEMMA ReadsView ==
  ASSUME NEW f \in Seq(Cell), Parsed(f).whole, NEW from \in Nat, NEW max \in Nat
  PROVE  Skip(ForEachMappedRecord(f, max), from) =
           Records(SubSeq(Parsed(f).records, from + 1,
                          IF max < Len(Parsed(f).records) THEN max ELSE Len(Parsed(f).records)))
<1>1. PICK s \in Seq(Record), l \in Nat : s = Parsed(f).records /\ l = Len(s)
  BY ParsedType, LenProperties DEF Outcome, Record
<1>2. CASE max <= l
  <2>1. max \in 0..Len(s) /\ (IF max < l THEN max ELSE l) = max
    BY <1>1, <1>2
  <2>2. PICK v : v = SubSeq(s, 1, max) /\ Len(v) = max
                 /\ SubSeq(v, from + 1, max) = SubSeq(s, from + 1, max)
    BY <2>1, CutOfCut
  <2>3. ForEachMappedRecord(f, max) = Records(v)
    BY <1>1, <1>2, <2>2 DEF ForEachMappedRecord
  <2>4. Skip(Records(v), from) = Records(SubSeq(v, from + 1, Len(v)))
    BY DEF Skip, Records
  <2>5. QED
    BY <1>1, <2>1, <2>2, <2>3, <2>4
<1>3. CASE ~(max <= l)
  <2>1. (IF max < l THEN max ELSE l) = l
    BY <1>1, <1>3
  <2>2. ForEachMappedRecord(f, max) = Records(s)
    BY <1>1, <1>3 DEF ForEachMappedRecord
  <2>3. Skip(Records(s), from) = Records(SubSeq(s, from + 1, Len(s)))
    BY DEF Skip, Records
  <2>4. QED
    BY <1>1, <2>1, <2>2, <2>3
<1>4. QED
  BY <1>2, <1>3

LEMMA ViewOfRead ==
  ASSUME TypeOK, Parsed(file).whole, NEW c \in CallType, c.op = "read"
  PROVE  Records(Sink!View(c)) = Skip(ForEachMappedRecord(file, c.max), c.from)
<1>1. c.from \in Nat /\ c.max \in Nat /\ c.op # "probe"
  BY DEF CallType, ProbeCall
<1>2. Sink!View(c) = SubSeq(Parsed(file).records, c.from + 1,
        IF c.max < Len(Parsed(file).records) THEN c.max ELSE Len(Parsed(file).records))
  BY <1>1 DEF Sink!View, SinkLog
<1>3. file \in Seq(Cell)
  BY DEF TypeOK
<1>4. QED
  BY <1>1, <1>2, <1>3, ReadsView

LEMMA ViewOfProbe ==
  ASSUME NEW c, c.op = "probe"
  PROVE  Sink!View(c) = Parsed(file).records
BY DEF Sink!View, SinkLog

\* An empty file is read as no records, whatever is asked of it.
LEMMA ViewOfNothing ==
  ASSUME TypeOK, file = <<>>, NEW c \in CallType, c.op \in {"read", "probe"}
  PROVE  Sink!View(c) = <<>>
<1>1. Parsed(file).whole /\ Parsed(file).records = <<>> /\ Len(<<>>) = 0
  BY MagicParsed, EmptySeq DEF Ended
<1>2. CASE c.op = "probe"
  BY <1>1, <1>2, ViewOfProbe
<1>3. CASE c.op = "read"
  <2>1. c.from \in Nat /\ c.max \in Nat /\ c.op # "probe"
    BY <1>3 DEF CallType, ProbeCall
  <2>2. (IF c.max < 0 THEN c.max ELSE 0) = 0 /\ c.from + 1 \in Int /\ 0 < c.from + 1 /\ 0 \in Int
    BY <2>1
  <2>3. Sink!View(c) = SubSeq(<<>>, c.from + 1, 0)
    BY <1>1, <2>1, <2>2 DEF Sink!View, SinkLog
  <2>4. QED
    BY <2>2, <2>3, SubSeqEmpty
<1>4. QED
  BY <1>2, <1>3

\* What a caller waits for, by where it is in its call.
LEMMA RequestAt ==
  ASSUME NEW t \in Thread
  PROVE  /\ pc[t] = "idle" => SinkRequest[t] = Sink!Idle
         /\ pc[t] = "sync" => SinkRequest[t] = Sink!Effect(<<>>)
         /\ pc[t] = "parse" => SinkRequest[t] =
              Sink!Effect(Skip(ForEachMappedRecord(snap[t], call[t].max), call[t].from).value)
         /\ pc[t] \notin {"idle", "sync", "parse"} => SinkRequest[t] = call[t]
BY DEF SinkRequest, Sink!Idle, Sink!Effect

LEMMA RequestThen ==
  ASSUME NEW t \in Thread
  PROVE  /\ pc'[t] = "idle" => SinkRequest'[t] = Sink!Idle
         /\ pc'[t] = "sync" => SinkRequest'[t] = Sink!Effect(<<>>)
         /\ pc'[t] = "parse" => SinkRequest'[t] =
              Sink!Effect(Skip(ForEachMappedRecord(snap'[t], call'[t].max), call'[t].from).value)
         /\ pc'[t] \notin {"idle", "sync", "parse"} => SinkRequest'[t] = call'[t]
BY DEF SinkRequest, Sink!Idle, Sink!Effect

\* Only the request of the thread that moves can change.
LEMMA RequestChange ==
  ASSUME NEW t \in Thread,
         \A u \in Thread \ {t} : pc'[u] = pc[u] /\ call'[u] = call[u] /\ snap'[u] = snap[u]
  PROVE  SinkRequest' = [SinkRequest EXCEPT ![t] = SinkRequest'[t]]
<1>1. \A u \in Thread \ {t} : SinkRequest'[u] = SinkRequest[u]
  BY DEF SinkRequest
<1>2. /\ SinkRequest = [u \in Thread |-> SinkRequest[u]]
      /\ SinkRequest' = [u \in Thread |-> SinkRequest'[u]]
  BY DEF SinkRequest
<1> HIDE DEF SinkRequest
<1>3. QED
  BY <1>1, <1>2

\* A step inside a call that changes neither the file nor a reply is seen as none.
LEMMA Unseen ==
  ASSUME TypeOK, TypeOK', NEW t \in Thread,
         \A u \in Thread \ {t} : pc'[u] = pc[u] /\ call'[u] = call[u] /\ snap'[u] = snap[u],
         pc[t] \notin {"idle", "sync", "parse"}, pc'[t] \notin {"idle", "sync", "parse"},
         call'[t] = call[t], SinkLog' = SinkLog, SinkAnswer' = SinkAnswer
  PROVE  UNCHANGED Sink!vars
<1>1. SinkRequest'[t] = call[t] /\ SinkRequest[t] = call[t]
  BY RequestAt, RequestThen
<1>2. SinkRequest' = [SinkRequest EXCEPT ![t] = call[t]]
  BY <1>1, RequestChange
<1>3. SinkRequest = [u \in Thread |-> SinkRequest[u]]
  BY DEF SinkRequest
<1>4. SinkRequest' = SinkRequest
  BY <1>1, <1>2, <1>3
<1>5. QED
  BY <1>4 DEF Sink!vars

LEMMA SameFile ==
  ASSUME file' = file
  PROVE  SinkLog' = SinkLog /\ (reply' = reply => SinkAnswer' = SinkAnswer)
BY DEF SinkLog, SinkAnswer

\* What a reply says of the file.
Said(r) ==
  IF "token" \in DOMAIN r THEN Records(Parsed(SubSeq(file, 1, r.token)).records) ELSE r

LEMMA PlainSaid == ASSUME NEW r, Plain(r) PROVE Said(r) = r
BY DEF Plain, Said

LEMMA TokenSaid ==
  ASSUME NEW n
  PROVE  Said(Token(n)) = Records(Parsed(SubSeq(file, 1, n)).records)
BY DEF Said, Token

LEMMA Returned ==
  ASSUME TypeOK, ReplyInv, NEW t \in Thread, NEW r, Return(t, r), call' = call, file' = file
  PROVE  /\ SinkRequest' = [SinkRequest EXCEPT ![t] = Sink!Idle]
         /\ SinkAnswer' = [SinkAnswer EXCEPT ![t] = Said(r)]
         /\ SinkLog' = SinkLog
<1>1. /\ pc'[t] = "idle"
      /\ \A u \in Thread \ {t} : pc'[u] = pc[u] /\ call'[u] = call[u] /\ snap'[u] = snap[u]
  BY DEF Return, TypeOK
<1>2. SinkRequest'[t] = Sink!Idle
  BY <1>1, RequestThen
<1>3. SinkRequest' = [SinkRequest EXCEPT ![t] = Sink!Idle]
  BY <1>1, <1>2, RequestChange
<1>4. reply' = [reply EXCEPT ![t] = r] /\ reply = [u \in Thread |-> reply[u]]
  BY DEF Return, ReplyInv
<1>5. reply'[t] = r /\ \A u \in Thread \ {t} : reply'[u] = reply[u]
  BY <1>4
<1>6. /\ SinkAnswer = [u \in Thread |-> Said(reply[u])]
      /\ SinkAnswer' = [u \in Thread |-> Said(reply'[u])]
  BY DEF SinkAnswer, Said
<1>7. SinkAnswer' = [SinkAnswer EXCEPT ![t] = Said(r)]
  BY <1>5, <1>6
<1>8. QED
  BY <1>3, <1>7, SameFile

LEMMA CallOps ==
  ASSUME NEW c \in CallType
  PROVE  c.op \in {"append", "read", "probe"}
BY DEF CallType, ProbeCall

LEMMA ReturnsEffect ==
  ASSUME TypeOK, ReplyInv, NEW t \in Thread, NEW r, Return(t, r), call' = call, file' = file,
         NEW v, SinkRequest[t] = Sink!Effect(v), Said(r) = Records(v)
  PROVE  Sink!Return(t)
<1>1. SinkRequest[t].op = "effect" /\ SinkRequest[t].value = v
  BY DEF Sink!Effect
<1>2. Said(r) = Sink!Succeeded(v)
  BY DEF Records, Sink!Succeeded
<1>3. QED
  BY <1>1, <1>2, Returned DEF Sink!Return

LEMMA ReturnsView ==
  ASSUME TypeOK, ReplyInv, NEW t \in Thread, NEW r, Return(t, r), call' = call, file' = file,
         NEW c, SinkRequest[t] = c, c.op \in {"read", "probe"}, Said(r) = Records(Sink!View(c))
  PROVE  Sink!Return(t)
<1>1. Said(r) = Sink!Succeeded(Sink!View(c)) /\ c.op # "effect"
  BY DEF Records, Sink!Succeeded
<1>2. QED
  BY <1>1, Returned DEF Sink!Return

LEMMA ReturnsError ==
  ASSUME TypeOK, ReplyInv, NEW t \in Thread, Return(t, Error), call' = call, file' = file,
         pc[t] \notin {"idle", "parse"}
  PROVE  Sink!Fail(t)
<1>1. SinkRequest[t].op # "idle"
  <2>1. CASE pc[t] = "sync"
    <3>1. SinkRequest[t] = Sink!Effect(<<>>)
      BY <2>1, RequestAt
    <3>2. QED
      BY <3>1 DEF Sink!Effect
  <2>2. CASE pc[t] # "sync"
    BY <2>2, RequestAt, CallOps DEF TypeOK
  <2>3. QED
    BY <2>1, <2>2
<1>2. SinkRequest[t] # Sink!Idle
  BY <1>1 DEF Sink!Idle
<1>3. Said(Error) = Sink!Failed
  BY PlainReplies, PlainSaid DEF Error, Sink!Failed
<1>4. QED
  BY <1>2, <1>3, Returned DEF Sink!Fail

LEMMA CallRefines ==
  ASSUME TypeOK, NEW t \in Thread, Call(t)
  PROVE  Sink!Call(t)
<1> USE DEF disk, locks
<1>1. PICK c \in CallsOf[t] : call' = [call EXCEPT ![t] = c]
  BY DEF Call
<1>2. /\ pc[t] = "idle" /\ pc'[t] = "enter" /\ call'[t] = c /\ file' = file /\ reply' = reply
      /\ \A u \in Thread \ {t} : pc'[u] = pc[u] /\ call'[u] = call[u] /\ snap'[u] = snap[u]
  BY <1>1 DEF Call, TypeOK
<1>3. SinkRequest[t] = Sink!Idle /\ SinkRequest'[t] = c
  BY <1>2, RequestAt, RequestThen
<1>4. SinkRequest' = [SinkRequest EXCEPT ![t] = c]
  BY <1>2, <1>3, RequestChange
<1>5. SinkLog' = SinkLog /\ SinkAnswer' = SinkAnswer
  BY <1>2, SameFile
<1>6. QED
  BY <1>1, <1>3, <1>4, <1>5 DEF Sink!Call

\* A write in the middle of a record is not seen; the write that ends it puts
\* the record in the log.
LEMMA WriteRefines ==
  ASSUME OneSpellingPerProcess, TypeOK, TypeOK', LockInv, FileInv, FileInv', ReplyInv,
         NEW t \in Thread, Write(t)
  PROVE  Sink!Commit(t) \/ UNCHANGED Sink!vars
<1> USE DEF disk, locks
<1>1. /\ pc \in [Thread -> {"idle", "enter", "lock exclusive", "write", "sync",
                            "lock shared", "locked shared", "parse"}]
      /\ buf \in [Thread -> Seq(Cell)] /\ call \in [Thread -> CallType]
      /\ file \in Seq(Cell) /\ file' \in Seq(Cell)
  BY DEF TypeOK
<1>2. PICK n \in 1..Len(buf[t]) :
        PutCells(t, n) /\ pc' = [pc EXCEPT ![t] = IF n = Len(buf[t]) THEN "sync" ELSE "write"]
  BY DEF Write
<1>3. PICK b \in Seq(Cell) : b = buf[t]
  BY <1>1
<1>4. PICK c \in Seq(Cell), d \in Seq(Cell) :
        /\ c = SubSeq(b, 1, n) /\ d = SubSeq(b, n + 1, Len(b))
        /\ (file \o c) \o d = file \o b
  <2>1. n \in 1..Len(b)
    BY <1>2, <1>3
  <2>2. /\ SubSeq(b, 1, n) \in Seq(Cell) /\ SubSeq(b, n + 1, Len(b)) \in Seq(Cell)
        /\ (file \o SubSeq(b, 1, n)) \o SubSeq(b, n + 1, Len(b)) = file \o b
    BY <1>1, <2>1, CutBuffer
  <2>3. QED
    BY <2>2
<1>5. /\ file' = file \o c /\ buf' = [buf EXCEPT ![t] = d] /\ call' = call /\ snap' = snap
      /\ reply' = reply /\ pc[t] = "write"
  BY <1>2, <1>3, <1>4 DEF PutCells, Write
<1>6. buf[t] # <<>> /\ Underway(t)
  BY <1>5 DEF FileInv, Writing, Underway
<1>7. PICK p \in Payload : p = call[t].payload
  BY <1>5, AppendCallType DEF TypeOK, Appending
<1>8. PICK g \in Seq(Cell) : /\ Parsed(g).whole /\ g # <<>> /\ file \o b = g \o MakeRecord(p)
                             /\ Len(file) >= Len(g) \/ g = Magic
  BY <1>3, <1>6, <1>7 DEF Underway
<1>9. SinkLog = Parsed(g).records
  <2>1. Parsed(file).records = Parsed(g).records
    <3>1. PICK f \in Seq(Cell) : f = file
      BY <1>1
    <3>2. BeingWritten(f, b, g, p)
      BY <1>3, <1>6, <1>8, <3>1 DEF BeingWritten
    <3>3. Parsed(f).records = Parsed(g).records
      BY <3>2, RecordsSoFar
    <3>4. QED
      BY <3>1, <3>3
  <2>2. QED
    BY <2>1 DEF SinkLog
<1>10. SinkAnswer' = SinkAnswer
  <2>1. ASSUME NEW u \in Thread, "token" \in DOMAIN reply[u]
        PROVE  SubSeq(file', 1, reply[u].token) = SubSeq(file, 1, reply[u].token)
    <3>1. reply[u].token \in 0..Len(file)
      BY <2>1 DEF ReplyInv, TokenInv
    <3>2. Len(file) \in Nat
      BY <1>1, LenProperties
    <3>3. reply[u].token \in Nat /\ reply[u].token <= Len(file)
      BY <3>1, <3>2
    <3>4. QED
      BY <1>1, <1>5, <3>3, SyncedIsKept
  <2>2. QED
    BY <1>5, <2>1 DEF SinkAnswer
<1>11. \A u \in Thread \ {t} : pc'[u] = pc[u] /\ call'[u] = call[u] /\ snap'[u] = snap[u]
  BY <1>1, <1>2, <1>5
<1>12. CASE pc'[t] = "sync"
  <2>1. Writing(t)' /\ Underway(t)'
    BY <1>12 DEF FileInv, Writing
  <2>2. d = <<>>
    BY <1>1, <1>5, <1>12, <2>1 DEF Underway
  <2>3. file' = g \o MakeRecord(p)
    <3>1. (file \o c) \o d = file \o c
      BY <1>1, <1>5, <2>2, ConcatEmptySeq
    <3>2. QED
      BY <1>4, <1>5, <1>8, <3>1
  <2>4. SinkLog' = Append(SinkLog, p)
    <3>1. Parsed(g \o MakeRecord(p)).records = Append(Parsed(g).records, p)
      BY <1>8, RecordEnters
    <3>2. QED
      BY <1>9, <2>3, <3>1 DEF SinkLog
  <2>5. SinkRequest[t] = call[t]
    BY <1>5, RequestAt
  <2>6. SinkRequest'[t] = Sink!Effect(<<>>)
    BY <1>12, RequestThen
  <2>7. SinkRequest' = [SinkRequest EXCEPT ![t] = Sink!Effect(<<>>)]
    BY <1>11, <2>6, RequestChange
  <2>8. call[t].op = "append"
    BY <1>5 DEF TypeOK, Appending
  <2>9. Sink!Commit(t)
    BY <1>7, <1>10, <2>4, <2>5, <2>7, <2>8 DEF Sink!Commit
  <2>10. QED
    BY <2>9
<1>13. CASE pc'[t] # "sync"
  <2>1. pc'[t] = "write"
    BY <1>1, <1>2, <1>13
  <2>2. Writing(t)' /\ Underway(t)'
    BY <2>1 DEF FileInv, Writing
  <2>3. d # <<>>
    BY <1>1, <1>5, <2>1, <2>2 DEF Underway
  <2>4. PICK h \in Seq(Cell) :
          /\ Parsed(h).whole /\ h # <<>> /\ file' \o d = h \o MakeRecord(p)
          /\ Len(file') >= Len(h) \/ h = Magic
    <3>1. buf'[t] = d /\ call'[t].payload = p
      BY <1>1, <1>5, <1>7
    <3>2. QED
      BY <2>2, <3>1 DEF Underway
  <2>5. h = g
    <3>1. file' \o d = file \o b
      BY <1>4, <1>5
    <3>2. h \o MakeRecord(p) = g \o MakeRecord(p) /\ MakeRecord(p) \in Seq(Cell)
      BY <1>8, <2>4, <3>1, RecordCells
    <3>3. QED
      BY <3>2, ConcatSimplifications
  <2>6. Parsed(file').records = Parsed(h).records
    <3>1. PICK f \in Seq(Cell) : f = file'
      BY <1>1
    <3>2. BeingWritten(f, d, h, p)
      BY <2>3, <2>4, <3>1 DEF BeingWritten
    <3>3. Parsed(f).records = Parsed(h).records
      BY <3>2, RecordsSoFar
    <3>4. QED
      BY <3>1, <3>3
  <2>7. SinkLog' = SinkLog
    BY <1>9, <2>5, <2>6 DEF SinkLog
  <2>8. QED
    BY <1>5, <1>10, <1>11, <2>1, <2>7, Unseen
<1>14. QED
  BY <1>12, <1>13

LEMMA StepRefines ==
  ASSUME CalmFaults, OneSpellingPerProcess, TypeOK, TypeOK', LockInv, ExistInv, FileInv, FileInv',
         SnapInv, ReplyInv, NEW t \in Thread,
         AppendStep(t) \/ ReadStep(t) \/ OpenFails(t)
  PROVE  Sink!Next \/ UNCHANGED Sink!vars
<1> USE DEF disk, locks
<1>1. /\ pc \in [Thread -> {"idle", "enter", "lock exclusive", "write", "sync",
                            "lock shared", "locked shared", "parse"}]
      /\ call \in [Thread -> CallType] /\ call[t] \in CallType
      /\ snap \in [Thread -> Seq(Cell)] /\ file \in Seq(Cell)
  BY DEF TypeOK
<1>2. CASE EnterAppend(t) \/ LockExclusive(t) \/ LockShared(t) \/ (EnterRead(t) /\ exists)
  <2>1. /\ file' = file /\ reply' = reply /\ call' = call /\ snap' = snap
        /\ pc[t] \in {"enter", "lock exclusive", "lock shared"}
        /\ \E s \in {"lock exclusive", "write", "lock shared", "locked shared"} :
             pc' = [pc EXCEPT ![t] = s]
    BY <1>2 DEF EnterAppend, LockExclusive, LockShared, EnterRead, TakeMutex
  <2>2. pc'[t] \notin {"idle", "sync", "parse"} /\ \A u \in Thread \ {t} : pc'[u] = pc[u]
    BY <1>1, <2>1
  <2>3. QED
    BY <2>1, <2>2, SameFile, Unseen
<1>3. CASE Write(t)
  BY <1>3, WriteRefines DEF Sink!Next
<1>4. CASE WriteFails(t) \/ SyncFails(t) \/ OpenFails(t)
  <2>1. Return(t, Error) /\ call' = call /\ file' = file /\ pc[t] \notin {"idle", "parse"}
    BY <1>4 DEF WriteFails, SyncFails, OpenFails
  <2>2. QED
    BY <2>1, ReturnsError DEF Sink!Next
<1>5. CASE Sync(t)
  <2>1. Return(t, NoReply) /\ call' = call /\ file' = file /\ pc[t] = "sync"
    BY <1>5 DEF Sync
  <2>2. SinkRequest[t] = Sink!Effect(<<>>) /\ Said(NoReply) = Records(<<>>)
    BY <2>1, RequestAt, PlainReplies, PlainSaid DEF NoReply
  <2>3. QED
    BY <2>1, <2>2, ReturnsEffect DEF Sink!Next
<1>6. CASE EnterRead(t) /\ ~exists
  <2>1. /\ call' = call /\ file' = file /\ pc[t] = "enter" /\ call[t].op \in {"read", "probe"}
        /\ Return(t, IF call[t].op = "read" THEN Records(<<>>) ELSE Token(0))
    BY <1>6 DEF EnterRead
  <2>2. file = <<>>
    BY <1>6 DEF ExistInv
  <2>3. SinkRequest[t] = call[t]
    BY <2>1, RequestAt
  <2>4. Sink!View(call[t]) = <<>>
    BY <1>1, <2>1, <2>2, ViewOfNothing
  <2>5. Said(Records(<<>>)) = Records(<<>>)
    BY PlainReplies, PlainSaid
  <2>6. Said(Token(0)) = Records(<<>>)
    <3>1. SubSeq(file, 1, 0) = <<>>
      BY SubSeqEmpty
    <3>2. QED
      <4>1. Parsed(<<>>).records = <<>>
        BY MagicParsed DEF Ended
      <4>2. Said(Token(0)) = Records(Parsed(SubSeq(file, 1, 0)).records)
        BY TokenSaid
      <4>3. QED
        BY <3>1, <4>1, <4>2
  <2>7. PICK r : Return(t, r) /\ Said(r) = Records(<<>>)
    BY <2>1, <2>5, <2>6
  <2>8. QED
    BY <2>1, <2>3, <2>4, <2>7, ReturnsView DEF Sink!Next
<1>7. CASE Map(t) /\ file = <<>>
  <2>1. /\ call' = call /\ file' = file /\ pc[t] = "locked shared" /\ call[t].op = "read"
        /\ Return(t, Records(<<>>))
    BY <1>7 DEF Map
  <2>2. SinkRequest[t] = call[t]
    BY <2>1, RequestAt
  <2>3. Sink!View(call[t]) = <<>>
    BY <1>1, <1>7, <2>1, ViewOfNothing
  <2>4. Said(Records(<<>>)) = Records(<<>>)
    BY PlainReplies, PlainSaid
  <2>5. QED
    BY <2>1, <2>2, <2>3, <2>4, ReturnsView DEF Sink!Next
<1>8. CASE Map(t) /\ file # <<>>
  <2>1. /\ call' = call /\ file' = file /\ reply' = reply
        /\ pc[t] = "locked shared" /\ call[t].op = "read"
        /\ snap' = [snap EXCEPT ![t] = file] /\ pc' = [pc EXCEPT ![t] = "parse"]
    BY <1>8 DEF Map
  <2>2. Parsed(file).whole
    BY <2>1, ReaderSeesWhole
  <2>3. SinkRequest[t] = call[t]
    BY <2>1, RequestAt
  <2>4. /\ pc'[t] = "parse" /\ snap'[t] = file
        /\ \A u \in Thread \ {t} : pc'[u] = pc[u] /\ call'[u] = call[u] /\ snap'[u] = snap[u]
    BY <1>1, <2>1
  <2>5. PICK v : v = Sink!View(call[t])
    OBVIOUS
  <2>6. Skip(ForEachMappedRecord(file, call[t].max), call[t].from).value = v
    <3>1. Skip(ForEachMappedRecord(file, call[t].max), call[t].from) = Records(v)
      BY <1>1, <2>1, <2>2, <2>5, ViewOfRead
    <3>2. QED
      BY <3>1 DEF Records
  <2>7. SinkRequest'[t] = Sink!Effect(v)
    BY <2>1, <2>4, <2>6, RequestThen
  <2>8. SinkRequest' = [SinkRequest EXCEPT ![t] = Sink!Effect(v)]
    BY <2>4, <2>7, RequestChange
  <2>9. Sink!Observe(t)
    BY <2>1, <2>3, <2>5, <2>8, SameFile DEF Sink!Observe
  <2>10. QED
    BY <2>9 DEF Sink!Next
<1>9. CASE Parse(t)
  <2>1. /\ call' = call /\ file' = file /\ pc[t] = "parse"
        /\ Return(t, Skip(ForEachMappedRecord(snap[t], call[t].max), call[t].from))
    BY <1>9 DEF Parse
  <2>2. PICK r : r = Skip(ForEachMappedRecord(snap[t], call[t].max), call[t].from)
    OBVIOUS
  <2>3. Plain(r)
    BY <2>2, PlainReplies
  <2>4. PICK v : r = Records(v)
    <3>1. Parsed(snap[t]).whole
      BY <2>1 DEF SnapInv
    <3>2. \E v : ForEachMappedRecord(snap[t], call[t].max) = Records(v)
      BY <3>1 DEF ForEachMappedRecord
    <3>3. PICK v : ForEachMappedRecord(snap[t], call[t].max) = Records(v)
      BY <3>2
    <3>4. \E w : Skip(Records(v), call[t].from) = Records(w)
      BY DEF Skip, Records
    <3>5. QED
      BY <2>2, <3>3, <3>4
  <2>5. r.value = v
    BY <2>4 DEF Records
  <2>6. SinkRequest[t] = Sink!Effect(v)
    BY <2>1, <2>2, <2>5, RequestAt
  <2>7. Said(r) = Records(v)
    BY <2>3, <2>4, PlainSaid
  <2>8. QED
    BY <2>1, <2>2, <2>6, <2>7, ReturnsEffect DEF Sink!Next
<1>10. CASE ProbeSize(t)
  <2>1. /\ call' = call /\ file' = file /\ pc[t] = "locked shared" /\ call[t].op = "probe"
        /\ Return(t, Token(Len(file)))
    BY <1>10 DEF ProbeSize
  <2>2. SinkRequest[t] = call[t]
    BY <2>1, RequestAt
  <2>3. Said(Token(Len(file))) = Records(Parsed(file).records)
    <3>1. SubSeq(file, 1, Len(file)) = file
      BY <1>1, SubSeqFull
    <3>2. QED
      BY <3>1, TokenSaid
  <2>4. Sink!View(call[t]) = Parsed(file).records
    BY <2>1, ViewOfProbe
  <2>5. QED
    BY <2>1, <2>2, <2>3, <2>4, ReturnsView DEF Sink!Next
<1>11. QED
  BY <1>2, <1>3, <1>4, <1>5, <1>6, <1>7, <1>8, <1>9, <1>10 DEF AppendStep, ReadStep

LEMMA InitRefines == Init => Sink!Init
<1> SUFFICES ASSUME Init PROVE Sink!Init
  OBVIOUS
<1>1. SinkLog = <<>>
  BY MagicParsed DEF Init, SinkLog, Ended
<1>2. SinkRequest = [t \in Thread |-> Sink!Idle]
  BY DEF Init, SinkRequest, Sink!Idle
<1>3. \A t \in Thread : reply[t] = NoReply
  BY DEF Init
<1>4. \A t \in Thread : Said(reply[t]) = Sink!Succeeded(<<>>)
  BY <1>3, PlainReplies, PlainSaid DEF NoReply, Records, Sink!Succeeded
<1>5. SinkAnswer = [t \in Thread |-> Sink!Succeeded(<<>>)]
  BY <1>4 DEF SinkAnswer, Said
<1>6. QED
  BY <1>1, <1>2, <1>5 DEF Sink!Init

LEMMA InitSeen == Init => ExistInv /\ FileInv /\ SnapInv /\ ReplyInv
<1> SUFFICES ASSUME Init PROVE ExistInv /\ FileInv /\ SnapInv /\ ReplyInv
  OBVIOUS
<1>1. ExistInv /\ SnapInv
  BY DEF Init, ExistInv, Appending, SnapInv
<1>2. FileInv
  BY MagicParsed DEF Init, FileInv, Writing, Ended
<1>3. reply = [t \in Thread |-> NoReply] /\ \A t \in Thread : reply[t] = NoReply
  BY DEF Init
<1>4. ReplyInv
  BY <1>3, PlainReplies DEF ReplyInv, TokenInv, Plain
<1>5. QED
  BY <1>1, <1>2, <1>4

\* The log behaves like one list of records that every call acts on at one
\* instant, for any threads and processes, as long as writes fail between
\* records only and each process spells the path in one way.
THEOREM ActsAtOnce == CalmFaults /\ OneSpellingPerProcess => (Spec => ImplementsEventSink)
<1> SUFFICES ASSUME CalmFaults, OneSpellingPerProcess PROVE Spec => ImplementsEventSink
  OBVIOUS
<1>1. TypeOK /\ ExistInv /\ [Next]_vars => ExistInv'
  BY ExistStep
<1>2. TypeOK /\ LockInv /\ LockInv' /\ FileInv /\ [Next]_vars => FileInv'
  BY FileStep
<1>3. TypeOK /\ LockInv /\ FileInv /\ SnapInv /\ [Next]_vars => SnapInv'
  BY SnapStep
<1>4. TypeOK /\ TypeOK' /\ ReplyInv /\ [Next]_vars => ReplyInv'
  BY ReplyStep
<1>5. TypeOK /\ TypeOK' /\ LockInv /\ ExistInv /\ FileInv /\ FileInv' /\ SnapInv /\ ReplyInv
        /\ [Next]_vars => [Sink!Next]_(Sink!vars)
  <2> SUFFICES ASSUME TypeOK, TypeOK', LockInv, ExistInv, FileInv, FileInv', SnapInv, ReplyInv,
                      [Next]_vars
               PROVE  Sink!Next \/ UNCHANGED Sink!vars
    OBVIOUS
  <2>1. CASE UNCHANGED vars
    <3>1. SinkRequest' = SinkRequest
      BY <2>1 DEF vars, SinkRequest
    <3>2. QED
      BY <2>1, <3>1, SameFile DEF vars, Sink!vars
  <2>2. ASSUME NEW t \in Thread, Call(t) PROVE Sink!Next
    BY <2>2, CallRefines DEF Sink!Next
  <2>3. ASSUME NEW t \in Thread, AppendStep(t) \/ ReadStep(t) \/ OpenFails(t)
        PROVE  Sink!Next \/ UNCHANGED Sink!vars
    BY <2>3, StepRefines
  <2>4. QED
    BY <2>1, <2>2, <2>3, NobodyDies DEF Next
<1>6. QED
  BY <1>1, <1>2, <1>3, <1>4, <1>5, InitSeen, InitRefines, TypeCorrect, LockInvariant, PTL
  DEF Spec, ImplementsEventSink, Sink!Spec
=============================================================================
