---------------------------- MODULE DurableFile ----------------------------
(***************************************************************************)
(* durable_writer.cc (runtime/platform/checkpoint): DurablyWriteFile and   *)
(* DurablyCreateNewFile of one target, by threads of any processes, system *)
(* call by system call: a temporary file is written and synced, renamed or *)
(* linked to the target's name, and the directory is synced.               *)
(*                                                                         *)
(* An inode has Blocks blocks, of which the medium may have older ones;    *)
(* the target's directory entry has a history, of which the medium has a   *)
(* beginning.  The directory itself is on the medium.                      *)
(***************************************************************************)
EXTENDS Naturals, Sequences

CONSTANTS
  Writer,      \* callers, of any process
  Value,       \* contents
  CallsOf,     \* CallsOf[w]: the calls w may make
  Blocks,      \* blocks of a content, written one at a time
  Nothing,     \* no inode
  MaxCalls,    \* bound: calls a writer makes
  Faults,      \* which of AllFaults may happen
  MaxFaults    \* bound: faults in a behaviour

\* "error": a system call fails; "remove": remove() of the temporary file does;
\* "crash": a thread dies, alone or with its process; "power": the machine does.
AllFaults == {"error", "remove", "crash", "power"}

NoCall == [op |-> "none"]
CallType == [op : {"replace", "create"}, value : Value]
Inode == Writer \X (1..MaxCalls)
Block == 1..Blocks

ASSUME CallsAssumption == CallsOf \in [Writer -> SUBSET CallType]
ASSUME ContentAssumption ==
  Blocks \in Nat \ {0} /\ "hole" \notin Value /\ Nothing \notin Inode
ASSUME BoundsAssumption ==
  MaxCalls \in Nat /\ MaxFaults \in Nat /\ Faults \subseteq AllFaults

VARIABLES
  entries,     \* the inodes the target's name has had, the last one being it
  kept,        \* how many of these entries are known to be on the medium
  temps,       \* temps[n]: the inode that has temporary name n
  data, safe,  \* each inode's blocks: as every process sees them, on the medium
  pc, call,    \* where each writer is in which call
  fd,          \* the inode a writer writes
  at,          \* blocks it has written
  outcome,     \* what a call that cleans up is going to return
  reply,       \* what each writer's last call returned
  calls,       \* calls made so far
  faults,      \* faults so far
  acked        \* history: the inodes of the calls that returned OK

vars == <<entries, kept, temps, data, safe, pc, call, fd, at, outcome, reply,
          calls, faults, acked>>
names == <<entries, kept, temps>>
blocks == <<data, safe>>

Hole == [b \in Block |-> "hole"]
Whole(v) == [b \in Block |-> v]

\* Inodes and temporary names are numbered by the call that makes them.
Own(w) == <<w, calls[w]>>

SharedSuffix(w) == <<CHOOSE v \in Writer : TRUE, 1>>           \* mutant
\* A thread's hash, the time and a counter of the process: that no two calls have the
\* same name is assumed, for those of two processes without a process id to go by.
UniqueTempSuffix(w) == Own(w)

Init ==
  /\ entries = <<>> /\ kept = 0
  /\ temps = [n \in Inode |-> Nothing]
  /\ data = [i \in Inode |-> Hole] /\ safe = [i \in Inode |-> Hole]
  /\ pc = [w \in Writer |-> "idle"]
  /\ call = [w \in Writer |-> NoCall]
  /\ fd = [w \in Writer |-> Nothing]
  /\ at = [w \in Writer |-> 0]
  /\ outcome = [w \in Writer |-> "error"]
  /\ reply = [w \in Writer |-> "none"]
  /\ calls = [w \in Writer |-> 0]
  /\ faults = 0
  /\ acked = {}

Call(w) ==
  /\ pc[w] = "idle" /\ calls[w] < MaxCalls
  /\ \E c \in CallsOf[w] : call' = [call EXCEPT ![w] = c]
  /\ pc' = [pc EXCEPT ![w] = "open"]
  /\ calls' = [calls EXCEPT ![w] = @ + 1]
  /\ UNCHANGED <<names, blocks, fd, at, outcome, reply, faults, acked>>

\* The calls of the writers in W are over, and what they had is forgotten.
End(W, r) ==
  /\ reply' = [w \in Writer |-> IF w \in W THEN r ELSE reply[w]]
  /\ pc' = [w \in Writer |-> IF w \in W THEN "idle" ELSE pc[w]]
  /\ call' = [w \in Writer |-> IF w \in W THEN NoCall ELSE call[w]]
  /\ fd' = [w \in Writer |-> IF w \in W THEN Nothing ELSE fd[w]]
  /\ at' = [w \in Writer |-> IF w \in W THEN 0 ELSE at[w]]
  /\ outcome' = [w \in Writer |-> IF w \in W THEN "error" ELSE outcome[w]]

Return(w, r) == End({w}, r)

Goto(w, label) == pc' = [pc EXCEPT ![w] = label]

-----------------------------------------------------------------------------
(* WriteAndSyncToTemp *)

\* O_CREAT | O_TRUNC: a file that has the name already is emptied.
OpenTemp(w) ==
  /\ pc[w] = "open"
  /\ LET n == UniqueTempSuffix(w)
         i == IF temps[n] = Nothing THEN Own(w) ELSE temps[n]
     IN  /\ temps' = [temps EXCEPT ![n] = i]
         /\ fd' = [fd EXCEPT ![w] = i]
         /\ data' = [data EXCEPT ![i] = Hole]
  /\ Goto(w, "write")
  /\ UNCHANGED <<entries, kept, safe, call, at, outcome, reply, calls, faults, acked>>

WriteBlockPastEnd(w) ==                                        \* mutant
  /\ pc[w] = "write"
  /\ at' = [at EXCEPT ![w] = @ + 1]
  /\ data' = [data EXCEPT ![fd[w]] = [b \in Block |->
       IF b = at'[w] THEN call[w].value ELSE data[fd[w]][b]]]
  /\ Goto(w, IF at'[w] > Blocks THEN "sync" ELSE "write")
  /\ UNCHANGED <<names, safe, call, fd, outcome, reply, calls, faults, acked>>

WriteBlock(w) ==
  /\ pc[w] = "write"
  /\ at' = [at EXCEPT ![w] = @ + 1]
  /\ data' = [data EXCEPT ![fd[w]][at'[w]] = call[w].value]
  /\ Goto(w, IF at'[w] = Blocks THEN "sync" ELSE "write")
  /\ UNCHANGED <<names, safe, call, fd, outcome, reply, calls, faults, acked>>

SyncTempSkipped(w) ==                                          \* mutant
  /\ pc[w] = "sync"
  /\ Goto(w, "publish")
  /\ UNCHANGED <<names, blocks, call, fd, at, outcome, reply, calls, faults, acked>>

SyncTemp(w) ==
  /\ pc[w] = "sync"
  /\ safe' = [safe EXCEPT ![fd[w]] = data[fd[w]]]
  /\ Goto(w, "publish")
  /\ UNCHANGED <<names, data, call, fd, at, outcome, reply, calls, faults, acked>>

-----------------------------------------------------------------------------
(* The target gets its name *)

Temp(w) == temps[UniqueTempSuffix(w)]

Rename(w) ==
  /\ pc[w] = "publish" /\ call[w].op = "replace"
  /\ Temp(w) # Nothing
  /\ entries' = Append(entries, Temp(w))
  /\ temps' = [temps EXCEPT ![UniqueTempSuffix(w)] = Nothing]
  /\ Goto(w, "sync dir")
  /\ UNCHANGED <<kept, blocks, call, fd, at, outcome, reply, calls, faults, acked>>

LinkOver(w) ==                                                 \* mutant
  /\ pc[w] = "publish" /\ call[w].op = "create"
  /\ Temp(w) # Nothing
  /\ entries' = Append(entries, Temp(w))
  /\ Goto(w, "sync dir")
  /\ UNCHANGED <<kept, temps, blocks, call, fd, at, outcome, reply, calls, faults, acked>>

Link(w) ==
  /\ pc[w] = "publish" /\ call[w].op = "create"
  /\ entries = <<>> /\ Temp(w) # Nothing
  /\ entries' = <<Temp(w)>>
  /\ Goto(w, "sync dir")
  /\ UNCHANGED <<kept, temps, blocks, call, fd, at, outcome, reply, calls, faults, acked>>

\* EEXIST.
LinkRefused(w) ==
  /\ pc[w] = "publish" /\ call[w].op = "create"
  /\ entries # <<>>
  /\ outcome' = [outcome EXCEPT ![w] = "exists"]
  /\ Goto(w, "clean up")
  /\ UNCHANGED <<names, blocks, call, fd, at, reply, calls, faults, acked>>

SyncDirectorySkipped(w) ==                                     \* mutant
  /\ pc[w] \in {"sync dir", "sync dir again"}
  /\ Goto(w, IF pc[w] = "sync dir" /\ call[w].op = "create" THEN "remove" ELSE "done")
  /\ UNCHANGED <<names, blocks, call, fd, at, outcome, reply, calls, faults, acked>>

SyncDirectoryOnce(w) ==                                        \* mutant
  /\ pc[w] \in {"sync dir", "sync dir again"}
  /\ kept' = Len(entries)
  /\ Goto(w, "done")
  /\ UNCHANGED <<entries, temps, blocks, call, fd, at, outcome, reply, calls, faults, acked>>

\* Once after the rename; after a link, once more when the temporary name is gone.
SyncDirectory(w) ==
  /\ pc[w] \in {"sync dir", "sync dir again"}
  /\ kept' = Len(entries)
  /\ Goto(w, IF pc[w] = "sync dir" /\ call[w].op = "create" THEN "remove" ELSE "done")
  /\ UNCHANGED <<entries, temps, blocks, call, fd, at, outcome, reply, calls, faults, acked>>

RemoveTemp(w) ==
  /\ pc[w] = "remove"
  /\ temps' = [temps EXCEPT ![UniqueTempSuffix(w)] = Nothing]
  /\ Goto(w, "sync dir again")
  /\ UNCHANGED <<entries, kept, blocks, call, fd, at, outcome, reply, calls, faults, acked>>

Done(w) ==
  /\ pc[w] = "done"
  /\ acked' = acked \cup {fd[w]}
  /\ Return(w, "ok")
  /\ UNCHANGED <<names, blocks, calls, faults>>

-----------------------------------------------------------------------------
(* Failures *)

Fault(kind) == kind \in Faults /\ faults < MaxFaults /\ faults' = faults + 1

\* open, write, fdatasync, rename, link or the first fsync of the directory.
CallFails(w) ==
  /\ pc[w] \in {"open", "write", "sync", "publish", "sync dir"}
  /\ Fault("error")
  /\ Goto(w, "clean up")
  /\ UNCHANGED <<names, blocks, call, fd, at, outcome, reply, calls, acked>>

\* The temporary name is removed, whether or not that works.
CleanUp(w) ==
  /\ pc[w] = "clean up"
  /\ \/ temps' = [temps EXCEPT ![UniqueTempSuffix(w)] = Nothing] /\ UNCHANGED faults
     \/ UNCHANGED temps /\ Fault("remove")
  /\ Return(w, outcome[w])
  /\ UNCHANGED <<entries, kept, blocks, calls, acked>>

\* After the link has been synced an error is returned without more ado.
LateFailure(w) ==
  /\ \/ pc[w] = "remove" /\ Fault("remove")
     \/ pc[w] = "sync dir again" /\ Fault("error")
  /\ Return(w, "error")
  /\ UNCHANGED <<names, blocks, calls, acked>>

Crash(w) ==
  /\ pc[w] # "idle" /\ Fault("crash")
  /\ Return(w, "error")
  /\ UNCHANGED <<names, blocks, calls, acked>>

\* Blocks that were not synced may be lost, one by one, and entries from the end.
\* No later call uses a temporary name again, so it does not matter which remain.
PowerLoss ==
  /\ Fault("power")
  /\ \E lost \in SUBSET {ib \in Inode \X Block : data[ib[1]][ib[2]] # safe[ib[1]][ib[2]]} :
       data' = [i \in Inode |-> [b \in Block |->
                  IF <<i, b>> \in lost THEN safe[i][b] ELSE data[i][b]]]
  /\ safe' = data'
  /\ \E n \in kept..Len(entries) : entries' = SubSeq(entries, 1, n) /\ kept' = n
  /\ End({w \in Writer : pc[w] # "idle"}, "error")
  /\ UNCHANGED <<temps, calls, acked>>

-----------------------------------------------------------------------------
Step(w) ==
  \/ OpenTemp(w) \/ WriteBlock(w) \/ SyncTemp(w)
  \/ Rename(w) \/ Link(w) \/ LinkRefused(w)
  \/ SyncDirectory(w) \/ RemoveTemp(w) \/ Done(w) \/ CleanUp(w)

FaultStep(w) == CallFails(w) \/ LateFailure(w) \/ Crash(w)

Next ==
  \/ \E w \in Writer : Call(w) \/ Step(w) \/ FaultStep(w)
  \/ PowerLoss

Spec == Init /\ [][Next]_vars

-----------------------------------------------------------------------------
(* Properties *)

Labels == {"idle", "open", "write", "sync", "publish", "sync dir", "remove",
           "sync dir again", "done", "clean up"}

TypeOK ==
  /\ entries \in Seq(Inode) /\ kept \in 0..Len(entries)
  /\ temps \in [Inode -> Inode \cup {Nothing}]
  /\ data \in [Inode -> [Block -> Value \cup {"hole"}]]
  /\ safe \in [Inode -> [Block -> Value \cup {"hole"}]]
  /\ pc \in [Writer -> Labels]
  /\ call \in [Writer -> CallType \cup {NoCall}]
  /\ fd \in [Writer -> Inode \cup {Nothing}]
  /\ at \in [Writer -> 0..Blocks]
  /\ outcome \in [Writer -> {"error", "exists"}]
  /\ reply \in [Writer -> {"none", "ok", "error", "exists"}]
  /\ calls \in [Writer -> 0..MaxCalls]
  /\ faults \in 0..MaxFaults
  /\ acked \subseteq Inode
  /\ \A w \in Writer :
       /\ pc[w] # "idle" => call[w] \in CallType /\ Own(w) \in Inode
       /\ pc[w] \in {"idle", "open"} => at[w] = 0
       /\ pc[w] = "write" => at[w] < Blocks
       /\ pc[w] \notin {"idle", "open", "clean up"} => fd[w] \in Inode

\* Whoever opens the target, at whatever moment, before or after a power loss,
\* finds one whole content (durable_writer.h:38-40).
NeverTorn ==
  \A n \in DOMAIN entries : \E v \in Value :
    data[entries[n]] = Whole(v) /\ safe[entries[n]] = Whole(v)

\* What a call has answered OK for is on the medium for good: only a later
\* publication takes its place (durable_writer.h:37).
AckedKept == \A i \in acked : \E n \in 1..kept : entries[n] = i

\* A call that returns leaves no temporary file, whatever failed before: only one
\* whose remove() fails, or that dies, does (durable_writer.cc:193, 198, 226, 240, 254).
NoLitter == [][\A w \in Writer :
  pc[w] # "idle" /\ pc'[w] = "idle" /\ faults' = faults => temps'[Own(w)] = Nothing]_vars

-----------------------------------------------------------------------------
(* Refinement: AtomicFile seen through the directory entry. *)

Versions == [n \in DOMAIN entries |-> data[entries[n]][1]]

\* A call whose inode has the target's name has taken effect, whatever it
\* returns in the end.
Request == [w \in Writer |->
  IF pc[w] = "idle" THEN [op |-> "idle"]
  ELSE IF pc[w] = "clean up" /\ outcome[w] = "exists" THEN [op |-> "refused"]
  ELSE IF \E n \in DOMAIN entries : entries[n] = fd[w]
  THEN [op |-> "published", version |-> CHOOSE n \in DOMAIN entries : entries[n] = fd[w]]
  ELSE call[w]]

File == INSTANCE AtomicFile WITH
  versions <- Versions, durable <- kept, request <- Request, answer <- reply

\* The calls act at one instant each, and OK means on the medium.
ImplementsAtomicFile == File!Spec
=============================================================================
