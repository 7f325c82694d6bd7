------------------------- MODULE DurableFileProofs -------------------------
(***************************************************************************)
(* The target of the durable writer is never torn and what a call answered *)
(* OK for is kept, for any number of writers, calls, blocks and failures.  *)
(***************************************************************************)
EXTENDS DurableFile, SequenceTheorems, TLAPS

Content == [Block -> Value \cup {"hole"}]

LEMMA HoleType == Hole \in Content
BY DEF Hole, Content

LEMMA NothingIsNoInode == Nothing \notin Inode
BY ContentAssumption

LEMMA OneIsABlock == 1 \in Block /\ Blocks \in Nat /\ 0 < Blocks
BY ContentAssumption DEF Block

\* Different writers never have the same inode or name.
LEMMA OwnsDiffer ==
  ASSUME NEW w \in Writer, NEW u \in Writer, Own(w) = Own(u)
  PROVE  w = u
BY DEF Own

-----------------------------------------------------------------------------
(* Types *)

\* What TypeOK says of the files, of the writers and of each call.
FilesType ==
  /\ entries \in Seq(Inode) /\ kept \in 0..Len(entries)
  /\ temps \in [Inode -> Inode \cup {Nothing}]
  /\ data \in [Inode -> Content] /\ safe \in [Inode -> Content]
  /\ acked \subseteq Inode
FieldsType ==
  /\ fd \in [Writer -> Inode \cup {Nothing}]
  /\ at \in [Writer -> 0..Blocks]
  /\ outcome \in [Writer -> {"error", "exists"}]
  /\ reply \in [Writer -> {"none", "ok", "error", "exists"}]
  /\ calls \in [Writer -> 0..MaxCalls]
  /\ faults \in 0..MaxFaults
WritersType ==
  /\ pc \in [Writer -> Labels]
  /\ call \in [Writer -> CallType \cup {NoCall}]
  /\ FieldsType
CallInv(w) ==
  /\ pc[w] # "idle" => call[w] \in CallType /\ Own(w) \in Inode
  /\ pc[w] \in {"idle", "open"} => at[w] = 0
  /\ pc[w] = "write" => at[w] < Blocks
  /\ pc[w] \notin {"idle", "open", "clean up"} => fd[w] \in Inode

LEMMA TypeParts == TypeOK <=> FilesType /\ WritersType /\ \A w \in Writer : CallInv(w)
BY DEF TypeOK, FilesType, WritersType, FieldsType, CallInv, Content

LEMMA TypePartsPrimed ==
  ASSUME FilesType', WritersType', \A w \in Writer : CallInv(w)'
  PROVE  TypeOK'
BY DEF TypeOK, FilesType, WritersType, FieldsType, CallInv, Content

LEMMA InitType == Init => TypeOK
<1> SUFFICES ASSUME Init PROVE TypeOK
  OBVIOUS
<1>1. FilesType
  BY HoleType, EmptySeq DEF Init, FilesType
<1>2. WritersType
  BY OneIsABlock, BoundsAssumption DEF Init, WritersType, FieldsType, Labels
<1>3. \A w \in Writer : CallInv(w)
  BY DEF Init, CallInv
<1>4. QED
  BY <1>1, <1>2, <1>3, TypeParts

\* The end of some calls keeps the writers' types.
LEMMA EndType ==
  ASSUME TypeOK, NEW W \in SUBSET Writer, NEW r \in {"ok", "error", "exists"},
         End(W, r), calls' = calls, faults' \in 0..MaxFaults
  PROVE  WritersType' /\ \A w \in Writer : CallInv(w)'
<1>1. 0 \in 0..Blocks
  BY OneIsABlock
<1>2. WritersType'
  BY <1>1 DEF End, TypeOK, WritersType, FieldsType, Labels
<1>3. ASSUME NEW w \in Writer PROVE CallInv(w)'
  <2>1. CASE w \in W
    BY <2>1 DEF End, CallInv
  <2>2. CASE w \notin W
    <3>1. /\ pc'[w] = pc[w] /\ call'[w] = call[w] /\ at'[w] = at[w]
          /\ fd'[w] = fd[w] /\ Own(w)' = Own(w)
      BY <2>2 DEF End, Own
    <3>2. CallInv(w)
      BY TypeParts
    <3>3. QED
      BY <3>1, <3>2 DEF CallInv
  <2>3. QED
    BY <2>1, <2>2
<1>4. QED
  BY <1>2, <1>3

\* A step of one writer w to another place in its call.
LEMMA GotoType ==
  ASSUME TypeOK, NEW w \in Writer, pc[w] # "idle",
         NEW l \in Labels, l \notin {"idle", "open"}, Goto(w, l),
         call' = call, calls' = calls, FieldsType',
         \A u \in Writer \ {w} : at'[u] = at[u] /\ fd'[u] = fd[u],
         l = "write" => at'[w] < Blocks, l # "clean up" => fd'[w] \in Inode
  PROVE  WritersType' /\ \A u \in Writer : CallInv(u)'
<1>1. WritersType'
  BY DEF Goto, TypeOK, WritersType
<1>2. ASSUME NEW u \in Writer PROVE CallInv(u)'
  <2>1. CallInv(u) /\ Own(u)' = Own(u)
    BY TypeParts DEF Own
  <2>2. CASE u = w
    <3>1. pc'[u] = l
      BY <2>2 DEF Goto, TypeOK
    <3>2. QED
      BY <2>1, <2>2, <3>1 DEF CallInv
  <2>3. CASE u # w
    <3>1. pc'[u] = pc[u] /\ at'[u] = at[u] /\ fd'[u] = fd[u]
      BY <2>3 DEF Goto, TypeOK
    <3>2. QED
      BY <2>1, <3>1 DEF CallInv
  <2>4. QED
    BY <2>2, <2>3
<1>3. QED
  BY <1>1, <1>2

\* A fault stays within its bound.
LEMMA FaultBound ==
  ASSUME TypeOK, NEW kind, Fault(kind)
  PROVE  faults' \in 0..MaxFaults
<1>1. faults \in 0..MaxFaults
  BY DEF TypeOK
<1>2. QED
  BY <1>1, BoundsAssumption DEF Fault

LEMMA OwnType ==
  ASSUME TypeOK, NEW w \in Writer, pc[w] # "idle"
  PROVE  Own(w) \in Inode /\ call[w] \in CallType /\ call[w].value \in Value
         /\ UniqueTempSuffix(w) = Own(w)
<1>1. Own(w) \in Inode /\ call[w] \in CallType
  BY DEF TypeOK
<1>2. call[w].value \in Value
  BY <1>1 DEF CallType
<1>3. QED
  BY <1>1, <1>2 DEF UniqueTempSuffix

LEMMA StepType ==
  ASSUME TypeOK, NEW w \in Writer, Step(w)
  PROVE  TypeOK'
<1>0. FilesType /\ WritersType /\ faults \in 0..MaxFaults
  BY TypeParts DEF WritersType, FieldsType
<1>1. CASE OpenTemp(w)
  <2> DEFINE i == IF temps[Own(w)] = Nothing THEN Own(w) ELSE temps[Own(w)]
  <2>1. pc[w] # "idle" /\ Own(w) \in Inode /\ UniqueTempSuffix(w) = Own(w)
    BY <1>1, OwnType DEF OpenTemp
  <2>2. i \in Inode
    BY <1>0, <2>1 DEF FilesType
  <2>3. /\ temps' = [temps EXCEPT ![Own(w)] = i] /\ fd' = [fd EXCEPT ![w] = i]
        /\ data' = [data EXCEPT ![i] = Hole] /\ Goto(w, "write")
        /\ UNCHANGED <<entries, kept, safe, call, at, outcome, reply, calls, faults, acked>>
    BY <1>1, <2>1 DEF OpenTemp
  <2> HIDE DEF i
  <2>4. FilesType'
    BY <1>0, <2>2, <2>3, HoleType DEF FilesType
  <2>5. FieldsType'
    BY <1>0, <2>2, <2>3 DEF WritersType, FieldsType
  <2>6. at' = at /\ at[w] = 0
    BY <1>1, <2>3 DEF OpenTemp, TypeOK
  <2>7. "write" \in Labels /\ fd'[w] \in Inode /\ \A u \in Writer \ {w} : fd'[u] = fd[u]
    BY <1>0, <2>2, <2>3 DEF Labels, WritersType, FieldsType
  <2>8. WritersType' /\ \A u \in Writer : CallInv(u)'
    BY <2>1, <2>3, <2>5, <2>6, <2>7, OneIsABlock, GotoType
  <2>9. QED
    BY <2>4, <2>8, TypePartsPrimed
<1>2. CASE WriteBlock(w)
  <2>1. pc[w] = "write" /\ at[w] \in 0..Blocks /\ at[w] < Blocks /\ call[w].value \in Value
    BY <1>2, OwnType DEF WriteBlock, TypeOK
  <2> DEFINE l == IF at'[w] = Blocks THEN "sync" ELSE "write"
  <2>2. /\ at' = [at EXCEPT ![w] = @ + 1] /\ Goto(w, l)
        /\ data' = [data EXCEPT ![fd[w]][at'[w]] = call[w].value]
        /\ UNCHANGED <<names, safe, call, fd, outcome, reply, calls, faults, acked>>
    BY <1>2 DEF WriteBlock
  <2>3. at'[w] = at[w] + 1 /\ at'[w] \in Block
    BY <1>0, <2>1, <2>2, OneIsABlock DEF WritersType, FieldsType, Block
  <2>4. at' \in [Writer -> 0..Blocks] /\ \A u \in Writer \ {w} : at'[u] = at[u]
    <3>1. at \in [Writer -> 0..Blocks] /\ at' = [at EXCEPT ![w] = at[w] + 1]
      BY <1>0, <2>2 DEF WritersType, FieldsType
    <3>2. at[w] + 1 \in 0..Blocks
      BY <2>1, OneIsABlock
    <3>3. QED
      BY <3>1, <3>2
  <2>5. l = "write" => at'[w] < Blocks
    <3>1. l = "write" => at'[w] # Blocks
      OBVIOUS
    <3>2. QED
      BY <2>3, <3>1, OneIsABlock DEF Block
  <2> HIDE DEF l
  <2>6. data' \in [Inode -> Content]
    BY <1>0, <2>1, <2>2, <2>3 DEF FilesType, Content
  <2>7. FilesType'
    BY <1>0, <2>2, <2>6 DEF FilesType, names
  <2>8. l \in Labels /\ l \notin {"idle", "open"} /\ fd' = fd /\ fd[w] \in Inode
    BY <2>1, <2>2 DEF l, Labels, TypeOK
  <2>9. FieldsType'
    BY <1>0, <2>2, <2>4 DEF WritersType, FieldsType
  <2>10. WritersType' /\ \A u \in Writer : CallInv(u)'
    BY <2>1, <2>2, <2>4, <2>5, <2>8, <2>9, GotoType
  <2>11. QED
    BY <2>7, <2>10, TypePartsPrimed
<1>3. CASE SyncTemp(w)
  <2>1. /\ pc[w] = "sync" /\ Goto(w, "publish")
        /\ safe' = [safe EXCEPT ![fd[w]] = data[fd[w]]]
        /\ UNCHANGED <<names, data, call, fd, at, outcome, reply, calls, faults, acked>>
    BY <1>3 DEF SyncTemp
  <2>2. safe' \in [Inode -> Content]
    BY <1>0, <2>1 DEF FilesType
  <2>3. FilesType'
    BY <1>0, <2>1, <2>2 DEF FilesType, names
  <2>4. FieldsType' /\ "publish" \in Labels /\ fd[w] \in Inode
    BY <1>0, <2>1, <2>1 DEF WritersType, FieldsType, Labels, TypeOK
  <2>5. WritersType' /\ \A u \in Writer : CallInv(u)'
    BY <2>1, <2>4, GotoType
  <2>6. QED
    BY <2>3, <2>5, TypePartsPrimed
<1>4. CASE Rename(w) \/ Link(w)
  <2>1. pc[w] = "publish" /\ Own(w) \in Inode /\ UniqueTempSuffix(w) = Own(w)
    BY <1>4, OwnType DEF Rename, Link
  <2>2. Temp(w) \in Inode
    BY <1>0, <1>4, <2>1 DEF Rename, Link, Temp, FilesType
  <2>3. entries' \in Seq(Inode) /\ kept \in 0..Len(entries')
    <3>1. CASE Rename(w)
      <4>1. entries' = Append(entries, Temp(w)) /\ entries \in Seq(Inode)
        BY <1>0, <3>1 DEF Rename, FilesType
      <4>2. entries' \in Seq(Inode) /\ Len(entries') = Len(entries) + 1
        BY <2>2, <4>1, AppendProperties
      <4>3. kept \in 0..Len(entries) /\ Len(entries) \in Nat
        BY <1>0, LenProperties DEF FilesType
      <4>4. QED
        BY <4>2, <4>3
    <3>2. CASE Link(w)
      <4>1. entries' = <<Temp(w)>> /\ entries = <<>>
        BY <3>2 DEF Link
      <4>2. kept \in 0..0
        BY <1>0, <4>1, EmptySeq DEF FilesType
      <4>3. entries' \in Seq(Inode) /\ Len(entries') = 1
        BY <2>2, <4>1
      <4>4. QED
        BY <4>2, <4>3
    <3>3. QED
      BY <1>4, <3>1, <3>2
  <2>4. temps' \in [Inode -> Inode \cup {Nothing}]
    BY <1>0, <1>4, <2>1 DEF Rename, Link, FilesType
  <2>5. /\ Goto(w, "sync dir")
        /\ UNCHANGED <<kept, blocks, call, fd, at, outcome, reply, calls, faults, acked>>
    BY <1>4 DEF Rename, Link
  <2>6. FilesType'
    BY <1>0, <2>3, <2>4, <2>5 DEF FilesType, blocks
  <2>7. FieldsType' /\ "sync dir" \in Labels /\ fd[w] \in Inode
    BY <1>0, <2>1, <2>5 DEF WritersType, FieldsType, Labels, TypeOK
  <2>8. WritersType' /\ \A u \in Writer : CallInv(u)'
    BY <2>1, <2>5, <2>7, GotoType
  <2>9. QED
    BY <2>6, <2>8, TypePartsPrimed
<1>5. CASE LinkRefused(w)
  <2>1. /\ pc[w] = "publish" /\ Goto(w, "clean up")
        /\ outcome' = [outcome EXCEPT ![w] = "exists"]
        /\ UNCHANGED <<names, blocks, call, fd, at, reply, calls, faults, acked>>
    BY <1>5 DEF LinkRefused
  <2>2. FilesType'
    BY <1>0, <2>1 DEF FilesType, names, blocks
  <2>3. FieldsType' /\ "clean up" \in Labels
    BY <1>0, <2>1 DEF WritersType, FieldsType, Labels
  <2>4. WritersType' /\ \A u \in Writer : CallInv(u)'
    BY <2>1, <2>3, GotoType
  <2>5. QED
    BY <2>2, <2>4, TypePartsPrimed
<1>6. CASE SyncDirectory(w) \/ RemoveTemp(w)
  <2>1. PICK l \in Labels : Goto(w, l) /\ l \in {"remove", "done", "sync dir again"}
    BY <1>6 DEF SyncDirectory, RemoveTemp, Labels
  <2>2. /\ pc[w] # "idle"
        /\ UNCHANGED <<entries, blocks, call, fd, at, outcome, reply, calls, faults, acked>>
    BY <1>6 DEF SyncDirectory, RemoveTemp
  <2>3. Own(w) \in Inode /\ UniqueTempSuffix(w) = Own(w)
    BY <2>2, OwnType
  <2>4. temps' \in [Inode -> Inode \cup {Nothing}]
    BY <1>0, <1>6, <2>3 DEF SyncDirectory, RemoveTemp, FilesType
  <2>5. kept' \in 0..Len(entries)
    <3>1. kept' = kept \/ kept' = Len(entries)
      BY <1>6 DEF SyncDirectory, RemoveTemp
    <3>2. kept \in 0..Len(entries) /\ Len(entries) \in Nat
      BY <1>0, LenProperties DEF FilesType
    <3>3. QED
      BY <3>1, <3>2
  <2>6. FilesType'
    BY <1>0, <2>2, <2>4, <2>5 DEF FilesType, blocks
  <2>7. FieldsType' /\ l \in Labels /\ fd[w] \in Inode
    BY <1>0, <1>6, <2>2 DEF WritersType, FieldsType, Labels, TypeOK, SyncDirectory, RemoveTemp
  <2>8. WritersType' /\ \A u \in Writer : CallInv(u)'
    BY <2>1, <2>2, <2>7, GotoType
  <2>9. QED
    BY <2>6, <2>8, TypePartsPrimed
<1>7. CASE Done(w)
  <2>1. /\ pc[w] = "done" /\ acked' = acked \cup {fd[w]} /\ End({w}, "ok")
        /\ UNCHANGED <<names, blocks, calls, faults>>
    BY <1>7 DEF Done, Return
  <2>2. WritersType' /\ \A u \in Writer : CallInv(u)'
    BY <1>0, <2>1, EndType
  <2>3. fd[w] \in Inode
    BY <2>1 DEF TypeOK
  <2>4. FilesType'
    BY <1>0, <2>1, <2>3 DEF FilesType, names, blocks
  <2>5. QED
    BY <2>2, <2>4, TypePartsPrimed
<1>8. CASE CleanUp(w)
  <2>1. /\ pc[w] = "clean up" /\ End({w}, outcome[w])
        /\ UNCHANGED <<entries, kept, blocks, calls, acked>>
    BY <1>8 DEF CleanUp, Return
  <2>2. Own(w) \in Inode /\ UniqueTempSuffix(w) = Own(w)
    BY <2>1, OwnType
  <2>3. temps' \in [Inode -> Inode \cup {Nothing}]
    BY <1>0, <1>8, <2>2 DEF CleanUp, FilesType
  <2>4. faults' \in 0..MaxFaults
    BY <1>0, <1>8, FaultBound DEF CleanUp
  <2>5. outcome[w] \in {"ok", "error", "exists"}
    BY <1>0 DEF WritersType, FieldsType
  <2>6. WritersType' /\ \A u \in Writer : CallInv(u)'
    BY <2>1, <2>4, <2>5, EndType
  <2>7. FilesType'
    BY <1>0, <2>1, <2>3 DEF FilesType, blocks
  <2>8. QED
    BY <2>6, <2>7, TypePartsPrimed
<1>9. QED
  BY <1>1, <1>2, <1>3, <1>4, <1>5, <1>6, <1>7, <1>8 DEF Step

LEMMA FaultStepType ==
  ASSUME TypeOK, NEW w \in Writer, FaultStep(w)
  PROVE  TypeOK'
<1>0. FilesType /\ WritersType
  BY TypeParts
<1>1. UNCHANGED <<names, blocks, calls, acked>> /\ faults' \in 0..MaxFaults
  BY FaultBound DEF FaultStep, CallFails, LateFailure, Crash
<1>2. FilesType'
  BY <1>0, <1>1 DEF FilesType, names, blocks
<1>3. CASE CallFails(w)
  <2>1. /\ pc[w] # "idle" /\ Goto(w, "clean up")
        /\ UNCHANGED <<call, fd, at, outcome, reply, calls>>
    BY <1>3 DEF CallFails
  <2>2. FieldsType' /\ "clean up" \in Labels
    BY <1>0, <1>1, <2>1 DEF WritersType, FieldsType, Labels
  <2>3. WritersType' /\ \A u \in Writer : CallInv(u)'
    BY <2>1, <2>2, GotoType
  <2>4. QED
    BY <1>2, <2>3, TypePartsPrimed
<1>4. CASE LateFailure(w) \/ Crash(w)
  <2>1. End({w}, "error") /\ calls' = calls
    BY <1>4 DEF LateFailure, Crash, Return
  <2>2. WritersType' /\ \A u \in Writer : CallInv(u)'
    BY <1>1, <2>1, EndType
  <2>3. QED
    BY <1>2, <2>2, TypePartsPrimed
<1>5. QED
  BY <1>3, <1>4 DEF FaultStep

LEMMA PowerLossType == ASSUME TypeOK, PowerLoss PROVE TypeOK'
<1>0. FilesType /\ WritersType
  BY TypeParts
<1>1. data' \in [Inode -> Content] /\ safe' = data'
  BY <1>0 DEF PowerLoss, FilesType, Content
<1>2. PICK n \in kept..Len(entries) : entries' = SubSeq(entries, 1, n) /\ kept' = n
  BY DEF PowerLoss
<1>3. n \in 0..Len(entries) /\ entries \in Seq(Inode)
  BY <1>0, LenProperties DEF FilesType
<1>4. entries' \in Seq(Inode) /\ Len(entries') = n
  BY <1>2, <1>3, SubSeqProperties, LenProperties, ElementOfSeq
<1>5. FilesType'
  BY <1>0, <1>1, <1>2, <1>3, <1>4 DEF FilesType, PowerLoss
<1>6. /\ End({w \in Writer : pc[w] # "idle"}, "error")
      /\ calls' = calls /\ faults' \in 0..MaxFaults
  BY FaultBound DEF PowerLoss
<1>7. WritersType' /\ \A u \in Writer : CallInv(u)'
  BY <1>6, EndType
<1>8. QED
  BY <1>5, <1>7, TypePartsPrimed

LEMMA CallStepType == ASSUME TypeOK, NEW w \in Writer, Call(w) PROVE TypeOK'
<1>0. FilesType /\ WritersType
  BY TypeParts
<1>1. PICK c \in CallsOf[w] : call' = [call EXCEPT ![w] = c]
  BY DEF Call
<1>2. c \in CallType
  BY CallsAssumption
<1>3. calls[w] \in 0..MaxCalls /\ calls[w] < MaxCalls /\ calls' = [calls EXCEPT ![w] = calls[w] + 1]
  BY <1>0 DEF Call, WritersType, FieldsType
<1>4. calls[w] + 1 \in 1..MaxCalls
  BY <1>3, BoundsAssumption
<1>5. calls' \in [Writer -> 0..MaxCalls]
  BY <1>0, <1>3, <1>4 DEF WritersType, FieldsType
<1>6. WritersType'
  BY <1>0, <1>1, <1>2, <1>5 DEF Call, WritersType, FieldsType, Labels
<1>7. FilesType'
  BY <1>0 DEF Call, FilesType, names, blocks
<1>8. ASSUME NEW u \in Writer PROVE CallInv(u)'
  <2>1. CallInv(u) /\ pc[w] = "idle" /\ at' = at /\ fd' = fd
    BY TypeParts DEF Call
  <2>2. CASE u = w
    <3>1. pc'[u] = "open" /\ call'[u] = c /\ calls'[u] = calls[w] + 1
      BY <1>0, <1>1, <1>3, <2>2 DEF Call, WritersType, FieldsType
    <3>2. Own(u)' \in Inode
      BY <1>4, <3>1 DEF Own, Inode
    <3>3. QED
      BY <1>2, <2>1, <2>2, <3>1, <3>2 DEF CallInv
  <2>3. CASE u # w
    <3>1. pc'[u] = pc[u] /\ call'[u] = call[u] /\ calls'[u] = calls[u]
      BY <1>0, <1>1, <1>3, <2>3 DEF Call, WritersType, FieldsType
    <3>2. QED
      BY <2>1, <3>1 DEF CallInv, Own
  <2>4. QED
    BY <2>2, <2>3
<1>9. QED
  BY <1>6, <1>7, <1>8, TypePartsPrimed

LEMMA NextType == TypeOK /\ [Next]_vars => TypeOK'
<1> SUFFICES ASSUME TypeOK, [Next]_vars PROVE TypeOK'
  OBVIOUS
<1>1. CASE UNCHANGED vars
  BY <1>1 DEF vars, TypeOK, Own
<1>2. QED
  BY <1>1, CallStepType, StepType, FaultStepType, PowerLossType DEF Next

\* Every variable of DurableFile is of its type, each call has an inode and a
\* temporary name of its own, and what is written lies within a content.
THEOREM TypeCorrect == Spec => []TypeOK
BY InitType, NextType, PTL DEF Spec

-----------------------------------------------------------------------------
(* What is invariant of the temporary names, the entries and the calls *)

Published(i) == \E n \in DOMAIN entries : entries[n] = i
Kept(i) == \E n \in 1..kept : entries[n] = i

\* A temporary name is of the inode that has its number.
NameInv == \A n \in Inode : temps[n] \in {n, Nothing}

\* What has the target's name was made by a call that has begun, and is whole.
EntryInv(n) ==
  /\ entries[n][2] <= calls[entries[n][1]]
  /\ \E v \in Value : data[entries[n]] = Whole(v) /\ safe[entries[n]] = Whole(v)
EntriesInv == \A n \in DOMAIN entries : EntryInv(n)

\* A writer writes its own inode, which has the content and then the name.
WriterInv(w) ==
  /\ pc[w] = "idle" \/ pc[w] = "open" => fd[w] = Nothing
  /\ fd[w] = Own(w) \/ fd[w] = Nothing
  /\ pc[w] = "write" => \A b \in 1..at[w] : data[Own(w)][b] = call[w].value
  /\ pc[w] = "sync" => data[Own(w)] = Whole(call[w].value)
  /\ pc[w] = "publish" =>
       data[Own(w)] = Whole(call[w].value) /\ safe[Own(w)] = Whole(call[w].value)
  /\ pc[w] \in {"open", "write", "sync", "publish"} => ~Published(Own(w))
  /\ pc[w] = "sync dir" => Published(fd[w])
  /\ pc[w] \in {"remove", "sync dir again", "done"} => Kept(fd[w])

IInv ==
  /\ TypeOK /\ NameInv /\ EntriesInv /\ AckedKept
  /\ \A w \in Writer : WriterInv(w)

LEMMA InitInv == Init => IInv
<1> SUFFICES ASSUME Init PROVE IInv
  OBVIOUS
<1>1. TypeOK
  BY InitType
<1>2. NameInv /\ EntriesInv /\ AckedKept
  BY DEF Init, NameInv, EntriesInv, AckedKept
<1>3. \A w \in Writer : WriterInv(w)
  BY DEF Init, WriterInv
<1>4. QED
  BY <1>1, <1>2, <1>3 DEF IInv

\* A running call writes its own inode.
LEMMA FdOwn ==
  ASSUME IInv, NEW w \in Writer, pc[w] \notin {"idle", "open", "clean up"}
  PROVE  fd[w] = Own(w) /\ Own(w) \in Inode
BY NothingIsNoInode DEF IInv, TypeOK, WriterInv

-----------------------------------------------------------------------------
(* What a step of one writer leaves alone *)

\* A step of w that publishes at most w's own inode.
Growing(w) ==
  /\ DOMAIN entries \subseteq DOMAIN entries'
  /\ \A n \in DOMAIN entries : entries'[n] = entries[n]
  /\ \A n \in DOMAIN entries' \ DOMAIN entries : entries'[n] = Own(w)
  /\ kept \in Nat /\ kept' \in Nat /\ kept <= kept'

\* A step of w that touches nothing of the other calls or their inodes.
Apart(w) ==
  /\ \A u \in Writer \ {w} :
       /\ pc'[u] = pc[u] /\ call'[u] = call[u] /\ fd'[u] = fd[u]
       /\ at'[u] = at[u] /\ calls'[u] = calls[u]
  /\ \A i \in Inode \ {Own(w)} : data'[i] = data[i] /\ safe'[i] = safe[i]

LEMMA GrowingKeeps ==
  ASSUME IInv, NEW w, Growing(w)
  PROVE  /\ \A i : Published(i) => Published(i)'
         /\ \A i : Kept(i) => Kept(i)'
         /\ \A i : i # Own(w) /\ ~Published(i) => ~Published(i)'
<1>1. entries \in Seq(Inode) /\ kept \in 0..Len(entries)
  BY DEF IInv, TypeOK
<1>2. 1..kept \subseteq DOMAIN entries
  BY <1>1, LenProperties
<1>3. 1..kept \subseteq 1..kept'
  BY DEF Growing
<1>4. ASSUME NEW i, Published(i) PROVE Published(i)'
  BY <1>4 DEF Published, Growing
<1>5. ASSUME NEW i, Kept(i) PROVE Kept(i)'
  <2>1. PICK n \in 1..kept : entries[n] = i
    BY <1>5 DEF Kept
  <2>2. n \in 1..kept' /\ entries'[n] = i
    BY <1>2, <1>3, <2>1 DEF Growing
  <2>3. QED
    BY <2>2 DEF Kept
<1>6. ASSUME NEW i, i # Own(w), ~Published(i) PROVE ~Published(i)'
  BY <1>6 DEF Published, Growing
<1>7. QED
  BY <1>4, <1>5, <1>6

LEMMA OthersKeep ==
  ASSUME IInv, NEW w \in Writer, NEW u \in Writer, u # w, Growing(w), Apart(w)
  PROVE  WriterInv(u)'
<1>1. WriterInv(u) /\ Own(u) # Own(w)
  BY OwnsDiffer DEF IInv
<1>2. /\ pc'[u] = pc[u] /\ call'[u] = call[u] /\ fd'[u] = fd[u]
      /\ at'[u] = at[u] /\ Own(u)' = Own(u)
  BY DEF Apart, Own
<1>3. /\ Published(fd[u]) => Published(fd[u])'
      /\ Kept(fd[u]) => Kept(fd[u])'
      /\ ~Published(Own(u)) => ~Published(Own(u))'
  <2>1. Published(fd[u]) => Published(fd[u])'
    BY <1>2, GrowingKeeps DEF Published
  <2>2. Kept(fd[u]) => Kept(fd[u])'
    BY <1>2, GrowingKeeps DEF Kept
  <2>3. ~Published(Own(u)) => ~Published(Own(u))'
    BY <1>1, <1>2, GrowingKeeps DEF Published
  <2>4. QED
    BY <2>1, <2>2, <2>3
<1>4. pc[u] # "idle" => data'[Own(u)] = data[Own(u)] /\ safe'[Own(u)] = safe[Own(u)]
  BY <1>1 DEF IInv, TypeOK, Apart
<1>5. pc[u] = "idle" \/ pc[u] = "open" => fd'[u] = Nothing
  BY <1>1, <1>2 DEF WriterInv
<1>6. fd'[u] = Own(u)' \/ fd'[u] = Nothing
  BY <1>1, <1>2 DEF WriterInv
<1>7. pc[u] = "write" => \A b \in 1..at'[u] : data'[Own(u)'][b] = call'[u].value
  BY <1>1, <1>2, <1>4 DEF WriterInv
<1>8. Whole(call[u].value)' = Whole(call[u].value)
  BY <1>2 DEF Whole
<1>9. pc[u] = "sync" => data'[Own(u)'] = Whole(call[u].value)'
  BY <1>1, <1>2, <1>4, <1>8 DEF WriterInv
<1>10. pc[u] = "publish" => /\ data'[Own(u)'] = Whole(call[u].value)'
                            /\ safe'[Own(u)'] = Whole(call[u].value)'
  BY <1>1, <1>2, <1>4, <1>8 DEF WriterInv
<1>11. pc[u] \in {"open", "write", "sync", "publish"} => ~Published(Own(u))'
  BY <1>1, <1>2, <1>3 DEF WriterInv
<1>12. pc[u] = "sync dir" => Published(fd[u])'
  BY <1>1, <1>2, <1>3 DEF WriterInv, Published
<1>13. pc[u] \in {"remove", "sync dir again", "done"} => Kept(fd[u])'
  BY <1>1, <1>2, <1>3 DEF WriterInv, Kept
<1>14. QED
  BY <1>2, <1>5, <1>6, <1>7, <1>9, <1>10, <1>11, <1>12, <1>13 DEF WriterInv

LEMMA EntriesKeep ==
  ASSUME IInv, NEW w \in Writer, Growing(w), Apart(w), calls' = calls,
         \/ ~Published(Own(w))
         \/ data'[Own(w)] = data[Own(w)] /\ safe'[Own(w)] = safe[Own(w)],
         \A n \in DOMAIN entries' \ DOMAIN entries :
           \E v \in Value : data'[Own(w)] = Whole(v) /\ safe'[Own(w)] = Whole(v),
         Own(w)[2] <= calls[w]
  PROVE  EntriesInv'
<1>1. entries \in Seq(Inode)
  BY DEF IInv, TypeOK
<1>2. ASSUME NEW n \in DOMAIN entries' PROVE EntryInv(n)'
  <2>1. CASE n \in DOMAIN entries
    <3>1. EntryInv(n) /\ entries'[n] = entries[n] /\ entries[n] \in Inode
      BY <1>1, <2>1, ElementOfSeq DEF IInv, EntriesInv, Growing
    <3>2. data'[entries[n]] = data[entries[n]] /\ safe'[entries[n]] = safe[entries[n]]
      BY <2>1, <3>1 DEF Apart, Published
    <3>3. QED
      BY <3>1, <3>2 DEF EntryInv, Whole
  <2>2. CASE n \notin DOMAIN entries
    <3>1. entries'[n] = Own(w)
      BY <2>2 DEF Growing
    <3>2. PICK v \in Value : data'[Own(w)] = Whole(v) /\ safe'[Own(w)] = Whole(v)
      BY <2>2
    <3>3. Own(w)[1] = w
      BY DEF Own
    <3>4. QED
      BY <3>1, <3>2, <3>3 DEF EntryInv, Whole
  <2>3. QED
    BY <2>1, <2>2
<1>3. QED
  BY <1>2 DEF EntriesInv

\* What is left to show of a step of w that makes no new call.
LEMMA StepKeeps ==
  ASSUME IInv, NEW w \in Writer, TypeOK', NameInv', WriterInv(w)',
         Growing(w), Apart(w), calls' = calls,
         \/ ~Published(Own(w))
         \/ data'[Own(w)] = data[Own(w)] /\ safe'[Own(w)] = safe[Own(w)],
         \A n \in DOMAIN entries' \ DOMAIN entries :
           \E v \in Value : data'[Own(w)] = Whole(v) /\ safe'[Own(w)] = Whole(v),
         \A i \in acked' : i \in acked \/ Kept(i)
  PROVE  IInv'
<1>1. Own(w)[2] <= calls[w]
  <2>1. calls[w] \in Nat
    <3>1. calls[w] \in 0..MaxCalls
      BY DEF IInv, TypeOK
    <3>2. QED
      BY <3>1
  <2>2. Own(w)[2] = calls[w]
    BY DEF Own
  <2>3. QED
    BY <2>1, <2>2
<1>2. EntriesInv'
  BY <1>1, EntriesKeep
<1>3. \A u \in Writer : WriterInv(u)'
  BY OthersKeep
<1>4. AckedKept'
  <2>1. \A i \in acked : Kept(i)
    BY DEF IInv, AckedKept, Kept
  <2>2. \A i \in acked' : Kept(i)'
    BY <2>1, GrowingKeeps
  <2>3. QED
    BY <2>2 DEF AckedKept, Kept
<1>5. QED
  BY <1>2, <1>3, <1>4 DEF IInv

\* A step that leaves the entries alone is one that grows them by nothing.
LEMMA SameEntries ==
  ASSUME IInv, UNCHANGED entries, TypeOK', NEW w,
         kept' = kept \/ kept' = Len(entries)
  PROVE  Growing(w)
<1>1. entries \in Seq(Inode) /\ kept \in 0..Len(entries)
  BY DEF IInv, TypeOK
<1>2. Len(entries) \in Nat
  BY <1>1, LenProperties
<1>3. kept \in Nat /\ kept' \in Nat /\ kept <= kept'
  BY <1>1, <1>2
<1>4. QED
  BY <1>3 DEF Growing

\* The end of w's call leaves the others alone.
LEMMA EndInv ==
  ASSUME IInv, NEW w \in Writer, NEW r, End({w}, r), TypeOK', NameInv',
         UNCHANGED <<entries, kept, blocks, calls>>,
         \A i \in acked' : i \in acked \/ Kept(i)
  PROVE  IInv'
<1>1. Growing(w)
  BY SameEntries
<1>2. data' = data /\ safe' = safe /\ calls' = calls
  BY DEF blocks
<1>3. Apart(w)
  BY <1>2 DEF End, Apart
<1>4. pc'[w] = "idle" /\ fd'[w] = Nothing
  BY DEF End
<1>5. WriterInv(w)'
  BY <1>4 DEF WriterInv
<1>6. QED
  BY <1>1, <1>2, <1>3, <1>5, StepKeeps

\* A step of w to a place in its call leaves the others where they are.
LEMMA GotoApart ==
  ASSUME IInv, NEW w \in Writer, NEW l, Goto(w, l), UNCHANGED <<call, calls>>,
         \A u \in Writer \ {w} : fd'[u] = fd[u] /\ at'[u] = at[u],
         \A i \in Inode \ {Own(w)} : data'[i] = data[i] /\ safe'[i] = safe[i]
  PROVE  /\ Apart(w) /\ pc'[w] = l
         /\ Own(w)' = Own(w) /\ Whole(call[w].value)' = Whole(call[w].value)
BY DEF IInv, TypeOK, Goto, Apart, Own, Whole

LEMMA OpenTempInv ==
  ASSUME IInv, TypeOK', NEW w \in Writer, OpenTemp(w)
  PROVE  IInv'
<1>1. Own(w) \in Inode /\ UniqueTempSuffix(w) = Own(w)
  BY OwnType DEF IInv, OpenTemp
<1>2. temps[Own(w)] = Own(w) \/ temps[Own(w)] = Nothing
  BY <1>1 DEF IInv, NameInv
<1>3. /\ temps' = [temps EXCEPT ![Own(w)] = Own(w)]
      /\ fd' = [fd EXCEPT ![w] = Own(w)]
      /\ data' = [data EXCEPT ![Own(w)] = Hole]
      /\ Goto(w, "write")
      /\ UNCHANGED <<entries, kept, safe, call, at, outcome, reply, calls, faults, acked>>
  BY <1>1, <1>2 DEF OpenTemp
<1>4. pc[w] = "open" /\ at[w] = 0 /\ ~Published(Own(w))
  BY DEF OpenTemp, IInv, TypeOK, WriterInv
<1>5. Growing(w)
  BY <1>3, SameEntries
<1>6. fd'[w] = Own(w) /\ \A u \in Writer \ {w} : fd'[u] = fd[u]
  BY <1>3 DEF IInv, TypeOK
<1>7. \A i \in Inode \ {Own(w)} : data'[i] = data[i] /\ safe'[i] = safe[i]
  BY <1>3 DEF IInv, TypeOK
<1>8. Apart(w) /\ pc'[w] = "write" /\ Own(w)' = Own(w)
  BY <1>3, <1>6, <1>7, GotoApart
<1>9. NameInv'
  BY <1>1, <1>3 DEF IInv, TypeOK, NameInv
<1>10. WriterInv(w)'
  <2>1. at'[w] = 0 /\ ~Published(Own(w))'
    BY <1>3, <1>4, <1>8 DEF Published
  <2>2. QED
    BY <1>6, <1>8, <2>1 DEF WriterInv
<1>11. QED
  BY <1>3, <1>4, <1>5, <1>8, <1>9, <1>10, StepKeeps

LEMMA WriteBlockInv ==
  ASSUME IInv, TypeOK', NEW w \in Writer, WriteBlock(w)
  PROVE  IInv'
<1> DEFINE l == IF at'[w] = Blocks THEN "sync" ELSE "write"
           v == call[w].value
<1>1. pc[w] = "write" /\ fd[w] = Own(w) /\ Own(w) \in Inode /\ ~Published(Own(w))
  BY FdOwn DEF WriteBlock, IInv, WriterInv
<1>2. /\ at' = [at EXCEPT ![w] = at[w] + 1]
      /\ data' = [data EXCEPT ![Own(w)][at'[w]] = v]
      /\ Goto(w, l)
      /\ UNCHANGED <<names, safe, call, fd, outcome, reply, calls, faults, acked>>
  BY <1>1 DEF WriteBlock
<1>3. at[w] \in 0..Blocks /\ at[w] < Blocks /\ \A b \in 1..at[w] : data[Own(w)][b] = v
  BY <1>1 DEF IInv, TypeOK, WriterInv
<1>4. at'[w] = at[w] + 1 /\ \A u \in Writer \ {w} : at'[u] = at[u]
  BY <1>2 DEF IInv, TypeOK
<1>5. data[Own(w)] \in Content /\ data \in [Inode -> Content]
  BY <1>1 DEF IInv, TypeOK, Content
<1>6. /\ data'[Own(w)] = [data[Own(w)] EXCEPT ![at[w] + 1] = v]
      /\ \A i \in Inode \ {Own(w)} : data'[i] = data[i]
  BY <1>1, <1>2, <1>4, <1>5
<1>7. Growing(w)
  BY <1>2, SameEntries DEF names
<1>8. /\ Apart(w) /\ pc'[w] = l /\ Own(w)' = Own(w)
      /\ Whole(call[w].value)' = Whole(v)
  BY <1>2, <1>4, <1>6, GotoApart
<1>9. \A b \in 1..at'[w] : data'[Own(w)][b] = v
  <2> SUFFICES ASSUME NEW b \in 1..at'[w] PROVE data'[Own(w)][b] = v
    OBVIOUS
  <2>1. b \in Block
    BY <1>3, <1>4, OneIsABlock DEF Block
  <2>2. b = at[w] + 1 \/ b \in 1..at[w]
    BY <1>3, <1>4
  <2>3. QED
    BY <1>3, <1>5, <1>6, <2>1, <2>2 DEF Content
<1>10. l = "sync" => data'[Own(w)] = Whole(v)
  <2> SUFFICES ASSUME l = "sync" PROVE data'[Own(w)] = Whole(v)
    OBVIOUS
  <2>1. at'[w] = Blocks
    OBVIOUS
  <2>2. \A b \in Block : data'[Own(w)][b] = v
    BY <1>9, <2>1 DEF Block
  <2>3. data'[Own(w)] \in Content
    BY <1>1 DEF TypeOK, Content
  <2>4. QED
    BY <2>2, <2>3 DEF Content, Whole
<1>11. l = "sync" \/ l = "write"
  OBVIOUS
<1> HIDE DEF l, v
<1>12. call'[w].value = v
  BY <1>2 DEF v
<1>13. WriterInv(w)'
  <2>1. fd'[w] = Own(w)' /\ ~Published(Own(w))'
    BY <1>1, <1>2, <1>8 DEF Published, names
  <2>2. l = "write" => \A b \in 1..at'[w] : data'[Own(w)'][b] = call'[w].value
    BY <1>8, <1>9, <1>12
  <2>3. l = "sync" => data'[Own(w)'] = Whole(call[w].value)'
    BY <1>8, <1>10
  <2>4. QED
    BY <1>8, <1>11, <2>1, <2>2, <2>3 DEF WriterInv
<1>14. NameInv' /\ acked' = acked /\ calls' = calls /\ DOMAIN entries' = DOMAIN entries
  BY <1>2 DEF IInv, NameInv, names
<1>15. QED
  BY <1>1, <1>7, <1>8, <1>13, <1>14, StepKeeps

LEMMA SyncTempInv ==
  ASSUME IInv, TypeOK', NEW w \in Writer, SyncTemp(w)
  PROVE  IInv'
<1>1. pc[w] = "sync" /\ fd[w] = Own(w) /\ Own(w) \in Inode
  BY FdOwn DEF SyncTemp
<1>2. data[Own(w)] = Whole(call[w].value) /\ ~Published(Own(w))
  BY <1>1 DEF IInv, WriterInv
<1>3. /\ safe' = [safe EXCEPT ![Own(w)] = data[Own(w)]]
      /\ Goto(w, "publish")
      /\ UNCHANGED <<names, data, call, fd, at, outcome, reply, calls, faults, acked>>
  BY <1>1 DEF SyncTemp
<1>4. /\ safe'[Own(w)] = data[Own(w)]
      /\ \A i \in Inode \ {Own(w)} : data'[i] = data[i] /\ safe'[i] = safe[i]
  BY <1>1, <1>3 DEF IInv, TypeOK
<1>5. Growing(w)
  BY <1>3, SameEntries DEF names
<1>6. /\ Apart(w) /\ pc'[w] = "publish"
      /\ Own(w)' = Own(w) /\ Whole(call[w].value)' = Whole(call[w].value)
  BY <1>3, <1>4, GotoApart
<1>7. WriterInv(w)'
  <2>1. fd'[w] = Own(w)' /\ ~Published(Own(w))'
    BY <1>1, <1>2, <1>3, <1>6 DEF Published, names
  <2>2. /\ data'[Own(w)'] = Whole(call[w].value)'
        /\ safe'[Own(w)'] = Whole(call[w].value)'
    BY <1>2, <1>3, <1>4, <1>6
  <2>3. QED
    BY <1>6, <2>1, <2>2 DEF WriterInv
<1>8. NameInv' /\ acked' = acked /\ calls' = calls /\ DOMAIN entries' = DOMAIN entries
  BY <1>3 DEF IInv, NameInv, names
<1>9. QED
  BY <1>2, <1>5, <1>6, <1>7, <1>8, StepKeeps

LEMMA PublishEffect ==
  ASSUME IInv, NEW w \in Writer, Rename(w) \/ Link(w)
  PROVE  /\ pc[w] = "publish" /\ fd[w] = Own(w) /\ Own(w) \in Inode /\ ~Published(Own(w))
         /\ data[Own(w)] = Whole(call[w].value) /\ safe[Own(w)] = Whole(call[w].value)
         /\ call[w].value \in Value
         /\ entries' = Append(entries, Own(w))
         /\ temps' = temps \/ temps' = [temps EXCEPT ![Own(w)] = Nothing]
         /\ Goto(w, "sync dir")
         /\ UNCHANGED <<kept, data, safe, call, fd, at, outcome, reply, calls, faults, acked>>
<1>1. pc[w] = "publish" /\ UniqueTempSuffix(w) = Own(w)
  BY DEF Rename, Link, UniqueTempSuffix
<1>2. fd[w] = Own(w) /\ Own(w) \in Inode /\ ~Published(Own(w))
  BY <1>1, FdOwn DEF IInv, WriterInv
<1>3. /\ data[Own(w)] = Whole(call[w].value) /\ safe[Own(w)] = Whole(call[w].value)
      /\ call[w].value \in Value
  BY <1>1, OwnType DEF IInv, WriterInv
<1>4. temps[Own(w)] = Own(w) \/ temps[Own(w)] = Nothing
  BY <1>2 DEF IInv, NameInv
<1>5. Temp(w) = Own(w)
  BY <1>1, <1>4 DEF Rename, Link, Temp
<1>6. /\ Goto(w, "sync dir")
      /\ UNCHANGED <<kept, data, safe, call, fd, at, outcome, reply, calls, faults, acked>>
  BY DEF Rename, Link, blocks
<1>7. entries' = Append(entries, Own(w))
  <2>1. CASE Rename(w)
    BY <1>5, <2>1 DEF Rename
  <2>2. CASE Link(w)
    <3>1. entries = <<>> /\ entries' = <<Own(w)>>
      BY <1>5, <2>2 DEF Link
    <3>2. QED
      BY <3>1
  <2>3. QED
    BY <2>1, <2>2
<1>8. temps' = temps \/ temps' = [temps EXCEPT ![Own(w)] = Nothing]
  BY <1>1 DEF Rename, Link
<1>9. QED
  BY <1>1, <1>2, <1>3, <1>6, <1>7, <1>8

\* Another inode takes the target's name.
LEMMA EntriesAppend ==
  ASSUME IInv, NEW i \in Inode, entries' = Append(entries, i)
  PROVE  /\ entries \in Seq(Inode) /\ entries' \in Seq(Inode)
         /\ Len(entries) \in Nat /\ Len(entries') = Len(entries) + 1
         /\ DOMAIN entries = 1..Len(entries) /\ DOMAIN entries' = 1..(Len(entries) + 1)
         /\ entries'[Len(entries) + 1] = i
         /\ \A n \in 1..Len(entries) : entries'[n] = entries[n]
<1>1. entries \in Seq(Inode)
  BY DEF IInv, TypeOK
<1>2. QED
  BY <1>1, AppendProperties, LenProperties

LEMMA PublishInv ==
  ASSUME IInv, TypeOK', NEW w \in Writer, Rename(w) \/ Link(w)
  PROVE  IInv'
<1>1. /\ pc[w] = "publish" /\ fd[w] = Own(w) /\ Own(w) \in Inode
      /\ data[Own(w)] = Whole(call[w].value) /\ safe[Own(w)] = Whole(call[w].value)
      /\ call[w].value \in Value
      /\ entries' = Append(entries, Own(w)) /\ Goto(w, "sync dir")
      /\ UNCHANGED <<kept, data, safe, call, fd, at, calls, acked>>
  BY PublishEffect
<1>2. /\ Len(entries) \in Nat /\ entries'[Len(entries) + 1] = Own(w)
      /\ DOMAIN entries = 1..Len(entries) /\ DOMAIN entries' = 1..(Len(entries) + 1)
      /\ \A n \in 1..Len(entries) : entries'[n] = entries[n]
  BY <1>1, EntriesAppend
<1>3. Growing(w)
  <2>1. kept \in 0..Len(entries)
    BY DEF IInv, TypeOK
  <2>2. kept \in Nat
    BY <2>1
  <2>3. kept' = kept
    BY <1>1
  <2>4. QED
    BY <1>2, <2>2, <2>3 DEF Growing
<1>4. Apart(w) /\ pc'[w] = "sync dir" /\ Own(w)' = Own(w)
  BY <1>1, GotoApart
<1>5. WriterInv(w)'
  <2>1. fd'[w] = Own(w)
    BY <1>1
  <2>2. Published(fd[w])'
    BY <1>2, <2>1 DEF Published
  <2>3. QED
    BY <1>4, <2>1, <2>2 DEF WriterInv
<1>6. NameInv'
  BY PublishEffect DEF IInv, TypeOK, NameInv
<1>7. QED
  BY <1>1, <1>3, <1>4, <1>5, <1>6, StepKeeps

LEMMA ToCleanUpInv ==
  ASSUME IInv, TypeOK', NEW w \in Writer, LinkRefused(w) \/ CallFails(w)
  PROVE  IInv'
<1>1. /\ Goto(w, "clean up")
      /\ UNCHANGED <<names, blocks, call, fd, at, calls, acked>>
  BY DEF LinkRefused, CallFails
<1>2. /\ UNCHANGED <<entries, kept, temps, data, safe, calls, acked>>
  BY <1>1 DEF names, blocks
<1>3. Growing(w)
  BY <1>2, SameEntries
<1>4. Apart(w) /\ pc'[w] = "clean up" /\ Own(w)' = Own(w)
  BY <1>1, <1>2, GotoApart
<1>5. WriterInv(w)'
  <2>1. fd[w] = Own(w) \/ fd[w] = Nothing
    BY DEF IInv, WriterInv
  <2>2. fd' = fd
    BY <1>1
  <2>3. QED
    BY <1>4, <2>1, <2>2 DEF WriterInv
<1>6. NameInv'
  BY <1>2 DEF IInv, NameInv
<1>7. QED
  BY <1>2, <1>3, <1>4, <1>5, <1>6, StepKeeps

LEMMA SyncDirectoryInv ==
  ASSUME IInv, TypeOK', NEW w \in Writer, SyncDirectory(w)
  PROVE  IInv'
<1>1. PICK l \in Labels : Goto(w, l) /\ (l = "remove" \/ l = "done")
  BY DEF SyncDirectory, Labels
<1>2. /\ kept' = Len(entries)
      /\ UNCHANGED <<entries, temps, blocks, call, fd, at, outcome, reply, calls, faults, acked>>
  BY DEF SyncDirectory
<1>3. UNCHANGED <<data, safe>>
  BY <1>2 DEF blocks
<1>4. Growing(w)
  BY <1>2, SameEntries
<1>5. Apart(w) /\ pc'[w] = l /\ Own(w)' = Own(w)
  BY <1>1, <1>2, <1>3, GotoApart
<1>6. fd[w] = Own(w) /\ Own(w) \in Inode
  BY FdOwn DEF SyncDirectory
<1>7. Published(fd[w])
  <2>1. entries \in Seq(Inode) /\ kept \in 0..Len(entries)
    BY DEF IInv, TypeOK
  <2>2. 1..kept \subseteq DOMAIN entries
    BY <2>1, LenProperties
  <2>3. Published(fd[w]) \/ Kept(fd[w])
    BY DEF SyncDirectory, IInv, WriterInv
  <2>4. QED
    BY <2>2, <2>3 DEF Published, Kept
<1>8. Kept(fd[w])'
  <2>1. DOMAIN entries = 1..kept'
    BY <1>2, LenProperties DEF IInv, TypeOK
  <2>2. QED
    BY <1>2, <1>7, <2>1 DEF Published, Kept
<1>9. WriterInv(w)'
  <2>1. fd'[w] = Own(w)'
    BY <1>2, <1>5, <1>6
  <2>2. QED
    BY <1>1, <1>5, <1>8, <2>1 DEF WriterInv
<1>10. NameInv'
  BY <1>2 DEF IInv, NameInv
<1>11. QED
  BY <1>2, <1>3, <1>4, <1>5, <1>9, <1>10, StepKeeps

LEMMA RemoveTempInv ==
  ASSUME IInv, TypeOK', NEW w \in Writer, RemoveTemp(w)
  PROVE  IInv'
<1>1. /\ Goto(w, "sync dir again") /\ UniqueTempSuffix(w) = Own(w)
      /\ temps' = [temps EXCEPT ![Own(w)] = Nothing]
      /\ UNCHANGED <<entries, kept, blocks, call, fd, at, outcome, reply, calls, faults, acked>>
  BY DEF RemoveTemp, UniqueTempSuffix
<1>2. UNCHANGED <<data, safe>>
  BY <1>1 DEF blocks
<1>3. Growing(w)
  BY <1>1, SameEntries
<1>4. Apart(w) /\ pc'[w] = "sync dir again" /\ Own(w)' = Own(w)
  BY <1>1, <1>2, GotoApart
<1>5. WriterInv(w)'
  <2>1. fd[w] = Own(w) /\ Own(w) \in Inode
    BY FdOwn DEF RemoveTemp
  <2>2. Kept(fd[w])
    BY DEF RemoveTemp, IInv, WriterInv
  <2>3. fd'[w] = Own(w)' /\ Kept(fd[w])'
    BY <1>1, <1>4, <2>1, <2>2 DEF Kept
  <2>4. QED
    BY <1>4, <2>3 DEF WriterInv
<1>6. NameInv'
  BY <1>1 DEF IInv, TypeOK, NameInv
<1>7. QED
  BY <1>1, <1>2, <1>3, <1>4, <1>5, <1>6, StepKeeps

LEMMA ReturnInv ==
  ASSUME IInv, TypeOK', NEW w \in Writer,
         Done(w) \/ CleanUp(w) \/ LateFailure(w) \/ Crash(w)
  PROVE  IInv'
<1>1. PICK r : End({w}, r)
  BY DEF Done, CleanUp, LateFailure, Crash, Return
<1>2. UNCHANGED <<entries, kept, blocks, calls>>
  BY DEF Done, CleanUp, LateFailure, Crash, names
<1>3. NameInv'
  <2>1. temps' = temps \/ temps' = [temps EXCEPT ![Own(w)] = Nothing]
    BY DEF Done, CleanUp, LateFailure, Crash, names, UniqueTempSuffix
  <2>2. QED
    BY <2>1 DEF IInv, TypeOK, NameInv
<1>4. \A i \in acked' : i \in acked \/ Kept(i)
  <2>1. CASE Done(w)
    <3>1. Kept(fd[w]) /\ acked' = acked \cup {fd[w]}
      BY <2>1 DEF Done, IInv, WriterInv
    <3>2. QED
      BY <3>1
  <2>2. CASE CleanUp(w) \/ LateFailure(w) \/ Crash(w)
    BY <2>2 DEF CleanUp, LateFailure, Crash
  <2>3. QED
    BY <2>1, <2>2
<1>5. QED
  BY <1>1, <1>2, <1>3, <1>4, EndInv

LEMMA CallInvariant ==
  ASSUME IInv, TypeOK', NEW w \in Writer, Call(w)
  PROVE  IInv'
<1>1. /\ UNCHANGED <<entries, kept, temps, data, safe, fd, at, acked>>
      /\ pc[w] = "idle" /\ pc' = [pc EXCEPT ![w] = "open"]
      /\ calls' = [calls EXCEPT ![w] = calls[w] + 1]
  BY DEF Call, names, blocks
<1>2. \A v \in Writer : calls[v] \in 0..MaxCalls
  BY DEF IInv, TypeOK
<1>3. /\ pc'[w] = "open" /\ calls'[w] = calls[w] + 1
      /\ \A u \in Writer \ {w} : pc'[u] = pc[u] /\ calls'[u] = calls[u] /\ call'[u] = call[u]
  BY <1>1 DEF Call, IInv, TypeOK
<1>4. \A v \in Writer : calls[v] \in Nat /\ calls'[v] \in Nat /\ calls[v] <= calls'[v]
  BY <1>2, <1>3
<1>5. ASSUME NEW n \in DOMAIN entries PROVE entries[n] \in Inode
  <2>1. entries \in Seq(Inode)
    BY DEF IInv, TypeOK
  <2>2. QED
    BY <2>1, ElementOfSeq, LenProperties
<1>6. EntriesInv'
  <2>1. ASSUME NEW n \in DOMAIN entries PROVE EntryInv(n)'
    <3>1. EntryInv(n) /\ entries[n][1] \in Writer /\ entries[n][2] \in Nat
      BY <1>5 DEF IInv, EntriesInv, Inode
    <3>2. entries[n][2] <= calls'[entries[n][1]]
      <4>1. PICK u \in Writer : u = entries[n][1]
        BY <3>1
      <4>2. entries[n][2] <= calls[u]
        BY <3>1, <4>1 DEF EntryInv
      <4>3. QED
        BY <1>4, <3>1, <4>1, <4>2
    <3>3. QED
      BY <1>1, <3>1, <3>2 DEF EntryInv, Whole
  <2>2. QED
    BY <1>1, <2>1 DEF EntriesInv
<1>7. ~Published(Own(w))'
  <2> SUFFICES ASSUME NEW n \in DOMAIN entries, entries[n] = <<w, calls[w] + 1>>
               PROVE  FALSE
    BY <1>1, <1>3 DEF Published, Own
  <2>1. entries[n][1] = w /\ entries[n][2] = calls[w] + 1
    OBVIOUS
  <2>2. entries[n][2] <= calls[w]
    BY <2>1 DEF IInv, EntriesInv, EntryInv
  <2>3. QED
    BY <1>4, <2>1, <2>2
<1>8. ASSUME NEW u \in Writer PROVE WriterInv(u)'
  <2>0. WriterInv(u)
    BY DEF IInv
  <2>1. CASE u = w
    <3>1. fd'[w] = Nothing
      BY <1>1, <2>0, <2>1 DEF WriterInv
    <3>2. QED
      BY <1>3, <1>7, <2>1, <3>1 DEF WriterInv
  <2>2. CASE u # w
    BY <1>1, <1>3, <2>0, <2>2 DEF WriterInv, Own, Published, Kept, Whole
  <2>3. QED
    BY <2>1, <2>2
<1>9. NameInv' /\ AckedKept'
  BY <1>1 DEF IInv, NameInv, AckedKept
<1>10. QED
  BY <1>6, <1>8, <1>9 DEF IInv

\* The older entries remain, and what was synced.
LEMMA PowerLossEffect ==
  ASSUME IInv, PowerLoss
  PROVE  \E m \in kept..Len(entries) :
           /\ entries' = SubSeq(entries, 1, m) /\ kept' = m
           /\ entries \in Seq(Inode) /\ entries' \in Seq(Inode)
           /\ Len(entries) \in Nat /\ m \in Nat /\ m <= Len(entries)
           /\ DOMAIN entries' = 1..m /\ DOMAIN entries = 1..Len(entries)
           /\ 1..m \subseteq DOMAIN entries /\ 1..kept \subseteq 1..m
           /\ \A n \in 1..m : entries'[n] = entries[n]
           /\ \A i \in Inode : data[i] = safe[i] => data'[i] = data[i] /\ safe'[i] = safe[i]
<1>1. PICK m \in kept..Len(entries) : entries' = SubSeq(entries, 1, m) /\ kept' = m
  BY DEF PowerLoss
<1>2. /\ entries \in Seq(Inode) /\ Len(entries) \in Nat /\ kept \in Nat
      /\ m \in Nat /\ kept <= m /\ m <= Len(entries)
  <2>1. entries \in Seq(Inode) /\ kept \in 0..Len(entries)
    BY DEF IInv, TypeOK
  <2>2. Len(entries) \in Nat
    BY <2>1, LenProperties
  <2>3. QED
    BY <2>1, <2>2
<1>3. /\ entries' \in Seq(Inode) /\ Len(entries') = m
      /\ \A n \in 1..m : entries'[n] = entries[n]
  BY <1>1, <1>2, SubSeqProperties, LenProperties, ElementOfSeq
<1>4. DOMAIN entries' = 1..m /\ 1..m \subseteq DOMAIN entries /\ 1..kept \subseteq 1..m
  BY <1>2, <1>3, LenProperties
<1>5. /\ temps' = temps /\ calls' = calls /\ acked' = acked
      /\ End({w \in Writer : pc[w] # "idle"}, "error") /\ safe' = data'
  BY DEF PowerLoss
<1>6. \A i \in Inode : data[i] = safe[i] => data'[i] = data[i] /\ safe'[i] = safe[i]
  <2> SUFFICES ASSUME NEW i \in Inode, data[i] = safe[i] PROVE data'[i] = data[i]
    BY <1>5
  <2>1. data[i] \in Content
    BY DEF IInv, TypeOK, Content
  <2>2. data'[i] = [b \in Block |-> data[i][b]]
    BY DEF PowerLoss
  <2>3. QED
    BY <2>1, <2>2 DEF Content
<1>7. QED
  BY <1>1, <1>2, <1>3, <1>4, <1>6, LenProperties

LEMMA PowerLossInv == ASSUME IInv, TypeOK', PowerLoss PROVE IInv'
<1>1. PICK m \in kept..Len(entries) :
        /\ kept' = m /\ entries \in Seq(Inode) /\ DOMAIN entries' = 1..m
        /\ 1..m \subseteq DOMAIN entries /\ 1..kept \subseteq 1..m
        /\ \A n \in 1..m : entries'[n] = entries[n]
        /\ \A i \in Inode : data[i] = safe[i] => data'[i] = data[i] /\ safe'[i] = safe[i]
  BY PowerLossEffect
<1>2. /\ temps' = temps /\ calls' = calls /\ acked' = acked
      /\ End({w \in Writer : pc[w] # "idle"}, "error")
  BY DEF PowerLoss
<1>3. EntriesInv'
  <2>1. ASSUME NEW n \in 1..m PROVE EntryInv(n)'
    <3>1. EntryInv(n) /\ entries'[n] = entries[n] /\ entries[n] \in Inode
      BY <1>1, ElementOfSeq, LenProperties DEF IInv, EntriesInv
    <3>2. data'[entries[n]] = data[entries[n]] /\ safe'[entries[n]] = safe[entries[n]]
      BY <1>1, <3>1 DEF EntryInv
    <3>3. QED
      BY <1>2, <3>1, <3>2 DEF EntryInv, Whole
  <2>2. QED
    BY <1>1, <2>1 DEF EntriesInv
<1>4. ASSUME NEW w \in Writer PROVE WriterInv(w)'
  <2>1. WriterInv(w)
    BY DEF IInv
  <2>2. pc'[w] = "idle" /\ fd'[w] = Nothing
    BY <1>2, <2>1 DEF End, WriterInv
  <2>3. QED
    BY <2>2 DEF WriterInv
<1>5. AckedKept'
  <2>1. \A i \in acked : \E n \in 1..kept : entries[n] = i
    BY DEF IInv, AckedKept
  <2>2. \A n \in 1..kept : n \in 1..m /\ entries'[n] = entries[n]
    BY <1>1
  <2>3. QED
    BY <1>1, <1>2, <2>1, <2>2 DEF AckedKept
<1>6. NameInv'
  BY <1>2 DEF IInv, NameInv
<1>7. QED
  BY <1>3, <1>4, <1>5, <1>6 DEF IInv

LEMMA NextInv == IInv /\ [Next]_vars => IInv'
<1> SUFFICES ASSUME IInv, [Next]_vars PROVE IInv'
  OBVIOUS
<1>1. TypeOK'
  BY NextType DEF IInv
<1>2. CASE UNCHANGED vars
  <2>1. NameInv' /\ EntriesInv' /\ AckedKept'
    BY <1>2 DEF vars, IInv, NameInv, EntriesInv, EntryInv, AckedKept, Whole
  <2>2. \A w \in Writer : WriterInv(w)'
    BY <1>2 DEF vars, IInv, WriterInv, Own, Published, Kept, Whole
  <2>3. QED
    BY <1>1, <2>1, <2>2 DEF IInv
<1>3. CASE \E w \in Writer : Step(w)
  BY <1>1, <1>3, OpenTempInv, WriteBlockInv, SyncTempInv, PublishInv, ToCleanUpInv,
     SyncDirectoryInv, RemoveTempInv, ReturnInv DEF Step
<1>4. CASE \E w \in Writer : FaultStep(w)
  BY <1>1, <1>4, ToCleanUpInv, ReturnInv DEF FaultStep
<1>5. CASE (\E w \in Writer : Call(w)) \/ PowerLoss
  BY <1>1, <1>5, CallInvariant, PowerLossInv
<1>6. QED
  BY <1>2, <1>3, <1>4, <1>5 DEF Next

LEMMA IInvAlways == Spec => []IInv
BY InitInv, NextInv, PTL DEF Spec

\* Whoever opens the target finds one whole content, in memory and on the medium,
\* whatever calls, crashes and power losses came before.
THEOREM WholeAlways == Spec => []NeverTorn
<1>1. IInv => NeverTorn
  BY DEF IInv, EntriesInv, EntryInv, NeverTorn
<1>2. QED
  BY <1>1, IInvAlways, PTL

\* What a call has answered OK for is never lost to a crash or a power loss.
THEOREM AckedAlways == Spec => []AckedKept
<1>1. IInv => AckedKept
  BY DEF IInv
<1>2. QED
  BY <1>1, IInvAlways, PTL

-----------------------------------------------------------------------------
(* Refinement of AtomicFile *)

\* No inode is published twice; only a refused creation is to return "exists".
Injective == \A n, m \in DOMAIN entries : entries[n] = entries[m] => n = m
OutcomeInv == \A w \in Writer : pc[w] # "clean up" => outcome[w] = "error"
RInv == IInv /\ Injective /\ OutcomeInv

\* Only a rename, a link and a power loss change the entries.
LEMMA EntriesChange ==
  ASSUME IInv, Next, entries' # entries
  PROVE  (\E w \in Writer : Rename(w) \/ Link(w)) \/ PowerLoss
BY DEF Next, Call, Step, OpenTemp, WriteBlock, SyncTemp, LinkRefused, SyncDirectory,
       RemoveTemp, Done, CleanUp, FaultStep, CallFails, LateFailure, Crash, names

LEMMA NextInjective == ASSUME IInv, Injective, [Next]_vars PROVE Injective'
<1>1. CASE entries' = entries
  BY <1>1 DEF Injective
<1>2. ASSUME NEW w \in Writer, Rename(w) \/ Link(w) PROVE Injective'
  <2>1. Own(w) \in Inode /\ ~Published(Own(w)) /\ entries' = Append(entries, Own(w))
    BY <1>2, PublishEffect
  <2>2. /\ Len(entries) \in Nat /\ entries'[Len(entries) + 1] = Own(w)
        /\ DOMAIN entries = 1..Len(entries) /\ DOMAIN entries' = 1..(Len(entries) + 1)
        /\ \A n \in 1..Len(entries) : entries'[n] = entries[n]
    BY <2>1, EntriesAppend
  <2>3. \A n \in 1..Len(entries) : entries[n] # Own(w)
    BY <2>1, <2>2 DEF Published
  <2>4. \A n \in 1..(Len(entries) + 1) : n \in 1..Len(entries) \/ n = Len(entries) + 1
    BY <2>2
  <2>5. QED
    BY <2>2, <2>3, <2>4 DEF Injective
<1>3. CASE PowerLoss
  BY <1>3, PowerLossEffect DEF Injective
<1>4. QED
  BY <1>1, <1>2, <1>3, EntriesChange DEF vars

LEMMA NextOutcome == ASSUME IInv, OutcomeInv, [Next]_vars PROVE OutcomeInv'
<1>0. pc \in [Writer -> Labels] /\ outcome \in [Writer -> {"error", "exists"}]
  BY DEF IInv, TypeOK
<1>1. ASSUME NEW W, NEW r, W \subseteq Writer, End(W, r) PROVE OutcomeInv'
  BY <1>1 DEF OutcomeInv, End
<1>2. ASSUME outcome' = outcome, NEW w \in Writer, pc[w] # "clean up",
             NEW l, pc' = [pc EXCEPT ![w] = l]
      PROVE  OutcomeInv'
  BY <1>0, <1>2 DEF OutcomeInv
<1>3. ASSUME NEW w \in Writer, LinkRefused(w) PROVE OutcomeInv'
  BY <1>0, <1>3 DEF OutcomeInv, LinkRefused, Goto
<1>4. ASSUME NEW w \in Writer, Step(w) PROVE OutcomeInv'
  <2>1. CASE Done(w) \/ CleanUp(w)
    <3>1. PICK r : End({w}, r)
      BY <2>1 DEF Done, CleanUp, Return
    <3>2. {w} \subseteq Writer
      OBVIOUS
    <3>3. QED
      BY <1>1, <3>1, <3>2
  <2>2. CASE LinkRefused(w)
    BY <2>2, <1>3
  <2>3. CASE OpenTemp(w) \/ WriteBlock(w) \/ SyncTemp(w) \/ RemoveTemp(w)
    BY <2>3, <1>2 DEF OpenTemp, WriteBlock, SyncTemp, RemoveTemp, Goto
  <2>4. CASE Rename(w) \/ Link(w) \/ SyncDirectory(w)
    BY <2>4, <1>2 DEF Rename, Link, SyncDirectory, Goto
  <2>5. QED
    BY <1>4, <2>1, <2>2, <2>3, <2>4 DEF Step
<1>5. ASSUME NEW w \in Writer, FaultStep(w) PROVE OutcomeInv'
  <2>1. CASE CallFails(w)
    BY <2>1, <1>2 DEF CallFails, Goto
  <2>2. CASE LateFailure(w) \/ Crash(w)
    <3>1. End({w}, "error")
      BY <2>2 DEF LateFailure, Crash, Return
    <3>2. {w} \subseteq Writer
      OBVIOUS
    <3>3. QED
      BY <1>1, <3>1, <3>2
  <2>3. QED
    BY <1>5, <2>1, <2>2 DEF FaultStep
<1>6. ASSUME NEW w \in Writer, Call(w) PROVE OutcomeInv'
  BY <1>6, <1>2 DEF Call
<1>7. CASE PowerLoss
  BY <1>7, <1>1 DEF PowerLoss
<1>8. CASE UNCHANGED vars
  BY <1>8 DEF vars, OutcomeInv
<1>9. QED
  BY <1>4, <1>5, <1>6, <1>7, <1>8 DEF Next

LEMMA InitRInv == Init => RInv
<1> SUFFICES ASSUME Init PROVE RInv
  OBVIOUS
<1>1. Injective /\ OutcomeInv
  BY DEF Init, Injective, OutcomeInv
<1>2. QED
  BY <1>1, InitInv DEF RInv

LEMMA NextRInv == RInv /\ [Next]_vars => RInv'
BY NextInv, NextInjective, NextOutcome DEF RInv

\* What a writer waits for, in each of the cases of Request.
LEMMA RequestCases ==
  ASSUME RInv, NEW w \in Writer
  PROVE  /\ pc[w] = "idle" => Request[w] = File!Idle
         /\ pc[w] = "clean up" /\ outcome[w] = "exists" => Request[w] = [op |-> "refused"]
         /\ pc[w] # "idle" /\ outcome[w] # "exists" /\ ~Published(fd[w]) => Request[w] = call[w]
<1>1. pc[w] # "clean up" => outcome[w] # "exists"
  BY DEF RInv, OutcomeInv
<1>2. QED
  BY <1>1 DEF Request, Published, File!Idle

LEMMA RequestPublished ==
  ASSUME RInv, NEW w \in Writer, pc[w] # "idle", outcome[w] # "exists",
         NEW n \in DOMAIN entries, entries[n] = fd[w]
  PROVE  Request[w] = File!Published(n)
<1>1. Request[w] = [op |-> "published", version |-> CHOOSE m \in DOMAIN entries : entries[m] = fd[w]]
  BY DEF Request
<1>2. \A m \in DOMAIN entries : entries[m] = fd[w] => m = n
  BY DEF RInv, Injective
<1>3. (CHOOSE m \in DOMAIN entries : entries[m] = fd[w]) = n
  BY <1>2
<1>4. QED
  BY <1>1, <1>3 DEF File!Published

\* Only an idle writer waits for nothing.
LEMMA RequestIdle ==
  ASSUME RInv, NEW w \in Writer
  PROVE  Request[w] = File!Idle <=> pc[w] = "idle"
<1> SUFFICES ASSUME pc[w] # "idle" PROVE Request[w] # File!Idle
  BY RequestCases
<1>1. File!Idle.op = "idle"
  BY DEF File!Idle
<1>2. CASE outcome[w] = "exists"
  <2>1. pc[w] = "clean up"
    BY <1>2 DEF RInv, OutcomeInv
  <2>2. Request[w] = [op |-> "refused"]
    BY <1>2, <2>1, RequestCases
  <2>3. QED
    BY <1>1, <2>2
<1>3. CASE outcome[w] # "exists" /\ Published(fd[w])
  <2>1. PICK n \in DOMAIN entries : entries[n] = fd[w]
    BY <1>3 DEF Published
  <2>2. Request[w] = File!Published(n)
    BY <1>3, <2>1, RequestPublished
  <2>3. Request[w].op = "published"
    BY <2>2 DEF File!Published
  <2>4. QED
    BY <1>1, <2>3
<1>4. CASE outcome[w] # "exists" /\ ~Published(fd[w])
  <2>1. Request[w] = call[w] /\ call[w] \in CallType
    BY <1>4, RequestCases, OwnType DEF RInv, IInv
  <2>2. call[w].op # "idle"
    BY <2>1 DEF CallType
  <2>3. QED
    BY <1>1, <2>1, <2>2
<1>5. QED
  BY <1>2, <1>3, <1>4

\* A call waits for the same as long as it has the same inode, with the same name.
LEMMA RequestSame ==
  ASSUME RInv, RInv', NEW w \in Writer,
         call'[w] = call[w], fd'[w] = fd[w], outcome'[w] = outcome[w],
         pc'[w] = "idle" <=> pc[w] = "idle",
         DOMAIN entries \subseteq DOMAIN entries',
         \A n \in DOMAIN entries : entries'[n] = entries[n],
         ~Published(fd[w]) => ~Published(fd[w])'
  PROVE  Request'[w] = Request[w]
<1>1. CASE pc[w] = "idle"
  BY <1>1 DEF Request
<1>2. CASE outcome[w] = "exists"
  <2>1. pc[w] = "clean up" /\ pc'[w] = "clean up"
    BY <1>2 DEF RInv, OutcomeInv
  <2>2. QED
    BY <1>2, <2>1 DEF Request
<1>3. CASE pc[w] # "idle" /\ outcome[w] # "exists" /\ ~Published(fd[w])
  BY <1>3 DEF Request, Published
<1>4. CASE pc[w] # "idle" /\ outcome[w] # "exists" /\ Published(fd[w])
  <2>1. PICK n \in DOMAIN entries : entries[n] = fd[w]
    BY <1>4 DEF Published
  <2>2. Request[w] = File!Published(n)
    BY <1>4, <2>1, RequestPublished
  <2>3. n \in DOMAIN entries' /\ entries'[n] = fd'[w]
    BY <2>1
  <2>4. \A m \in DOMAIN entries' : entries'[m] = fd'[w] => m = n
    BY <2>3 DEF RInv, Injective
  <2>5. (CHOOSE m \in DOMAIN entries' : entries'[m] = fd'[w]) = n
    BY <2>3, <2>4
  <2>6. Request'[w] = [op |-> "published", version |-> CHOOSE m \in DOMAIN entries' : entries'[m] = fd'[w]]
    BY <1>4, <2>3 DEF Request
  <2>7. QED
    BY <2>2, <2>5, <2>6 DEF File!Published
<1>5. QED
  BY <1>1, <1>2, <1>3, <1>4

\* A step of w changes at most what w waits for.
LEMMA RequestOthers ==
  ASSUME RInv, RInv', NEW w \in Writer, Own(w) \in Inode, Growing(w), Apart(w),
         \A u \in Writer \ {w} : outcome'[u] = outcome[u]
  PROVE  Request' = [Request EXCEPT ![w] = Request'[w]]
<1>1. ASSUME NEW u \in Writer \ {w} PROVE Request'[u] = Request[u]
  <2>1. fd[u] # Own(w)
    <3>1. fd[u] = Own(u) \/ fd[u] = Nothing
      BY DEF RInv, IInv, WriterInv
    <3>2. Own(u) # Own(w) /\ Nothing # Own(w)
      BY NothingIsNoInode, OwnsDiffer
    <3>3. QED
      BY <3>1, <3>2
  <2>2. fd'[u] = fd[u] /\ pc'[u] = pc[u] /\ call'[u] = call[u] /\ outcome'[u] = outcome[u]
    BY DEF Apart
  <2>3. ~Published(fd[u]) => ~Published(fd[u])'
    BY <2>1, <2>2 DEF Published, Growing
  <2>4. QED
    BY <2>2, <2>3, RequestSame DEF Growing
<1>2. DOMAIN Request = Writer /\ DOMAIN Request' = Writer
  BY DEF Request
<1>3. Request = [v \in Writer |-> Request[v]] /\ Request' = [v \in Writer |-> Request'[v]]
  BY DEF Request
<1>4. QED
  BY <1>1, <1>3

LEMMA EntriesAreInodes == RInv => \A n \in DOMAIN entries : entries[n] \in Inode
<1> SUFFICES ASSUME RInv, NEW n \in DOMAIN entries PROVE entries[n] \in Inode
  OBVIOUS
<1>1. entries \in Seq(Inode)
  BY DEF RInv, IInv, TypeOK
<1>2. QED
  BY <1>1, ElementOfSeq, LenProperties

\* The versions are those of the entries.
LEMMA VersionsLength ==
  ASSUME RInv
  PROVE  /\ Versions \in Seq(Value) /\ Len(Versions) = Len(entries)
         /\ \A n \in DOMAIN entries : Versions[n] = data[entries[n]][1]
<1>1. entries \in Seq(Inode) /\ Len(entries) \in Nat /\ DOMAIN entries = 1..Len(entries)
  BY LenProperties DEF RInv, IInv, TypeOK
<1>2. \A n \in DOMAIN entries : data[entries[n]][1] \in Value
  <2> SUFFICES ASSUME NEW n \in DOMAIN entries PROVE data[entries[n]][1] \in Value
    OBVIOUS
  <2>1. PICK v \in Value : data[entries[n]] = Whole(v)
    BY DEF RInv, IInv, EntriesInv, EntryInv
  <2>2. QED
    BY <2>1, OneIsABlock DEF Whole
<1>3. Versions = [n \in 1..Len(entries) |-> data[entries[n]][1]]
  BY <1>1 DEF Versions
<1>4. QED
  BY <1>1, <1>2, <1>3

LEMMA VersionsSame ==
  ASSUME RInv, entries' = entries,
         \A n \in DOMAIN entries : data'[entries[n]] = data[entries[n]]
  PROVE  Versions' = Versions
BY DEF Versions

\* Append, element by element.
LEMMA AppendAt ==
  ASSUME NEW S, NEW q \in Seq(S), NEW x \in S,
         NEW p, p = [n \in 1..(Len(q) + 1) |-> p[n]],
         p[Len(q) + 1] = x, \A n \in 1..Len(q) : p[n] = q[n]
  PROVE  p = Append(q, x) /\ Len(p) = Len(q) + 1
<1>1. /\ Append(q, x) \in Seq(S) /\ Len(Append(q, x)) = Len(q) + 1 /\ Len(q) \in Nat
      /\ \A n \in 1..Len(q) : Append(q, x)[n] = q[n]
      /\ Append(q, x)[Len(q) + 1] = x
  BY AppendProperties, LenProperties
<1>2. \A n \in 1..(Len(q) + 1) : p[n] = Append(q, x)[n]
  <2>1. \A n \in 1..(Len(q) + 1) : n \in 1..Len(q) \/ n = Len(q) + 1
    BY <1>1
  <2>2. QED
    BY <1>1, <2>1
<1>3. Append(q, x) = [n \in 1..(Len(q) + 1) |-> Append(q, x)[n]]
  <2>1. Append(q, x) \in [1..(Len(q) + 1) -> S]
    <3> DEFINE a == Append(q, x)
    <3>1. a \in Seq(S) /\ Len(a) = Len(q) + 1
      BY <1>1
    <3> HIDE DEF a
    <3>2. a \in [1..Len(a) -> S]
      BY <3>1, LenProperties
    <3>3. QED
      BY <3>1, <3>2 DEF a
  <2>2. QED
    BY <2>1
<1>4. p = Append(q, x)
  BY <1>2, <1>3
<1>5. QED
  BY <1>1, <1>4

\* Another entry is another version.
LEMMA VersionsAppend ==
  ASSUME RInv, NEW i \in Inode, entries' = Append(entries, i), data' = data,
         data[i][1] \in Value
  PROVE  Versions' = Append(Versions, data[i][1]) /\ Len(Versions') = Len(entries) + 1
<1>1. /\ Len(entries) \in Nat /\ entries'[Len(entries) + 1] = i
      /\ DOMAIN entries = 1..Len(entries) /\ DOMAIN entries' = 1..(Len(entries) + 1)
      /\ \A n \in 1..Len(entries) : entries'[n] = entries[n]
  BY EntriesAppend DEF RInv
<1>2. Versions \in Seq(Value) /\ Len(Versions) = Len(entries)
  BY VersionsLength
<1>3. Versions' = [n \in 1..(Len(entries) + 1) |-> data[entries'[n]][1]]
  BY <1>1 DEF Versions
<1>4. Versions = [n \in 1..Len(entries) |-> data[entries[n]][1]]
  BY <1>1 DEF Versions
<1>5. Versions'[Len(entries) + 1] = data[i][1]
  <2>1. Len(entries) + 1 \in 1..(Len(entries) + 1)
    BY <1>1
  <2>2. QED
    BY <1>1, <1>3, <2>1
<1>6. \A n \in 1..Len(entries) : Versions'[n] = Versions[n]
  <2>1. \A n \in 1..Len(entries) : n \in 1..(Len(entries) + 1)
    BY <1>1
  <2>2. QED
    BY <1>1, <1>3, <1>4, <2>1
<1>7. Versions' = [n \in 1..(Len(entries) + 1) |-> Versions'[n]]
  BY <1>3
<1>8. QED
  BY <1>2, <1>5, <1>6, <1>7, AppendAt

\* A step of w that changes at most its own inode keeps the versions.
LEMMA VersionsApart ==
  ASSUME RInv, NEW w \in Writer, Apart(w), entries' = entries,
         ~Published(Own(w)) \/ data'[Own(w)] = data[Own(w)]
  PROVE  Versions' = Versions
<1>1. ASSUME NEW n \in DOMAIN entries PROVE data'[entries[n]] = data[entries[n]]
  BY EntriesAreInodes DEF Apart, Published
<1>2. QED
  BY <1>1, VersionsSame

\* Steps that the abstract file does not see.
LEMMA StutterRefines ==
  ASSUME RInv, RInv', NEW w \in Writer,
         OpenTemp(w) \/ WriteBlock(w) \/ SyncTemp(w) \/ RemoveTemp(w) \/ CallFails(w)
  PROVE  UNCHANGED File!vars
<1>1. /\ UNCHANGED <<entries, kept, call, calls, outcome, reply>>
      /\ pc[w] # "idle" /\ \A u \in Writer : pc'[u] = "idle" <=> pc[u] = "idle"
  BY ZenonT(60) DEF OpenTemp, WriteBlock, SyncTemp, RemoveTemp, CallFails, names, Goto, RInv, IInv, TypeOK
<1>2. Own(w) \in Inode /\ UniqueTempSuffix(w) = Own(w)
  BY <1>1, OwnType DEF RInv, IInv
<1>3. ASSUME NEW u \in Writer PROVE fd'[u] = fd[u] \/ (~Published(fd[u]) /\ ~Published(fd[u])')
  <2>1. CASE OpenTemp(w) /\ u = w
    <3>1. fd[w] = Nothing /\ ~Published(Own(w))
      BY <2>1 DEF OpenTemp, RInv, IInv, WriterInv
    <3>2. ~Published(Nothing)
      BY EntriesAreInodes, NothingIsNoInode DEF Published
    <3>3. fd'[w] = Own(w)
      <4>1. temps[Own(w)] = Own(w) \/ temps[Own(w)] = Nothing
        BY <1>2 DEF RInv, IInv, NameInv
      <4>2. QED
        BY <1>2, <2>1, <4>1 DEF OpenTemp, RInv, IInv, TypeOK
    <3>4. QED
      BY <1>1, <2>1, <3>1, <3>2, <3>3 DEF Published
  <2>2. CASE WriteBlock(w) \/ SyncTemp(w) \/ RemoveTemp(w) \/ CallFails(w)
    BY <2>2 DEF WriteBlock, SyncTemp, RemoveTemp, CallFails
  <2>3. CASE OpenTemp(w) /\ u # w
    <3>1. PICK i : fd' = [fd EXCEPT ![w] = i]
      BY <2>3 DEF OpenTemp
    <3>2. QED
      BY <2>3, <3>1 DEF RInv, IInv, TypeOK
  <2>4. QED
    BY <2>1, <2>2, <2>3
<1>4. Request' = Request
  <2>1. ASSUME NEW u \in Writer PROVE Request'[u] = Request[u]
    <3>1. CASE fd'[u] = fd[u]
      <4>1. ~Published(fd[u]) => ~Published(fd[u])'
        BY <1>1, <3>1 DEF Published
      <4>2. QED
        BY <1>1, <3>1, <4>1, RequestSame
    <3>2. CASE ~Published(fd[u]) /\ ~Published(fd[u])'
      <4>1. (pc[u] = "clean up" /\ outcome[u] = "exists") <=> (pc'[u] = "clean up" /\ outcome'[u] = "exists")
        BY <1>1 DEF RInv, OutcomeInv
      <4>2. QED
        BY <1>1, <3>2, <4>1 DEF Request, Published
    <3>3. QED
      BY <1>3, <3>1, <3>2
  <2>2. QED
    BY <2>1 DEF Request
<1>5. Versions' = Versions
  <2>1. ASSUME NEW n \in DOMAIN entries PROVE data'[entries[n]] = data[entries[n]]
    <3>1. entries[n] \in Inode
      BY EntriesAreInodes
    <3>2. data[entries[n]] \in Content
      BY <3>1 DEF RInv, IInv, TypeOK, Content
    <3>3. CASE OpenTemp(w) \/ WriteBlock(w)
      <4>1. entries[n] # Own(w)
        BY <3>3 DEF OpenTemp, WriteBlock, RInv, IInv, WriterInv, Published
      <4>2. data' = [data EXCEPT ![Own(w)] = data'[Own(w)]]
        <5>1. CASE OpenTemp(w)
          <6>1. temps[Own(w)] = Own(w) \/ temps[Own(w)] = Nothing
            BY <1>2 DEF RInv, IInv, NameInv
          <6>2. data' = [data EXCEPT ![Own(w)] = Hole]
            BY <1>2, <5>1, <6>1 DEF OpenTemp
          <6>3. QED
            BY <1>2, <6>2 DEF RInv, IInv, TypeOK
        <5>2. CASE WriteBlock(w)
          <6>1. fd[w] = Own(w)
            BY <5>2, FdOwn DEF WriteBlock, RInv
          <6>2. data' = [data EXCEPT ![Own(w)][at'[w]] = call[w].value]
            BY <5>2, <6>1 DEF WriteBlock
          <6>3. QED
            BY <1>2, <6>2 DEF RInv, IInv, TypeOK
        <5>3. QED
          BY <3>3, <5>1, <5>2
      <4>3. QED
        BY <3>1, <4>1, <4>2 DEF RInv, IInv, TypeOK
    <3>4. CASE SyncTemp(w) \/ RemoveTemp(w) \/ CallFails(w)
      BY <3>4 DEF SyncTemp, RemoveTemp, CallFails, blocks
    <3>5. QED
      BY <3>3, <3>4
  <2>2. QED
    BY <1>1, <2>1, VersionsSame
<1>6. QED
  BY <1>1, <1>4, <1>5 DEF File!vars

LEMMA PublishRefines ==
  ASSUME RInv, RInv', NEW w \in Writer, Rename(w) \/ Link(w)
  PROVE  File!Publish(w)
<1>1. /\ pc[w] = "publish" /\ fd[w] = Own(w) /\ Own(w) \in Inode /\ ~Published(Own(w))
      /\ data[Own(w)] = Whole(call[w].value) /\ call[w].value \in Value
      /\ entries' = Append(entries, Own(w)) /\ Goto(w, "sync dir")
      /\ UNCHANGED <<kept, data, safe, call, fd, at, outcome, reply, calls>>
  BY PublishEffect DEF RInv
<1>2. /\ Len(entries) \in Nat /\ entries'[Len(entries) + 1] = Own(w)
      /\ DOMAIN entries = 1..Len(entries) /\ DOMAIN entries' = 1..(Len(entries) + 1)
      /\ \A n \in 1..Len(entries) : entries'[n] = entries[n]
      /\ Len(entries') = Len(entries) + 1
  BY <1>1, EntriesAppend DEF RInv
<1>3. outcome[w] = "error" /\ outcome'[w] = "error"
  BY <1>1 DEF RInv, OutcomeInv
<1>4. Request[w] = call[w]
  <2>1. ~Published(fd[w])
    BY <1>1
  <2>2. QED
    BY <1>1, <1>3, <2>1, RequestCases
<1>5. Versions' = Append(Versions, call[w].value) /\ Len(Versions') = Len(entries) + 1
  <2>1. data[Own(w)][1] = call[w].value
    BY <1>1, OneIsABlock DEF Whole
  <2>2. QED
    BY <1>1, <2>1, VersionsAppend
<1>6. Growing(w) /\ Apart(w)
  <2>1. kept \in 0..Len(entries)
    BY DEF RInv, IInv, TypeOK
  <2>2. kept \in Nat
    BY <2>1
  <2>3. kept' = kept
    BY <1>1
  <2>4. Growing(w)
    BY <1>2, <2>2, <2>3 DEF Growing
  <2>5. Apart(w)
    BY <1>1, GotoApart DEF RInv
  <2>6. QED
    BY <2>4, <2>5
<1>7. Request' = [Request EXCEPT ![w] = Request'[w]]
  BY <1>1, <1>6, RequestOthers
<1>8. Request'[w] = File!Published(Len(Versions'))
  <2>1. pc'[w] = "sync dir" /\ fd'[w] = Own(w)
    BY <1>1 DEF Goto, RInv, IInv, TypeOK
  <2>2. Len(entries) + 1 \in DOMAIN entries'
    BY <1>2
  <2>3. Request'[w] = [op |-> "published",
                       version |-> CHOOSE m \in DOMAIN entries' : entries'[m] = fd'[w]]
    BY <1>2, <1>3, <2>1, <2>2 DEF Request
  <2>4. \A m \in DOMAIN entries' : entries'[m] = fd'[w] => m = Len(entries) + 1
    BY <1>2, <2>1, <2>2 DEF RInv, Injective
  <2>5. (CHOOSE m \in DOMAIN entries' : entries'[m] = fd'[w]) = Len(entries) + 1
    BY <1>2, <2>1, <2>2, <2>4
  <2>6. QED
    BY <1>5, <2>3, <2>5 DEF File!Published
<1>9. Request[w].op = "replace" \/ (Request[w].op = "create" /\ Versions = <<>>)
  <2>1. CASE Rename(w)
    BY <1>4, <2>1 DEF Rename
  <2>2. CASE Link(w)
    <3>1. call[w].op = "create" /\ entries = <<>>
      BY <2>2 DEF Link
    <3>2. Len(Versions) = 0 /\ Versions \in Seq(Value)
      BY <3>1, VersionsLength
    <3>3. Versions = <<>>
      BY <3>2, EmptySeq
    <3>4. QED
      BY <1>4, <3>1, <3>3
  <2>3. QED
    BY <2>1, <2>2
<1>10. QED
  BY <1>1, <1>4, <1>5, <1>7, <1>8, <1>9 DEF File!Publish

LEMMA RefuseRefines ==
  ASSUME RInv, RInv', NEW w \in Writer, LinkRefused(w)
  PROVE  File!Refuse(w)
<1>1. /\ pc[w] = "publish" /\ call[w].op = "create" /\ entries # <<>>
      /\ outcome' = [outcome EXCEPT ![w] = "exists"] /\ Goto(w, "clean up")
      /\ UNCHANGED <<entries, kept, data, safe, call, fd, at, reply, calls>>
  BY DEF LinkRefused, names, blocks
<1>2. fd[w] = Own(w) /\ Own(w) \in Inode /\ ~Published(Own(w))
  BY <1>1, FdOwn DEF RInv, IInv, WriterInv
<1>3. Request[w] = call[w]
  BY <1>1, <1>2, RequestCases DEF RInv, OutcomeInv
<1>4. Growing(w) /\ Apart(w)
  BY <1>1, SameEntries, GotoApart DEF RInv, IInv
<1>5. Request' = [Request EXCEPT ![w] = Request'[w]]
  BY <1>1, <1>2, <1>4, RequestOthers DEF RInv, IInv, TypeOK
<1>6. Request'[w] = [op |-> "refused"]
  <2>1. pc'[w] = "clean up" /\ outcome'[w] = "exists"
    BY <1>1 DEF Goto, RInv, IInv, TypeOK
  <2>2. QED
    BY <2>1 DEF Request
<1>7. Versions' = Versions
  BY <1>1, VersionsSame
<1>8. Versions # <<>>
  <2>1. entries \in Seq(Inode) /\ entries # <<>>
    BY <1>1 DEF RInv, IInv, TypeOK
  <2>2. Len(entries) # 0
    BY <2>1, EmptySeq
  <2>3. Len(Versions) # 0
    BY <2>2, VersionsLength
  <2>4. QED
    BY <2>3
<1>9. QED
  BY <1>1, <1>3, <1>5, <1>6, <1>7, <1>8 DEF File!Refuse

LEMMA SyncDirectoryRefines ==
  ASSUME RInv, RInv', NEW w \in Writer, SyncDirectory(w)
  PROVE  File!Persist
<1>1. /\ UNCHANGED <<entries, data, call, fd, outcome, reply, calls>>
      /\ kept' = Len(entries) /\ pc[w] # "idle"
      /\ \A u \in Writer : pc'[u] = "idle" <=> pc[u] = "idle"
  BY DEF SyncDirectory, blocks, Goto, RInv, IInv, TypeOK
<1>2. ASSUME NEW u \in Writer PROVE Request'[u] = Request[u]
  <2>1. ~Published(fd[u]) => ~Published(fd[u])'
    BY <1>1 DEF Published
  <2>2. QED
    BY <1>1, <2>1, RequestSame
<1>3. Request' = Request
  BY <1>2 DEF Request
<1>4. Versions' = Versions
  BY <1>1, VersionsSame
<1>5. kept' \in kept..Len(Versions)
  <2>1. kept \in 0..Len(entries) /\ entries \in Seq(Inode)
    BY DEF RInv, IInv, TypeOK
  <2>2. Len(entries) \in Nat
    BY <2>1, LenProperties
  <2>3. kept \in Nat /\ kept <= Len(entries)
    BY <2>1, <2>2
  <2>4. QED
    BY <1>1, <2>2, <2>3, VersionsLength
<1>6. QED
  BY <1>1, <1>3, <1>4, <1>5 DEF File!Persist

\* The end of w's call, as the abstract file sees it.
LEMMA AnswerRefines ==
  ASSUME RInv, RInv', NEW w \in Writer, NEW r, End({w}, r), pc[w] # "idle",
         UNCHANGED <<entries, kept, data, calls>>
  PROVE  File!Answer(w, r)
<1>1. ASSUME NEW u \in Writer PROVE Request'[u] = IF u = w THEN File!Idle ELSE Request[u]
  <2>1. CASE u = w
    <3>1. pc'[u] = "idle"
      BY <2>1 DEF End
    <3>2. QED
      BY <2>1, <3>1 DEF Request, File!Idle
  <2>2. CASE u # w
    <3>1. /\ pc'[u] = pc[u] /\ call'[u] = call[u] /\ fd'[u] = fd[u]
          /\ outcome'[u] = outcome[u]
      BY <2>2 DEF End
    <3>2. ~Published(fd[u]) => ~Published(fd[u])'
      BY <3>1 DEF Published
    <3>3. Request'[u] = Request[u]
      BY <3>1, <3>2, RequestSame
    <3>4. QED
      BY <2>2, <3>3
  <2>3. QED
    BY <2>1, <2>2
<1>2. Request' = [Request EXCEPT ![w] = File!Idle]
  <2>1. /\ Request = [u \in Writer |-> Request[u]]
        /\ Request' = [u \in Writer |-> Request'[u]]
    BY DEF Request
  <2>2. QED
    BY <1>1, <2>1
<1>3. reply' = [reply EXCEPT ![w] = r]
  BY DEF End, RInv, IInv, TypeOK
<1>4. Versions' = Versions
  BY VersionsSame
<1>5. QED
  BY <1>2, <1>3, <1>4 DEF File!Answer

LEMMA ReturnRefines ==
  ASSUME RInv, RInv', NEW w \in Writer,
         Done(w) \/ CleanUp(w) \/ LateFailure(w) \/ Crash(w)
  PROVE  File!Return(w) \/ File!Fail(w)
<1>1. UNCHANGED <<entries, kept, data, calls>> /\ pc[w] # "idle"
  BY DEF Done, CleanUp, LateFailure, Crash, names, blocks
<1>2. Request[w] # File!Idle
  BY <1>1, RequestIdle
<1>3. CASE Done(w)
  <2>1. pc[w] = "done" /\ End({w}, "ok")
    BY <1>3 DEF Done, Return
  <2>2. outcome[w] = "error" /\ Kept(fd[w])
    BY <2>1 DEF RInv, OutcomeInv, IInv, WriterInv
  <2>3. kept \in 0..Len(entries) /\ entries \in Seq(Inode)
    BY DEF RInv, IInv, TypeOK
  <2>4. PICK n \in 1..kept : entries[n] = fd[w]
    BY <2>2 DEF Kept
  <2>5. n \in DOMAIN entries /\ n <= kept
    <3>1. Len(entries) \in Nat /\ DOMAIN entries = 1..Len(entries)
      BY <2>3, LenProperties
    <3>2. QED
      BY <2>3, <2>4, <3>1
  <2>6. Request[w] = File!Published(n)
    BY <2>1, <2>2, <2>4, <2>5, RequestPublished
  <2>7. Request[w].op = "published" /\ Request[w].version = n
    BY <2>6 DEF File!Published
  <2>8. File!Answer(w, "ok")
    BY <1>1, <2>1, AnswerRefines
  <2>9. QED
    BY <2>5, <2>7, <2>8 DEF File!Return
<1>4. CASE CleanUp(w)
  <2>1. pc[w] = "clean up" /\ End({w}, outcome[w])
    BY <1>4 DEF CleanUp, Return
  <2>2. File!Answer(w, outcome[w])
    BY <1>1, <2>1, AnswerRefines
  <2>3. outcome[w] = "error" \/ outcome[w] = "exists"
    BY DEF RInv, IInv, TypeOK
  <2>4. CASE outcome[w] = "error"
    BY <1>2, <2>2, <2>4 DEF File!Fail
  <2>5. CASE outcome[w] = "exists"
    <3>1. Request[w] = [op |-> "refused"]
      BY <2>1, <2>5, RequestCases
    <3>2. Request[w].op = "refused"
      BY <3>1
    <3>3. QED
      BY <2>2, <2>5, <3>2 DEF File!Return
  <2>6. QED
    BY <2>3, <2>4, <2>5
<1>5. CASE LateFailure(w) \/ Crash(w)
  <2>1. End({w}, "error")
    BY <1>5 DEF LateFailure, Crash, Return
  <2>2. File!Answer(w, "error")
    BY <1>1, <2>1, AnswerRefines
  <2>3. QED
    BY <1>2, <2>2 DEF File!Fail
<1>6. QED
  BY <1>3, <1>4, <1>5

LEMMA CallRefines ==
  ASSUME RInv, RInv', NEW w \in Writer, Call(w)
  PROVE  File!Call(w)
<1>1. PICK c \in CallsOf[w] : call' = [call EXCEPT ![w] = c]
  BY DEF Call
<1>2. /\ pc[w] = "idle" /\ pc' = [pc EXCEPT ![w] = "open"]
      /\ UNCHANGED <<entries, kept, data, fd, outcome, reply>>
  BY DEF Call, names, blocks
<1>3. /\ pc'[w] = "open" /\ call'[w] = c
      /\ \A u \in Writer \ {w} : pc'[u] = pc[u] /\ call'[u] = call[u]
  BY <1>1, <1>2 DEF RInv, IInv, TypeOK
<1>4. Request'[w] = c
  <2>1. fd'[w] = Nothing
    BY <1>2 DEF RInv, IInv, WriterInv
  <2>2. ~\E n \in DOMAIN entries' : entries'[n] = fd'[w]
    BY <1>2, <2>1, EntriesAreInodes, NothingIsNoInode
  <2>3. QED
    BY <1>3, <2>2 DEF Request
<1>5. ASSUME NEW u \in Writer \ {w} PROVE Request'[u] = Request[u]
  BY <1>2, <1>3 DEF Request
<1>6. Request' = [Request EXCEPT ![w] = c]
  <2>1. /\ Request = [u \in Writer |-> Request[u]]
        /\ Request' = [u \in Writer |-> Request'[u]]
    BY DEF Request
  <2>2. QED
    BY <1>4, <1>5, <2>1
<1>7. Request[w] = File!Idle /\ Versions' = Versions
  BY <1>2, RequestCases, VersionsSame
<1>8. QED
  BY <1>2, <1>6, <1>7 DEF File!Call

LEMMA PowerLossRefines == ASSUME RInv, RInv', PowerLoss PROVE File!PowerLoss
<1>1. PICK m \in kept..Len(entries) :
        /\ kept' = m /\ DOMAIN entries' = 1..m /\ DOMAIN entries = 1..Len(entries)
        /\ Len(entries) \in Nat /\ m \in Nat /\ m <= Len(entries)
        /\ \A n \in 1..m : entries'[n] = entries[n]
        /\ \A i \in Inode : data[i] = safe[i] => data'[i] = data[i] /\ safe'[i] = safe[i]
  BY PowerLossEffect DEF RInv
<1>2. Versions \in Seq(Value) /\ Len(Versions) = Len(entries)
  BY VersionsLength
<1>3. Versions' = SubSeq(Versions, 1, m)
  <2>1. \A n \in 1..m : n \in DOMAIN entries
    BY <1>1
  <2>2. ASSUME NEW n \in 1..m PROVE data'[entries'[n]] = data[entries[n]]
    <3>1. entries[n] \in Inode /\ EntryInv(n) /\ entries'[n] = entries[n]
      BY <1>1, <2>1, EntriesAreInodes DEF RInv, IInv, EntriesInv
    <3>2. QED
      BY <1>1, <3>1 DEF EntryInv
  <2>3. Versions' = [n \in 1..m |-> data'[entries'[n]][1]]
    BY <1>1 DEF Versions
  <2>4. Versions' = [n \in 1..m |-> Versions[n]]
    BY <2>1, <2>2, <2>3 DEF Versions
  <2>5. SubSeq(Versions, 1, m) = [n \in 1..m |-> Versions[n]]
    <3>1. m = 0 \/ m >= 1
      BY <1>1
    <3>2. /\ SubSeq(Versions, 1, m) \in Seq(Value) /\ Len(SubSeq(Versions, 1, m)) = m
          /\ \A n \in 1..m : SubSeq(Versions, 1, m)[n] = Versions[n]
      BY <1>1, <1>2, <3>1, SubSeqProperties, LenProperties, ElementOfSeq
    <3> DEFINE q == SubSeq(Versions, 1, m)
    <3>3. q \in Seq(Value) /\ Len(q) = m /\ \A n \in 1..m : q[n] = Versions[n]
      BY <3>2
    <3> HIDE DEF q
    <3>4. q \in [1..m -> Value]
      BY <3>3, LenProperties
    <3>5. q = [n \in 1..m |-> Versions[n]]
      BY <3>3, <3>4
    <3>6. QED
      BY <3>5 DEF q
  <2>6. QED
    BY <2>4, <2>5
<1>4. End({w \in Writer : pc[w] # "idle"}, "error")
  BY DEF PowerLoss
<1>5. Request' = [w \in Writer |-> File!Idle]
  <2>1. \A w \in Writer : pc'[w] = "idle"
    BY <1>4 DEF End
  <2>2. QED
    BY <2>1 DEF Request, File!Idle
<1>6. reply' = [w \in Writer |-> IF Request[w] = File!Idle THEN reply[w] ELSE "error"]
  BY <1>4, RequestIdle DEF End
<1>7. m \in kept..Len(Versions)
  BY <1>2
<1>8. QED
  BY <1>1, <1>3, <1>5, <1>6, <1>7 DEF File!PowerLoss

LEMMA InitRefines == Init => File!Init
<1> SUFFICES ASSUME Init PROVE File!Init
  OBVIOUS
<1>1. Versions = <<>>
  BY InitRInv, VersionsLength, EmptySeq DEF Init
<1>2. Request = [w \in Writer |-> File!Idle]
  BY DEF Init, Request, File!Idle
<1>3. QED
  BY <1>1, <1>2 DEF Init, File!Init

\* DurablyWriteFile and DurablyCreateNewFile act at one instant each: their callers
\* see the atomic, durable file that durable_writer.h describes.
THEOREM Implements == Spec => ImplementsAtomicFile
<1>1. RInv /\ RInv' /\ [Next]_vars => [File!Next]_(File!vars)
  <2> SUFFICES ASSUME RInv, RInv', [Next]_vars PROVE File!Next \/ UNCHANGED File!vars
    OBVIOUS
  <2>1. CASE UNCHANGED vars
    BY <2>1 DEF vars, File!vars, Versions, Request
  <2>2. ASSUME NEW w \in Writer, Call(w) PROVE File!Next
    BY <2>2, CallRefines DEF File!Next
  <2>3. ASSUME NEW w \in Writer, Step(w) PROVE File!Next \/ UNCHANGED File!vars
    BY <2>3, StutterRefines, PublishRefines, RefuseRefines, SyncDirectoryRefines,
       ReturnRefines DEF Step, File!Next
  <2>4. ASSUME NEW w \in Writer, FaultStep(w) PROVE File!Next \/ UNCHANGED File!vars
    BY <2>4, StutterRefines, ReturnRefines DEF FaultStep, File!Next
  <2>5. CASE PowerLoss
    BY <2>5, PowerLossRefines DEF File!Next
  <2>6. QED
    BY <2>1, <2>2, <2>3, <2>4, <2>5 DEF Next
<1>2. QED
  BY <1>1, InitRInv, NextRInv, InitRefines, PTL DEF Spec, ImplementsAtomicFile, File!Spec
-----------------------------------------------------------------------------
(* No temporary file is left *)

\* Where a call that is about to answer has no temporary file any more: a replacement
\* since its rename, a creation since it removed the name.
Tidied(w) ==
  pc[w] \in {"sync dir again", "done"} \/ (pc[w] = "sync dir" /\ call[w].op = "replace")
Tidy == \A w \in Writer : Tidied(w) => temps[Own(w)] = Nothing
TInv == TypeOK /\ Tidy

\* A writer whose step it is not.
LEMMA OthersTidy ==
  ASSUME TInv, NEW w \in Writer, pc[w] # "idle", calls' = calls,
         temps' = temps \/ \E i : temps' = [temps EXCEPT ![Own(w)] = i],
         NEW u \in Writer, u # w, pc'[u] = pc[u], call'[u] = call[u], Tidied(u)'
  PROVE  temps'[Own(u)'] = Nothing
<1>1. Tidied(u) /\ Own(u)' = Own(u) /\ Own(u) # Own(w)
  BY OwnsDiffer DEF Tidied, Own
<1>2. pc[u] # "idle"
  BY <1>1 DEF Tidied
<1>3. Own(u) \in Inode /\ Own(w) \in Inode /\ temps \in [Inode -> Inode \cup {Nothing}]
  BY <1>2 DEF TInv, TypeOK
<1>4. temps[Own(u)] = Nothing
  BY <1>1 DEF TInv, Tidy
<1>5. QED
  BY <1>1, <1>3, <1>4

\* A step of a writer that goes on with its call.
LEMMA GotoTidy ==
  ASSUME TInv, NEW w \in Writer, pc[w] # "idle", NEW l, Goto(w, l), call' = call, calls' = calls,
         temps' = temps \/ \E i : temps' = [temps EXCEPT ![Own(w)] = i],
         l \in {"sync dir again", "done"} \/ (l = "sync dir" /\ call[w].op = "replace") =>
           temps'[Own(w)] = Nothing
  PROVE  Tidy'
<1>1. pc'[w] = l /\ \A u \in Writer \ {w} : pc'[u] = pc[u]
  BY DEF Goto, TInv, TypeOK
<1>2. ASSUME NEW u \in Writer, Tidied(u)' PROVE temps'[Own(u)'] = Nothing
  <2>1. CASE u = w
    BY <1>1, <1>2, <2>1 DEF Tidied, Own
  <2>2. CASE u # w
    BY <1>1, <1>2, <2>2, OthersTidy
  <2>3. QED
    BY <2>1, <2>2
<1>3. QED
  BY <1>2 DEF Tidy

LEMMA ReturnTidy ==
  ASSUME TInv, NEW w \in Writer, pc[w] # "idle", NEW r, Return(w, r), calls' = calls,
         temps' = temps \/ \E i : temps' = [temps EXCEPT ![Own(w)] = i]
  PROVE  Tidy'
<1>1. pc'[w] = "idle" /\ \A u \in Writer \ {w} : pc'[u] = pc[u] /\ call'[u] = call[u]
  BY DEF Return, End
<1>2. ASSUME NEW u \in Writer, Tidied(u)' PROVE temps'[Own(u)'] = Nothing
  <2>1. u # w
    BY <1>1, <1>2 DEF Tidied
  <2>2. QED
    BY <1>1, <1>2, <2>1, OthersTidy
<1>3. QED
  BY <1>2 DEF Tidy

LEMMA StepTidy ==
  ASSUME TInv, NEW w \in Writer, Step(w)
  PROVE  Tidy'
<1>1. pc[w] # "idle" /\ Own(w) \in Inode /\ UniqueTempSuffix(w) = Own(w)
      /\ temps \in [Inode -> Inode \cup {Nothing}]
  BY DEF TInv, TypeOK, UniqueTempSuffix, Step, OpenTemp, WriteBlock, SyncTemp, Rename, Link,
     LinkRefused, SyncDirectory, RemoveTemp, Done, CleanUp
<1>2. CASE OpenTemp(w)
  BY <1>1, <1>2, GotoTidy DEF OpenTemp
<1>3. CASE WriteBlock(w)
  <2>1. PICK l \in {"sync", "write"} : Goto(w, l)
    BY <1>3 DEF WriteBlock
  <2>2. QED
    BY <1>1, <1>3, <2>1, GotoTidy DEF WriteBlock, names
<1>4. CASE SyncTemp(w) \/ LinkRefused(w)
  BY <1>1, <1>4, GotoTidy DEF SyncTemp, LinkRefused, names
<1>5. CASE Rename(w)
  <2>1. temps'[Own(w)] = Nothing
    BY <1>1, <1>5 DEF Rename
  <2>2. QED
    BY <1>1, <1>5, <2>1, GotoTidy DEF Rename
<1>6. CASE Link(w)
  BY <1>1, <1>6, GotoTidy DEF Link
<1>7. CASE SyncDirectory(w)
  <2>1. PICK l : /\ Goto(w, l)
                 /\ l = (IF pc[w] = "sync dir" /\ call[w].op = "create" THEN "remove" ELSE "done")
    BY <1>7 DEF SyncDirectory
  <2>2. l = "done" => Tidied(w)
    <3>1. call[w].op \in {"replace", "create"}
      BY <1>1 DEF TInv, TypeOK, CallType
    <3>2. QED
      BY <1>7, <2>1, <3>1 DEF SyncDirectory, Tidied
  <2>3. l = "done" => temps[Own(w)] = Nothing
    BY <2>2 DEF TInv, Tidy
  <2>4. QED
    BY <1>1, <1>7, <2>1, <2>3, GotoTidy DEF SyncDirectory
<1>8. CASE RemoveTemp(w)
  <2>1. temps'[Own(w)] = Nothing
    BY <1>1, <1>8 DEF RemoveTemp
  <2>2. QED
    BY <1>1, <1>8, <2>1, GotoTidy DEF RemoveTemp
<1>9. CASE Done(w) \/ CleanUp(w)
  BY <1>1, <1>9, ReturnTidy DEF Done, CleanUp, names
<1>10. QED
  BY <1>2, <1>3, <1>4, <1>5, <1>6, <1>7, <1>8, <1>9 DEF Step

LEMMA FaultStepTidy ==
  ASSUME TInv, NEW w \in Writer, FaultStep(w)
  PROVE  Tidy'
<1>1. CASE CallFails(w)
  BY <1>1, GotoTidy DEF CallFails, names
<1>2. CASE LateFailure(w) \/ Crash(w)
  BY <1>2, ReturnTidy DEF LateFailure, Crash, names
<1>3. QED
  BY <1>1, <1>2 DEF FaultStep

LEMMA CallTidy ==
  ASSUME TInv, NEW w \in Writer, Call(w)
  PROVE  Tidy'
<1>1. PICK c : call' = [call EXCEPT ![w] = c]
  BY DEF Call
<1>2. pc'[w] = "open" /\ temps' = temps
      /\ \A u \in Writer \ {w} : pc'[u] = pc[u] /\ call'[u] = call[u] /\ calls'[u] = calls[u]
  BY <1>1 DEF Call, TInv, TypeOK, names
<1>3. ASSUME NEW u \in Writer, Tidied(u)' PROVE temps'[Own(u)'] = Nothing
  <2>1. u # w
    BY <1>2, <1>3 DEF Tidied
  <2>2. Tidied(u) /\ Own(u)' = Own(u)
    BY <1>2, <1>3, <2>1 DEF Tidied, Own
  <2>3. QED
    BY <1>2, <2>2 DEF TInv, Tidy
<1>4. QED
  BY <1>3 DEF Tidy

LEMMA NextTidy == TInv /\ [Next]_vars => TInv'
<1>1. SUFFICES ASSUME TInv, [Next]_vars PROVE Tidy'
  BY NextType DEF TInv
<1>2. CASE UNCHANGED vars
  BY <1>1, <1>2 DEF vars, TInv, Tidy, Tidied, Own
<1>3. CASE PowerLoss
  <2>1. \A w \in Writer : pc'[w] = "idle"
    BY <1>3 DEF PowerLoss, End
  <2>2. QED
    BY <2>1 DEF Tidy, Tidied
<1>4. QED
  BY <1>1, <1>2, <1>3, CallTidy, StepTidy, FaultStepTidy DEF Next

\* Only CleanUp and Done end a call without a fault, CleanUp by removing the name.
LEMMA ReturnsTidy ==
  ASSUME TInv, [Next]_vars, NEW w \in Writer, pc[w] # "idle", pc'[w] = "idle", faults' = faults
  PROVE  temps'[Own(w)] = Nothing
<1>1. faults' # faults + 1 /\ pc' # pc
  <2>1. faults \in 0..MaxFaults
    BY DEF TInv, TypeOK
  <2>2. faults' # faults + 1
    BY <2>1, BoundsAssumption
  <2>3. QED
    BY <2>2
<1>2. ~PowerLoss /\ ~UNCHANGED vars
  BY <1>1 DEF PowerLoss, Fault, vars
<1>3. ASSUME NEW u \in Writer, Call(u) PROVE FALSE
  <2>1. pc' = [pc EXCEPT ![u] = "open"]
    BY <1>3 DEF Call
  <2>2. QED
    BY <2>1 DEF TInv, TypeOK
<1>4. ASSUME NEW u \in Writer, FaultStep(u) PROVE FALSE
  BY <1>1, <1>4 DEF FaultStep, CallFails, LateFailure, Crash, Fault
<1>5. PICK u \in Writer : Step(u)
  BY <1>2, <1>3, <1>4 DEF Next
<1>6. CASE Done(u) \/ CleanUp(u)
  <2>1. u = w
    BY <1>6 DEF Done, CleanUp, Return, End
  <2>2. Own(w) \in Inode /\ UniqueTempSuffix(w) = Own(w) /\ temps \in [Inode -> Inode \cup {Nothing}]
    BY DEF TInv, TypeOK, UniqueTempSuffix
  <2>3. CASE Done(u)
    <3>1. Tidied(w) /\ temps' = temps
      BY <2>1, <2>3 DEF Done, Tidied, names
    <3>2. QED
      BY <3>1 DEF TInv, Tidy
  <2>4. CASE CleanUp(u)
    <3>1. temps' = [temps EXCEPT ![Own(w)] = Nothing]
      BY <1>1, <2>1, <2>2, <2>4 DEF CleanUp, Fault
    <3>2. QED
      BY <2>2, <3>1
  <2>5. QED
    BY <1>6, <2>3, <2>4
<1>7. CASE ~(Done(u) \/ CleanUp(u))
  <2>1. \A l : Goto(u, l) /\ l # "idle" => pc'[w] # "idle"
    BY DEF Goto, TInv, TypeOK
  <2>2. CASE OpenTemp(u) \/ SyncTemp(u) \/ Rename(u) \/ Link(u) \/ LinkRefused(u) \/ RemoveTemp(u)
    BY <2>1, <2>2 DEF OpenTemp, SyncTemp, Rename, Link, LinkRefused, RemoveTemp
  <2>3. CASE WriteBlock(u)
    BY <2>1, <2>3 DEF WriteBlock
  <2>4. CASE SyncDirectory(u)
    BY <2>1, <2>4 DEF SyncDirectory
  <2>5. QED
    BY <1>5, <1>7, <2>2, <2>3, <2>4 DEF Step
<1>8. QED
  BY <1>6, <1>7

\* A call leaves no temporary file behind, whatever failed in it and whatever others do at
\* the same time: only a remove() that fails, or a death, does
\* (durable_writer.cc:193, 198, 226, 240, 254).
THEOREM NoLitterLeft == Spec => NoLitter
<1>1. Init => TInv
  BY InitType DEF TInv, Init, Tidy, Tidied
<1>2. TInv /\ [Next]_vars =>
        [\A w \in Writer :
           pc[w] # "idle" /\ pc'[w] = "idle" /\ faults' = faults => temps'[Own(w)] = Nothing]_vars
  BY ReturnsTidy
<1>3. QED
  BY <1>1, <1>2, NextTidy, PTL DEF Spec, NoLitter
=============================================================================
