-------------------------- MODULE CheckpointsProofs --------------------------
(***************************************************************************)
(* Checkpoints is type correct, a manifest that is found always has its    *)
(* payload, and what was acknowledged is found by whoever asks afterwards. *)
(* But for parents whose index two threads rewrite at once, the index of   *)
(* dependents is complete, and so is what an audit invalidates.            *)
(***************************************************************************)
EXTENDS Checkpoints, TLAPS

-----------------------------------------------------------------------------
(* The invariant *)

Puts == {"payload", "write payload", "sync payload", "payload stored", "manifest",
         "write manifest", "sync manifest", "index", "write index", "sync index", "stored"}
NodePuts == {"node", "write node", "sync node", "linked"}

DataType ==
  /\ files \in FilesType /\ disk \in FilesType
  /\ created \subseteq Checkpoint /\ uploaded \subseteq Checkpoint
  /\ faults \in 0..MaxFaults

SinceType == [created : SUBSET Checkpoint, acked : SUBSET Checkpoint]

FunctionType ==
  /\ pc \in [Thread -> Labels] /\ call \in [Thread -> CallType \cup {NoCall}]
  /\ bytes \in [Thread -> Content] /\ got \in [Thread -> 0..Frames]
  /\ at \in [Thread -> Nat] /\ listed \in [Thread -> SUBSET Checkpoint]
  /\ level \in [Thread -> SUBSET Node] /\ coming \in [Thread -> SUBSET Node]
  /\ walk \in [Thread -> Seq(Node)]
  /\ since \in [Thread -> SinceType] /\ answer \in [Thread -> AnswerType]

\* What a thread does is what it was called for, and idle it has nothing.
Plan(t) ==
  /\ pc[t] # "idle" => call[t] \in CallType
  /\ pc[t] = "idle" => at[t] = 0 /\ coming[t] = {} /\ answer[t] = NoAnswer
  /\ pc[t] = "frames" => call[t].op = "upload"
  /\ pc[t] \in Puts => call[t].op \in {"create", "upload"}
  /\ pc[t] \in NodePuts => call[t].op \in {"create", "audit"}
  /\ pc[t] \in {"get manifest", "get payload"} => call[t].op \in {"load", "audit"}
  /\ pc[t] = "closure" => call[t].op = "audit"
  /\ pc[t] = "query" => call[t].op = "query"

Places(t) ==
  /\ pc[t] # "idle" => at[t] <= Len(Parents[Of(t)])
  /\ pc[t] \in {"write index", "sync index"} => at[t] < Len(Parents[Of(t)])

\* What has been stored before a thread came to where it is.
Stored(t) ==
  /\ pc[t] \in {"payload", "write payload", "sync payload"} => bytes[t] = Body[Of(t)]
  /\ pc[t] \in {"sync payload", "payload stored", "manifest", "write manifest"} =>
       Body[Of(t)] \in files.payloads
  /\ pc[t] \in {"sync manifest", "index", "write index", "sync index", "stored"} =>
       Of(t) \in files.manifests
  /\ pc[t] \in NodePuts /\ call[t].op = "create" => Of(t) \in files.manifests
  /\ pc[t] \in {"sync node", "linked"} /\ call[t].op = "create" => Of(t) \in files.nodes

\* What was there when a call began still is.
Knows(t) == since[t].acked \subseteq Acked /\ since[t].created \subseteq created

\* What a call does not find is not among what was acknowledged before.
Missed(t) ==
  \/ call[t].op # "query" /\ Of(t) \notin since[t].acked
  \/ call[t].op = "query" /\ ~\E K \in SUBSET since[t].created : Closed(K) /\ Of(t) \in K

\* A query does not leave a closed set that it began in.
Inside(t) ==
  \A K \in SUBSET since[t].created :
    Closed(K) /\ Of(t) \in K => level[t] \cup coming[t] \subseteq K

Asks(t) ==
  /\ call[t].op # "query" => level[t] \cup coming[t] \subseteq Checkpoint
  /\ pc[t] = "query" => Inside(t)
  /\ answer[t].kind \in {"not found", "dangling"} => Missed(t)

Fits(t) == Plan(t) /\ Places(t) /\ Stored(t) /\ Knows(t) /\ Asks(t)

\* What is acknowledged is stored, and what is stored is complete.
Resolves == ManifestsResolve /\ Acked \subseteq files.manifests /\ created \subseteq files.nodes

IInv == DataType /\ FunctionType /\ Resolves /\ \A t \in Thread : Fits(t)

LEMMA IInvIsTypeOK == IInv /\ raced \subseteq Checkpoint => TypeOK
<1>1. SUFFICES ASSUME IInv, raced \subseteq Checkpoint PROVE TypeOK
  OBVIOUS
<1>2. DataType /\ FunctionType
  BY <1>1 DEF IInv
<1>3. ASSUME NEW t \in Thread
      PROVE  /\ pc[t] # "idle" => call[t] \in CallType /\ at[t] <= Len(Parents[Of(t)])
             /\ pc[t] \in {"write index", "sync index"} => at[t] < Len(Parents[Of(t)])
  BY <1>1 DEF IInv, Fits, Plan, Places
<1>4. QED
  BY <1>1, <1>2, <1>3 DEF TypeOK, DataType, FunctionType, SinceType

LEMMA IInvIsAckedFound == IInv => AckedFound
BY DEF IInv, Fits, Asks, Missed, AckedFound

-----------------------------------------------------------------------------
(* Steps that leave the other threads alone *)

Untouched(u) ==
  /\ pc'[u] = pc[u] /\ call'[u] = call[u] /\ bytes'[u] = bytes[u] /\ at'[u] = at[u]
  /\ listed'[u] = listed[u] /\ level'[u] = level[u] /\ coming'[u] = coming[u]
  /\ since'[u] = since[u] /\ answer'[u] = answer[u]

\* Payloads, manifests, nodes and what was acknowledged only grow.
Grows ==
  /\ files.payloads \subseteq files'.payloads /\ files.manifests \subseteq files'.manifests
  /\ files.nodes \subseteq files'.nodes
  /\ created \subseteq created' /\ uploaded \subseteq uploaded'

LEMMA UntouchedFits ==
  ASSUME NEW u \in Thread, Fits(u), Untouched(u), Grows
  PROVE  Fits(u)'
<1>1. Of(u)' = Of(u)
  BY DEF Untouched, Of
<1>2. Plan(u)' /\ Places(u)'
  BY <1>1 DEF Fits, Plan, Places, Untouched
<1>3. Stored(u)'
  BY <1>1 DEF Fits, Stored, Untouched, Grows
<1>4. Knows(u)'
  BY DEF Fits, Knows, Untouched, Grows, Acked
<1>5. Asks(u)'
  BY <1>1 DEF Fits, Asks, Inside, Missed, Untouched
<1>6. QED
  BY <1>2, <1>3, <1>4, <1>5 DEF Fits

\* The invariant of the next state, from the parts of the thread that took the step.
LEMMA Assemble ==
  ASSUME IInv, NEW t \in Thread, DataType', FunctionType', Resolves', Grows, Fits(t)',
         \A u \in Thread \ {t} : Untouched(u)
  PROVE  IInv'
<1>1. ASSUME NEW u \in Thread PROVE Fits(u)'
  <2>1. CASE u = t
    BY <2>1
  <2>2. CASE u # t
    <3>1. Fits(u) /\ Untouched(u)
      BY <2>2 DEF IInv
    <3>2. QED
      BY <3>1, UntouchedFits
  <2>3. QED
    BY <2>1, <2>2
<1>2. QED
  BY <1>1 DEF IInv

LEMMA Idle ==
  /\ "idle" \in Labels /\ NoCall \in CallType \cup {NoCall} /\ Damaged \in Content
  /\ 0 \in 0..Frames /\ 0 \in Nat /\ {} \in SUBSET Checkpoint /\ {} \in SUBSET Node
  /\ <<>> \in Seq(Node) /\ Nothing \in SinceType /\ NoAnswer \in AnswerType
BY FramesAssumption, DamagedAssumption DEF Labels, Nothing, SinceType, AnswerType

LEMMA EndFits ==
  ASSUME FunctionType, NEW t \in Thread, End(t)
  PROVE  FunctionType' /\ Fits(t)' /\ \A u \in Thread \ {t} : Untouched(u)
<1>1. FunctionType'
  BY Idle DEF FunctionType, End, Goto
<1>2. \A u \in Thread \ {t} : Untouched(u)
  BY DEF FunctionType, End, Goto, Untouched
<1>3. /\ pc'[t] = "idle" /\ at'[t] = 0 /\ coming'[t] = {} /\ answer'[t] = NoAnswer
      /\ since'[t] = Nothing /\ level'[t] = {}
  BY DEF FunctionType, End, Goto
<1>4. Plan(t)' /\ Places(t)' /\ Stored(t)'
  BY <1>3 DEF Plan, Places, Stored, Puts, NodePuts
<1>5. Knows(t)' /\ Asks(t)'
  BY <1>3 DEF Knows, Nothing, Asks, NoAnswer
<1>6. QED
  BY <1>1, <1>2, <1>4, <1>5 DEF Fits

\* A call that ends, having stored nothing that was not fit to be.
LEMMA EndKeeps ==
  ASSUME IInv, NEW t \in Thread, End(t), DataType', Resolves', Grows
  PROVE  IInv'
BY EndFits, Assemble DEF IInv

\* A thread that only goes on.
Goes(t, l) == Goto(t, l) /\ UNCHANGED <<call, bytes, at, listed, got, walking, since, answer>>

LEMMA GoFits ==
  ASSUME FunctionType, NEW t \in Thread, NEW l \in Labels, Goes(t, l)
  PROVE  /\ FunctionType' /\ pc'[t] = l /\ \A u \in Thread \ {t} : Untouched(u)
         /\ Of(t)' = Of(t)
BY DEF FunctionType, Goes, Goto, walking, Untouched, Of

LEMMA GoKeeps ==
  ASSUME IInv, NEW t \in Thread, NEW l \in Labels, Goes(t, l), DataType', Resolves', Grows,
         Plan(t)', Places(t)', Stored(t)', l # "query"
  PROVE  IInv'
<1>1. FunctionType' /\ pc'[t] = l /\ (\A u \in Thread \ {t} : Untouched(u)) /\ Of(t)' = Of(t)
  BY GoFits DEF IInv
<1>2. Fits(t)
  BY DEF IInv
<1>3. Knows(t)'
  BY <1>2 DEF Fits, Knows, Goes, Grows, Acked
<1>4. Asks(t)'
  BY <1>1, <1>2 DEF Fits, Asks, Missed, Goes, walking
<1>5. QED
  BY <1>1, <1>3, <1>4, Assemble DEF Fits

\* A step that stores nothing.
LEMMA QuietGrows ==
  ASSUME IInv, UNCHANGED <<files, created, uploaded>>, disk' \in FilesType,
         faults' \in 0..MaxFaults
  PROVE  DataType' /\ Resolves' /\ Grows
BY DEF IInv, DataType, Resolves, ManifestsResolve, Grows, Acked

-----------------------------------------------------------------------------
(* The steps of the store *)

NodeOf(t) == IF call[t].op = "audit" THEN Certificate(Of(t)) ELSE Of(t)

LEMMA Callers ==
  ASSUME IInv, NEW t \in Thread, pc[t] # "idle"
  PROVE  call[t] \in CallType /\ Of(t) \in Checkpoint /\ NodeOf(t) \in Node
<1>1. call[t] \in CallType
  BY DEF IInv, Fits, Plan
<1>2. Of(t) \in Checkpoint
  BY <1>1 DEF CallType, Of
<1>3. QED
  BY <1>1, <1>2 DEF NodeOf, Node

LEMMA NextParentType ==
  ASSUME IInv, NEW t \in Thread, pc[t] # "idle", at[t] < Len(Parents[Of(t)])
  PROVE  at[t] + 1 \in 1..Len(Parents[Of(t)]) /\ NextParent(t) \in Checkpoint
<1>1. Of(t) \in Checkpoint /\ at[t] \in Nat
  BY Callers DEF IInv, FunctionType
<1>2. Parents[Of(t)] \in Seq(Checkpoint)
  BY <1>1, CheckpointsAssumption
<1>3. QED
  BY <1>1, <1>2 DEF NextParent

\* What a rename makes of the files, or what an error or a death leaves of one.
LEMMA WrittenGrows ==
  ASSUME IInv, NEW t \in Thread, pc[t] \in Writes, files' = Written(t, NodeOf(t)),
         UNCHANGED <<created, uploaded>>
  PROVE  files' \in FilesType /\ Resolves' /\ Grows
<1>1. /\ files \in FilesType /\ Resolves /\ Stored(t) /\ bytes[t] \in Content
      /\ listed[t] \in SUBSET Checkpoint /\ Places(t)
  BY DEF IInv, DataType, FunctionType, Fits
<1>2. Of(t) \in Checkpoint /\ NodeOf(t) \in Node
  BY Callers DEF Writes
<1>3. CASE pc[t] = "write payload"
  <2>1. files' = [files EXCEPT !.payloads = @ \cup {bytes[t]}]
    BY <1>3 DEF Written
  <2>2. QED
    BY <1>1, <2>1 DEF FilesType, Resolves, ManifestsResolve, Grows, Acked
<1>4. CASE pc[t] = "write manifest"
  <2>1. files' = [files EXCEPT !.manifests = @ \cup {Of(t)}]
    BY <1>4 DEF Written
  <2>2. Body[Of(t)] \in files.payloads
    BY <1>1, <1>4 DEF Stored
  <2>3. QED
    BY <1>1, <1>2, <2>1, <2>2 DEF FilesType, Resolves, ManifestsResolve, Grows, Acked
<1>5. CASE pc[t] = "write index"
  <2>1. files' = [files EXCEPT !.deps[NextParent(t)] = listed[t] \cup {Of(t)}]
    BY <1>5 DEF Written
  <2>2. listed[t] \cup {Of(t)} \in SUBSET Checkpoint
    BY <1>1, <1>2
  <2>3. QED
    BY <1>1, <2>1, <2>2 DEF FilesType, Resolves, ManifestsResolve, Grows, Acked
<1>6. CASE pc[t] = "write node"
  <2>1. files' = [files EXCEPT !.nodes = @ \cup {NodeOf(t)}]
    BY <1>6 DEF Written
  <2>2. QED
    BY <1>1, <1>2, <2>1 DEF FilesType, Resolves, ManifestsResolve, Grows, Acked
<1>7. QED
  BY <1>3, <1>4, <1>5, <1>6 DEF Writes

LEMMA PutPayloadKeeps ==
  ASSUME IInv, NEW t \in Thread, PutPayload(t), UNCHANGED <<got, walking, history, since, answer, faults>>
  PROVE  IInv'
<1> DEFINE l == IF bytes[t] \in files.payloads THEN "payload stored" ELSE "write payload"
<1>1. Goes(t, l) /\ l \in Labels /\ UNCHANGED stores /\ pc[t] = "payload"
  BY DEF PutPayload, Goes, Labels, Writes
<1>2. DataType' /\ Resolves' /\ Grows
  BY <1>1, QuietGrows DEF stores, history, IInv, DataType
<1>3. pc'[t] = l /\ Of(t)' = Of(t) /\ call' = call /\ bytes' = bytes /\ at' = at
  BY <1>1, GoFits DEF IInv, Goes
<1>4. Fits(t)
  BY DEF IInv
<1>5. Plan(t)' /\ Places(t)'
  BY <1>1, <1>3, <1>4 DEF Fits, Plan, Places, Puts, NodePuts
<1>6. Stored(t)'
  BY <1>1, <1>3, <1>4 DEF Fits, Stored, NodePuts, stores
<1>7. QED
  BY <1>1, <1>2, <1>5, <1>6, GoKeeps

LEMMA PutManifestKeeps ==
  ASSUME IInv, NEW t \in Thread, PutManifest(t), UNCHANGED <<got, walking, history, since, answer, faults>>
  PROVE  IInv'
<1> DEFINE l == IF Of(t) \in files.manifests THEN "index" ELSE "write manifest"
<1>1. Goes(t, l) /\ l \in Labels /\ UNCHANGED stores /\ pc[t] = "manifest"
  BY DEF PutManifest, Goes, Labels, Writes
<1>2. DataType' /\ Resolves' /\ Grows
  BY <1>1, QuietGrows DEF stores, history, IInv, DataType
<1>3. pc'[t] = l /\ Of(t)' = Of(t) /\ call' = call /\ bytes' = bytes /\ at' = at
  BY <1>1, GoFits DEF IInv, Goes
<1>4. Fits(t)
  BY DEF IInv
<1>5. Plan(t)' /\ Places(t)'
  BY <1>1, <1>3, <1>4 DEF Fits, Plan, Places, Puts, NodePuts
<1>6. Stored(t)'
  BY <1>1, <1>3, <1>4 DEF Fits, Stored, NodePuts, stores
<1>7. QED
  BY <1>1, <1>2, <1>5, <1>6, GoKeeps

\* A thread goes on with the index.
LEMMA IndexStepKeeps ==
  ASSUME IInv, NEW t \in Thread, NEW l \in {"index", "write index", "stored"},
         pc[t] \in {"index", "sync index"}, Goto(t, l),
         NEW n \in Nat, at' = [at EXCEPT ![t] = n], n <= Len(Parents[Of(t)]),
         l = "write index" => n < Len(Parents[Of(t)]),
         NEW L \in SUBSET Checkpoint, listed' = [listed EXCEPT ![t] = L],
         UNCHANGED <<files, call, bytes, got, walking, history, since, answer, faults>>,
         disk' \in FilesType
  PROVE  IInv'
<1>1. FunctionType' /\ pc'[t] = l /\ at'[t] = n /\ \A u \in Thread \ {t} : Untouched(u)
  <2>1. l \in Labels
    BY DEF Labels, Writes
  <2>2. QED
    BY <2>1 DEF IInv, FunctionType, Goto, walking, Untouched
<1>2. DataType' /\ Resolves' /\ Grows
  BY QuietGrows DEF history, IInv, DataType
<1>3. Of(t)' = Of(t) /\ Fits(t)
  BY DEF Of, IInv
<1>4. Plan(t)' /\ Places(t)'
  BY <1>1, <1>3 DEF Fits, Plan, Places, Puts, NodePuts
<1>5. Stored(t)'
  BY <1>1, <1>3 DEF Fits, Stored, NodePuts
<1>6. Knows(t)' /\ Asks(t)'
  BY <1>1, <1>3 DEF Fits, Knows, Asks, Missed, history, walking, Acked
<1>7. QED
  BY <1>1, <1>2, <1>4, <1>5, <1>6, Assemble DEF Fits

LEMMA IndexKeeps ==
  ASSUME IInv, NEW t \in Thread, MaybePersistDependentManifestIndex(t),
         UNCHANGED <<got, walking, history, since, answer, faults>>
  PROVE  IInv'
<1>1. /\ pc[t] = "index" /\ UNCHANGED <<files, disk, call, bytes>> /\ disk' \in FilesType
      /\ at[t] \in Nat /\ at[t] <= Len(Parents[Of(t)]) /\ listed[t] \in SUBSET Checkpoint
      /\ at = [at EXCEPT ![t] = at[t]] /\ listed = [listed EXCEPT ![t] = listed[t]]
      /\ pc = [pc EXCEPT ![t] = pc[t]]
  BY DEF MaybePersistDependentManifestIndex, stores, IInv, DataType, FunctionType, Fits, Places
<1>2. CASE at[t] = Len(Parents[Of(t)]) /\ Goto(t, "stored") /\ UNCHANGED <<at, listed>>
  BY <1>1, <1>2, IndexStepKeeps
<1>3. CASE at[t] < Len(Parents[Of(t)]) /\ at' = [at EXCEPT ![t] = @ + 1] /\ UNCHANGED <<pc, listed>>
  <2>1. Of(t) \in Checkpoint
    BY <1>1, Callers
  <2>2. PICK k \in Nat : k = Len(Parents[Of(t)])
    BY <2>1, CheckpointsAssumption
  <2>3. PICK n \in Nat : n = at[t] + 1
    BY <1>1
  <2>4. n <= Len(Parents[Of(t)]) /\ at' = [at EXCEPT ![t] = n] /\ Goto(t, "index")
    BY <1>1, <1>3, <2>2, <2>3 DEF Goto
  <2>5. QED
    BY <1>1, <1>3, <2>4, IndexStepKeeps
<1>4. CASE /\ at[t] < Len(Parents[Of(t)]) /\ Goto(t, "write index") /\ UNCHANGED at
           /\ listed' = [listed EXCEPT ![t] = files.deps[NextParent(t)]]
  <2>1. files.deps[NextParent(t)] \in SUBSET Checkpoint
    BY <1>1, <1>4, NextParentType DEF IInv, DataType, FilesType
  <2>2. QED
    BY <1>1, <1>4, <2>1, IndexStepKeeps
<1>5. QED
  BY <1>2, <1>3, <1>4 DEF MaybePersistDependentManifestIndex

LEMMA PutNodeKeeps ==
  ASSUME IInv, NEW t \in Thread, PutNode(t, NodeOf(t)),
         UNCHANGED <<got, walking, history, since, answer, faults>>
  PROVE  IInv'
<1> DEFINE l == IF NodeOf(t) \in files.nodes THEN "linked" ELSE "write node"
<1>1. Goes(t, l) /\ l \in Labels /\ UNCHANGED stores /\ pc[t] = "node"
  BY DEF PutNode, Goes, Labels, Writes
<1>2. DataType' /\ Resolves' /\ Grows
  BY <1>1, QuietGrows DEF stores, history, IInv, DataType
<1>3. pc'[t] = l /\ Of(t)' = Of(t) /\ call' = call /\ bytes' = bytes /\ at' = at
  BY <1>1, GoFits DEF IInv, Goes
<1>4. Fits(t)
  BY DEF IInv
<1>5. Plan(t)' /\ Places(t)'
  BY <1>1, <1>3, <1>4 DEF Fits, Plan, Places, Puts, NodePuts
<1>6. Stored(t)'
  BY <1>1, <1>3, <1>4 DEF Fits, Stored, NodePuts, stores, NodeOf
<1>7. QED
  BY <1>1, <1>2, <1>5, <1>6, GoKeeps

LEMMA RenameKeeps ==
  ASSUME IInv, NEW t \in Thread, Rename(t, NodeOf(t)),
         UNCHANGED <<got, walking, history, since, answer, faults>>
  PROVE  IInv'
<1>1. pc[t] \in Writes /\ files' = Written(t, NodeOf(t)) /\ disk' = disk
  BY DEF Rename
<1>2. files' \in FilesType /\ Resolves' /\ Grows
  BY <1>1, WrittenGrows DEF history
<1>3. DataType'
  BY <1>1, <1>2 DEF IInv, DataType, history
<1>4. files \in FilesType /\ Fits(t) /\ pc \in [Thread -> Labels]
  BY DEF IInv, DataType, FunctionType
<1>5. CASE pc[t] = "write payload"
  <2>1. Goes(t, "sync payload") /\ "sync payload" \in Labels
    BY <1>5 DEF Rename, Goes, Labels, Syncs
  <2>2. bytes[t] \in files'.payloads
    BY <1>1, <1>4, <1>5 DEF Written, FilesType
  <2>3. pc'[t] = "sync payload" /\ Of(t)' = Of(t) /\ call' = call /\ bytes' = bytes /\ at' = at
    BY <2>1, GoFits DEF IInv, Goes
  <2>4. Plan(t)' /\ Places(t)'
    BY <1>4, <1>5, <2>3 DEF Fits, Plan, Places, Puts, NodePuts
  <2>5. Stored(t)'
    BY <1>4, <1>5, <2>2, <2>3 DEF Fits, Stored, NodePuts
  <2>6. QED
    BY <1>2, <1>3, <2>1, <2>4, <2>5, GoKeeps
<1>6. CASE pc[t] = "write manifest"
  <2>1. Goes(t, "sync manifest") /\ "sync manifest" \in Labels
    BY <1>6 DEF Rename, Goes, Labels, Syncs
  <2>2. Of(t) \in files'.manifests
    BY <1>1, <1>4, <1>6 DEF Written, FilesType
  <2>3. pc'[t] = "sync manifest" /\ Of(t)' = Of(t) /\ call' = call /\ bytes' = bytes /\ at' = at
    BY <2>1, GoFits DEF IInv, Goes
  <2>4. Plan(t)' /\ Places(t)'
    BY <1>4, <1>6, <2>3 DEF Fits, Plan, Places, Puts, NodePuts
  <2>5. Stored(t)'
    BY <1>4, <1>6, <2>2, <2>3 DEF Fits, Stored, NodePuts
  <2>6. QED
    BY <1>2, <1>3, <2>1, <2>4, <2>5, GoKeeps
<1>7. CASE pc[t] = "write index"
  <2>1. Goes(t, "sync index") /\ "sync index" \in Labels
    BY <1>7 DEF Rename, Goes, Labels, Syncs
  <2>2. pc'[t] = "sync index" /\ Of(t)' = Of(t) /\ call' = call /\ bytes' = bytes /\ at' = at
    BY <2>1, GoFits DEF IInv, Goes
  <2>3. Plan(t)' /\ Places(t)'
    BY <1>4, <1>7, <2>2 DEF Fits, Plan, Places, Puts, NodePuts
  <2>4. Stored(t)'
    BY <1>2, <1>4, <1>7, <2>2 DEF Fits, Stored, NodePuts, Grows
  <2>5. QED
    BY <1>2, <1>3, <2>1, <2>3, <2>4, GoKeeps
<1>8. CASE pc[t] = "write node"
  <2>1. Goes(t, "sync node") /\ "sync node" \in Labels
    BY <1>8 DEF Rename, Goes, Labels, Syncs
  <2>2. NodeOf(t) \in files'.nodes
    BY <1>1, <1>4, <1>8 DEF Written, FilesType
  <2>3. pc'[t] = "sync node" /\ Of(t)' = Of(t) /\ call' = call /\ bytes' = bytes /\ at' = at
    BY <2>1, GoFits DEF IInv, Goes
  <2>4. Plan(t)' /\ Places(t)'
    BY <1>4, <1>8, <2>3 DEF Fits, Plan, Places, Puts, NodePuts
  <2>5. Stored(t)'
    BY <1>2, <1>4, <1>8, <2>2, <2>3 DEF Fits, Stored, NodePuts, NodeOf, Grows
  <2>6. QED
    BY <1>2, <1>3, <2>1, <2>4, <2>5, GoKeeps
<1>9. QED
  BY <1>1, <1>5, <1>6, <1>7, <1>8 DEF Writes

\* A directory is synced and the call goes on.
LEMMA SyncStepKeeps ==
  ASSUME IInv, NEW t \in Thread, NEW l \in {"payload stored", "index", "linked"},
         l = "payload stored" => pc[t] = "sync payload",
         l = "index" => pc[t] = "sync manifest",
         l = "linked" => pc[t] = "sync node",
         Goes(t, l), disk' \in FilesType, UNCHANGED <<files, history, faults>>
  PROVE  IInv'
<1>1. l \in Labels /\ Fits(t)
  BY DEF Labels, IInv
<1>2. DataType' /\ Resolves' /\ Grows
  BY QuietGrows DEF history, IInv, DataType
<1>3. pc'[t] = l /\ Of(t)' = Of(t) /\ call' = call /\ bytes' = bytes /\ at' = at
  BY <1>1, GoFits DEF IInv, Goes
<1>4. Plan(t)' /\ Places(t)'
  BY <1>1, <1>3 DEF Fits, Plan, Places, Puts, NodePuts
<1>5. Stored(t)'
  BY <1>1, <1>3 DEF Fits, Stored, NodePuts
<1>6. QED
  BY <1>1, <1>2, <1>4, <1>5, GoKeeps

LEMMA SyncKeeps ==
  ASSUME IInv, NEW t \in Thread, SyncDirectory(t),
         UNCHANGED <<got, walking, history, since, answer, faults>>
  PROVE  IInv'
<1>1. /\ files \in FilesType /\ disk \in FilesType /\ Places(t)
      /\ at[t] \in Nat
  BY DEF IInv, DataType, Fits, FunctionType
<1>2. disk' \in FilesType /\ UNCHANGED files
  BY <1>1 DEF SyncDirectory, FilesType
<1>3. CASE pc[t] = "sync payload"
  <2>1. /\ Goes(t, "payload stored") /\ UNCHANGED <<files, history, faults>>
        /\ "payload stored" \in {"payload stored", "index", "linked"}
    BY <1>3 DEF SyncDirectory, Goes
  <2>2. QED
    BY <1>2, <1>3, <2>1, SyncStepKeeps
<1>4. CASE pc[t] = "sync manifest"
  <2>1. /\ Goes(t, "index") /\ UNCHANGED <<files, history, faults>>
        /\ "index" \in {"payload stored", "index", "linked"}
    BY <1>4 DEF SyncDirectory, Goes
  <2>2. QED
    BY <1>2, <1>4, <2>1, SyncStepKeeps
<1>5. CASE pc[t] = "sync index"
  <2>1. Of(t) \in Checkpoint
    BY <1>5, Callers
  <2>2. PICK k \in Nat : k = Len(Parents[Of(t)])
    BY <2>1, CheckpointsAssumption
  <2>3. PICK n \in Nat : n = at[t] + 1
    BY <1>1
  <2>4. n <= Len(Parents[Of(t)])
    <3>1. at[t] < k
      BY <1>1, <1>5, <2>2 DEF Places
    <3>2. n <= k
      BY <1>1, <2>3, <3>1
    <3>3. QED
      BY <2>2, <3>2
  <2>5. /\ Goto(t, "index") /\ at' = [at EXCEPT ![t] = n] /\ listed' = [listed EXCEPT ![t] = {}]
        /\ UNCHANGED <<call, bytes>> /\ {} \in SUBSET Checkpoint
    BY <1>5, <2>3 DEF SyncDirectory
  <2>6. QED
    BY <1>2, <1>5, <2>4, <2>5, IndexStepKeeps
<1>6. CASE pc[t] = "sync node"
  <2>1. /\ Goes(t, "linked") /\ UNCHANGED <<files, history, faults>>
        /\ "linked" \in {"payload stored", "index", "linked"}
    BY <1>6 DEF SyncDirectory, Goes
  <2>2. QED
    BY <1>2, <1>6, <2>1, SyncStepKeeps
<1>7. QED
  BY <1>3, <1>4, <1>5, <1>6 DEF SyncDirectory

LEMMA PutKeeps ==
  ASSUME IInv, NEW t \in Thread, Put(t)
  PROVE  IInv'
BY PutPayloadKeeps, PutManifestKeeps, IndexKeeps, PutNodeKeeps, RenameKeeps, SyncKeeps
   DEF Put, NodeOf

-----------------------------------------------------------------------------
(* The steps of the calls *)

LEMMA CallKeeps ==
  ASSUME IInv, NEW t \in Thread, Call(t)
  PROVE  IInv'
<1>1. PICK c \in CallsOf[t] :
        /\ call' = [call EXCEPT ![t] = c]
        /\ bytes' = [bytes EXCEPT ![t] = Body[c.about]]
        /\ level' = [level EXCEPT ![t] = IF c.op \in {"audit", "query"} THEN {c.about} ELSE {}]
        /\ Goto(t, Begin[c.op])
  BY DEF Call
<1>2. /\ c \in CallType /\ c.op \in Ops /\ c.about \in Checkpoint /\ Body[c.about] \in Content
      /\ c.about \in Node
  BY CallsAssumption, CheckpointsAssumption DEF CallType, Node
<1>3. /\ pc[t] = "idle" /\ since' = [since EXCEPT ![t] = [created |-> created, acked |-> Acked]]
      /\ UNCHANGED <<stores, at, listed, got, coming, walk, history, answer, faults>>
  BY DEF Call
<1>4. /\ c.op = "create" => Begin[c.op] = "payload"
      /\ c.op = "upload" => Begin[c.op] = "frames"
      /\ c.op = "query" => Begin[c.op] = "query"
      /\ c.op \in {"load", "audit"} => Begin[c.op] = "get manifest"
  BY <1>2 DEF Begin, Ops
<1>5. Begin[c.op] \in {"payload", "frames", "query", "get manifest"}
  BY <1>2, <1>4 DEF Ops
<1>6. FunctionType' /\ \A u \in Thread \ {t} : Untouched(u)
  <2>1. Begin[c.op] \in Labels
    BY <1>5 DEF Labels
  <2>2. [created |-> created, acked |-> Acked] \in SinceType
    BY DEF IInv, DataType, SinceType, Acked
  <2>3. (IF c.op \in {"audit", "query"} THEN {c.about} ELSE {}) \in SUBSET Node
    BY <1>2
  <2>4. FunctionType'
    BY <1>1, <1>2, <1>3, <2>1, <2>2, <2>3 DEF IInv, FunctionType, Goto
  <2>5. QED
    BY <1>1, <1>3, <2>4 DEF IInv, FunctionType, Goto, Untouched
<1>7. DataType' /\ Resolves' /\ Grows
  BY <1>3, QuietGrows DEF stores, history, IInv, DataType
<1>8. /\ pc'[t] = Begin[c.op] /\ call'[t] = c /\ bytes'[t] = Body[c.about]
      /\ level'[t] = IF c.op \in {"audit", "query"} THEN {c.about} ELSE {}
      /\ at'[t] = 0 /\ coming'[t] = {} /\ answer'[t] = NoAnswer
      /\ since'[t] = [created |-> created, acked |-> Acked] /\ Of(t)' = c.about
  <2>1. Plan(t)
    BY DEF IInv, Fits
  <2>2. QED
    BY <1>1, <1>3, <2>1 DEF IInv, FunctionType, Goto, Plan, Of
<1>9. Plan(t)' /\ Places(t)'
  <2>1. Len(Parents[c.about]) >= 0
    BY <1>2, CheckpointsAssumption
  <2>2. QED
    BY <1>2, <1>4, <1>5, <1>8, <2>1 DEF Plan, Places, Puts, NodePuts, Ops
<1>10. Stored(t)'
  BY <1>5, <1>8 DEF Stored, NodePuts
<1>11. Knows(t)'
  BY <1>3, <1>8 DEF Knows, history, Acked
<1>12. Asks(t)'
  <2>1. ASSUME pc'[t] = "query" PROVE Inside(t)'
    <3>1. level'[t] \cup coming'[t] \subseteq {c.about}
      BY <1>8
    <3>2. QED
      BY <1>8, <3>1 DEF Inside
  <2>2. level'[t] \cup coming'[t] \subseteq Checkpoint
    BY <1>2, <1>8
  <2>3. QED
    BY <1>8, <2>1, <2>2 DEF Asks, NoAnswer
<1>13. QED
  BY <1>6, <1>7, <1>9, <1>10, <1>11, <1>12, Assemble DEF Fits

LEMMA ReturnKeeps ==
  ASSUME IInv, NEW t \in Thread, Return(t) \/ Drop(t)
  PROVE  IInv'
BY QuietGrows, EndKeeps DEF Return, Drop, stores, history, IInv, DataType

LEMMA FaultCounted ==
  ASSUME IInv, NEW kind, Fault(kind)
  PROVE  faults' \in 0..MaxFaults
BY FaultsAssumption DEF Fault, IInv, DataType

LEMMA AddFrameKeeps ==
  ASSUME IInv, NEW t \in Thread, AddFrame(t)
  PROVE  IInv'
<1>1. /\ pc[t] = "frames"
      /\ UNCHANGED <<stores, pc, call, at, listed, walking, history, since, answer>>
  BY DEF AddFrame
<1>2. got' \in [Thread -> 0..Frames]
  <2>1. PICK offset \in 0..Frames - 1, size \in 1..Frames :
          offset + size <= Frames /\ got' = [got EXCEPT ![t] = offset + size]
    BY DEF AddFrame
  <2>2. offset + size \in 0..Frames
    BY <2>1, FramesAssumption
  <2>3. QED
    BY <2>1, <2>2 DEF IInv, FunctionType
<1>3. /\ faults' \in 0..MaxFaults
      /\ bytes' = bytes \/ bytes' = [bytes EXCEPT ![t] = Damaged]
  BY FaultCounted DEF AddFrame, IInv, DataType
<1>4. FunctionType' /\ \A u \in Thread \ {t} : Untouched(u)
  BY <1>1, <1>2, <1>3, Idle DEF IInv, FunctionType, walking, Untouched
<1>5. DataType' /\ Resolves' /\ Grows
  BY <1>1, <1>3, QuietGrows DEF stores, history, IInv, DataType
<1>6. Of(t)' = Of(t) /\ Fits(t)
  BY <1>1 DEF Of, IInv
<1>7. Plan(t)' /\ Places(t)' /\ Stored(t)'
  BY <1>1, <1>6 DEF Fits, Plan, Places, Stored, NodePuts
<1>8. Knows(t)' /\ Asks(t)'
  BY <1>1, <1>6 DEF Fits, Knows, Asks, Missed, Inside, history, walking, Acked
<1>9. QED
  BY <1>4, <1>5, <1>7, <1>8, Assemble DEF Fits

LEMMA FinalizeKeeps ==
  ASSUME IInv, NEW t \in Thread, Finalize(t)
  PROVE  IInv'
<1>1. /\ pc[t] = "frames" /\ bytes[t] = Body[Of(t)] /\ Goes(t, "payload") /\ "payload" \in Labels
      /\ UNCHANGED <<stores, history, faults>>
  BY DEF Finalize, Goes, Labels
<1>2. DataType' /\ Resolves' /\ Grows
  BY <1>1, QuietGrows DEF stores, history, IInv, DataType
<1>3. pc'[t] = "payload" /\ Of(t)' = Of(t) /\ call' = call /\ bytes' = bytes /\ at' = at
  BY <1>1, GoFits DEF IInv, Goes
<1>4. Fits(t)
  BY DEF IInv
<1>5. Plan(t)' /\ Places(t)' /\ Stored(t)'
  BY <1>1, <1>3, <1>4 DEF Fits, Plan, Places, Stored, Puts, NodePuts
<1>6. QED
  BY <1>1, <1>2, <1>5, GoKeeps

LEMMA PayloadStoredKeeps ==
  ASSUME IInv, NEW t \in Thread, PayloadStored(t)
  PROVE  IInv'
<1>1. /\ pc[t] = "payload stored" /\ Goes(t, "manifest") /\ "manifest" \in Labels
      /\ UNCHANGED <<stores, history, faults>>
  BY DEF PayloadStored, Goes, Labels
<1>2. DataType' /\ Resolves' /\ Grows
  BY <1>1, QuietGrows DEF stores, history, IInv, DataType
<1>3. pc'[t] = "manifest" /\ Of(t)' = Of(t) /\ call' = call /\ bytes' = bytes /\ at' = at
  BY <1>1, GoFits DEF IInv, Goes
<1>4. Fits(t)
  BY DEF IInv
<1>5. Plan(t)' /\ Places(t)' /\ Stored(t)'
  BY <1>1, <1>3, <1>4 DEF Fits, Plan, Places, Stored, Puts, NodePuts, stores
<1>6. QED
  BY <1>1, <1>2, <1>5, GoKeeps

LEMMA ManifestStoredKeeps ==
  ASSUME IInv, NEW t \in Thread, ManifestStored(t)
  PROVE  IInv'
<1>1. pc[t] = "stored" /\ UNCHANGED <<stores, faults>> /\ Fits(t)
  BY DEF ManifestStored, IInv
<1>2. Of(t) \in files.manifests
  BY <1>1 DEF Fits, Stored
<1>3. CASE call[t].op = "create"
  <2>1. Goes(t, "node") /\ "node" \in Labels /\ UNCHANGED history
    BY <1>3 DEF ManifestStored, Goes, Labels
  <2>2. DataType' /\ Resolves' /\ Grows
    BY <1>1, <2>1, QuietGrows DEF stores, history, IInv, DataType
  <2>3. pc'[t] = "node" /\ Of(t)' = Of(t) /\ call' = call /\ bytes' = bytes /\ at' = at
    BY <2>1, GoFits DEF IInv, Goes
  <2>4. Plan(t)' /\ Places(t)' /\ Stored(t)'
    BY <1>1, <1>2, <1>3, <2>3 DEF Fits, Plan, Places, Stored, Puts, NodePuts, stores
  <2>5. QED
    BY <2>1, <2>2, <2>4, GoKeeps
<1>4. CASE call[t].op # "create"
  <2>1. uploaded' = uploaded \cup {Of(t)} /\ End(t) /\ UNCHANGED created
    BY <1>4 DEF ManifestStored
  <2>2. Of(t) \in Checkpoint
    BY <1>1, Callers
  <2>3. DataType' /\ Resolves' /\ Grows
    BY <1>1, <1>2, <2>1, <2>2
       DEF stores, IInv, DataType, Resolves, ManifestsResolve, Grows, Acked
  <2>4. QED
    BY <2>1, <2>3, EndKeeps
<1>5. QED
  BY <1>3, <1>4

LEMMA NodeLinkedKeeps ==
  ASSUME IInv, NEW t \in Thread, NodeLinked(t)
  PROVE  IInv'
<1>1. /\ pc[t] = "linked" /\ UNCHANGED <<stores, uploaded, faults>> /\ End(t) /\ Fits(t)
      /\ created' = IF call[t].op = "create" THEN created \cup {Of(t)} ELSE created
  BY DEF NodeLinked, IInv
<1>2. call[t].op = "create" => Of(t) \in files.manifests /\ Of(t) \in files.nodes
  BY <1>1 DEF Fits, Stored, NodePuts
<1>3. Of(t) \in Checkpoint
  BY <1>1, Callers
<1>4. DataType' /\ Resolves' /\ Grows
  BY <1>1, <1>2, <1>3 DEF stores, IInv, DataType, Resolves, ManifestsResolve, Grows, Acked
<1>5. QED
  BY <1>1, <1>4, EndKeeps

-----------------------------------------------------------------------------
(* The steps that ask *)

LEMMA GetManifestKeeps ==
  ASSUME IInv, NEW t \in Thread, GetManifest(t)
  PROVE  IInv'
<1>1. /\ pc[t] = "get manifest" /\ Fits(t)
      /\ UNCHANGED <<stores, call, bytes, at, listed, got, walking, history, since, faults>>
  BY DEF GetManifest, IInv
<1>2. DataType' /\ Resolves' /\ Grows
  BY <1>1, QuietGrows DEF stores, history, IInv, DataType
<1>3. CASE Of(t) \in files.manifests
  <2>1. Goes(t, "get payload") /\ "get payload" \in Labels
    BY <1>1, <1>3 DEF GetManifest, Goes, Labels
  <2>2. pc'[t] = "get payload" /\ Of(t)' = Of(t) /\ call' = call /\ at' = at
    BY <2>1, GoFits DEF IInv, Goes
  <2>3. Plan(t)' /\ Places(t)' /\ Stored(t)'
    BY <1>1, <2>2 DEF Fits, Plan, Places, Stored, Puts, NodePuts
  <2>4. QED
    BY <1>2, <2>1, <2>3, GoKeeps
<1>4. CASE Of(t) \notin files.manifests
  <2>1. Answer(t, NotFound) /\ NotFound \in AnswerType
    BY <1>4 DEF GetManifest, AnswerType
  <2>2. FunctionType' /\ \A u \in Thread \ {t} : Untouched(u)
    BY <1>1, <2>1 DEF IInv, FunctionType, Answer, Goto, walking, Untouched, Labels
  <2>3. pc'[t] = "return" /\ answer'[t] = NotFound /\ Of(t)' = Of(t)
    BY <1>1, <2>1 DEF IInv, FunctionType, Answer, Goto, Of
  <2>4. Missed(t)
    BY <1>1, <1>4 DEF IInv, Resolves, Fits, Plan, Knows, Missed
  <2>5. Asks(t)'
    BY <1>1, <2>3, <2>4 DEF Fits, Asks, Missed, walking
  <2>6. Plan(t)' /\ Places(t)' /\ Stored(t)'
    BY <1>1, <2>3 DEF Fits, Plan, Places, Stored, Puts, NodePuts
  <2>7. Knows(t)'
    BY <1>1 DEF Fits, Knows, history, Acked
  <2>8. QED
    BY <1>2, <2>2, <2>5, <2>6, <2>7, Assemble DEF Fits
<1>5. QED
  BY <1>3, <1>4

LEMMA GetPayloadKeeps ==
  ASSUME IInv, NEW t \in Thread, GetPayload(t)
  PROVE  IInv'
<1>1. /\ pc[t] = "get payload" /\ Fits(t)
      /\ UNCHANGED <<stores, call, bytes, at, listed, got, walking, history, since, faults>>
  BY DEF GetPayload, IInv
<1>2. DataType' /\ Resolves' /\ Grows
  BY <1>1, QuietGrows DEF stores, history, IInv, DataType
<1>3. ASSUME NEW l \in {"node", "closure"}, Goto(t, l), UNCHANGED answer, call[t].op = "audit"
      PROVE  IInv'
  <2>1. Goes(t, l) /\ l \in Labels
    BY <1>1, <1>3 DEF Goes, Labels
  <2>2. pc'[t] = l /\ Of(t)' = Of(t) /\ call' = call /\ at' = at
    BY <2>1, GoFits DEF IInv, Goes
  <2>3. Plan(t)' /\ Places(t)' /\ Stored(t)'
    BY <1>1, <1>3, <2>2 DEF Fits, Plan, Places, Stored, Puts, NodePuts
  <2>4. QED
    BY <1>2, <2>1, <2>3, GoKeeps
<1>4. ASSUME NEW a \in AnswerType, Answer(t, a),
             a.kind \in {"not found", "dangling"} => Missed(t)
      PROVE  IInv'
  <2>1. FunctionType' /\ \A u \in Thread \ {t} : Untouched(u)
    BY <1>1, <1>4 DEF IInv, FunctionType, Answer, Goto, walking, Untouched, Labels
  <2>2. pc'[t] = "return" /\ answer'[t] = a /\ Of(t)' = Of(t)
    BY <1>1, <1>4 DEF IInv, FunctionType, Answer, Goto, Of
  <2>3. Asks(t)'
    BY <1>1, <1>4, <2>2 DEF Fits, Asks, Missed, walking
  <2>4. Plan(t)' /\ Places(t)' /\ Stored(t)'
    BY <1>1, <2>2 DEF Fits, Plan, Places, Stored, Puts, NodePuts
  <2>5. Knows(t)'
    BY <1>1 DEF Fits, Knows, history, Acked
  <2>6. QED
    BY <1>2, <2>1, <2>3, <2>4, <2>5, Assemble DEF Fits
<1>5. CASE Body[Of(t)] \notin files.payloads
  <2>1. Answer(t, [kind |-> "dangling"]) /\ [kind |-> "dangling"] \in AnswerType
    BY <1>5 DEF GetPayload, AnswerType
  <2>2. Of(t) \notin files.manifests
    BY <1>5 DEF IInv, Resolves, ManifestsResolve
  <2>3. Missed(t)
    BY <1>1, <2>2 DEF IInv, Resolves, Fits, Plan, Knows, Missed
  <2>4. QED
    BY <1>4, <2>1, <2>3
<1>6. CASE Body[Of(t)] \in files.payloads
  <2>1. CASE call[t].op = "load" /\ Answer(t, [kind |-> "loaded"])
    <3>1. [kind |-> "loaded"] \in AnswerType
      BY DEF AnswerType
    <3>2. QED
      BY <1>4, <2>1, <3>1
  <2>2. CASE call[t].op = "audit" /\ Goto(t, "node") /\ UNCHANGED answer
    BY <1>3, <2>2
  <2>3. CASE call[t].op = "audit" /\ Goto(t, "closure") /\ UNCHANGED answer
    BY <1>3, <2>3
  <2>4. QED
    BY <1>6, <2>1, <2>2, <2>3 DEF GetPayload
<1>7. QED
  BY <1>5, <1>6

\* A thread that walks on: where it is and what it was called for stay.
Walks(t) ==
  /\ UNCHANGED <<stores, pc, call, bytes, at, listed, got, history, since, answer, faults>>
  /\ level' \in [Thread -> SUBSET Node] /\ coming' \in [Thread -> SUBSET Node]
  /\ walk' \in [Thread -> Seq(Node)]
  /\ \A u \in Thread \ {t} : level'[u] = level[u] /\ coming'[u] = coming[u]

LEMMA WalkKeeps ==
  ASSUME IInv, NEW t \in Thread, Walks(t), pc[t] \in {"closure", "query"},
         pc[t] = "closure" => level'[t] \cup coming'[t] \subseteq Checkpoint,
         pc[t] = "query" => Inside(t)'
  PROVE  IInv'
<1>1. FunctionType' /\ \A u \in Thread \ {t} : Untouched(u)
  BY DEF Walks, IInv, FunctionType, Untouched
<1>2. DataType' /\ Resolves' /\ Grows
  BY QuietGrows DEF Walks, stores, history, IInv, DataType
<1>3. Fits(t) /\ Of(t)' = Of(t)
  BY DEF IInv, Walks, Of
<1>4. Plan(t)' /\ Places(t)' /\ Stored(t)'
  BY <1>3 DEF Fits, Plan, Places, Stored, NodePuts, Walks
<1>5. Knows(t)'
  BY <1>3 DEF Fits, Knows, Walks, history, Acked
<1>6. Asks(t)'
  BY <1>3 DEF Fits, Plan, Asks, Missed, Walks
<1>7. QED
  BY <1>1, <1>2, <1>4, <1>5, <1>6, Assemble DEF Fits

\* A walk that ends with an answer.
LEMMA AnswerKeeps ==
  ASSUME IInv, NEW t \in Thread, pc[t] \in {"closure", "query"},
         NEW l \in {"node", "return"}, pc[t] = "closure" <=> l = "node", Goto(t, l),
         NEW a \in AnswerType, answer' = [answer EXCEPT ![t] = a],
         a.kind \in {"not found", "dangling"} => Missed(t),
         UNCHANGED <<stores, call, bytes, at, listed, got, walking, history, since, faults>>
  PROVE  IInv'
<1>1. FunctionType' /\ \A u \in Thread \ {t} : Untouched(u)
  BY DEF IInv, FunctionType, Goto, walking, Untouched, Labels
<1>2. DataType' /\ Resolves' /\ Grows
  BY QuietGrows DEF stores, history, IInv, DataType
<1>3. pc'[t] = l /\ answer'[t] = a /\ Of(t)' = Of(t) /\ Fits(t)
  BY DEF IInv, FunctionType, Goto, Of
<1>4. Asks(t)'
  BY <1>3 DEF Fits, Asks, Missed, walking
<1>5. Plan(t)' /\ Places(t)' /\ Stored(t)'
  BY <1>3 DEF Fits, Plan, Places, Stored, Puts, NodePuts
<1>6. Knows(t)'
  BY <1>3 DEF Fits, Knows, history, Acked
<1>7. QED
  BY <1>1, <1>2, <1>4, <1>5, <1>6, Assemble DEF Fits

LEMMA ClosureKeeps ==
  ASSUME IInv, NEW t \in Thread, InvalidatedCheckpointClosure(t)
  PROVE  IInv'
<1>1. /\ pc[t] = "closure"
      /\ UNCHANGED <<stores, call, bytes, at, listed, got, walk, history, since, faults>>
      /\ FunctionType /\ files \in FilesType
      /\ level[t] \cup coming[t] \subseteq Checkpoint
  BY DEF InvalidatedCheckpointClosure, IInv, DataType, Fits, Plan, Asks
<1>2. ASSUME NEW k \in level[t], NEW found,
             found = files.deps[k] \ (coming[t] \cup {Of(t)}),
             level' = [level EXCEPT ![t] = (@ \ {k}) \cup found],
             coming' = [coming EXCEPT ![t] = @ \cup found],
             UNCHANGED <<pc, answer>>
      PROVE  IInv'
  <2>1. k \in Checkpoint
    BY <1>1, <1>2
  <2>2. found \subseteq Checkpoint
    BY <1>1, <1>2, <2>1 DEF FilesType
  <2>3. Walks(t)
    BY <1>1, <1>2, <2>2 DEF Walks, FunctionType, Node
  <2>4. level'[t] \cup coming'[t] \subseteq Checkpoint
    BY <1>1, <1>2, <2>2 DEF FunctionType
  <2>5. QED
    BY <1>1, <2>3, <2>4, WalkKeeps
<1>3. CASE /\ level[t] = {} /\ Goto(t, "node") /\ UNCHANGED <<level, coming>>
           /\ answer' = [answer EXCEPT ![t] = [kind |-> "invalidates", those |-> coming[t]]]
  <2>1. [kind |-> "invalidates", those |-> coming[t]] \in AnswerType
    BY <1>1 DEF AnswerType
  <2>2. QED
    BY <1>1, <1>3, <2>1, AnswerKeeps DEF walking
<1>4. QED
  <2>1. ASSUME NEW k \in level[t],
               level' = [level EXCEPT ![t] = (@ \ {k}) \cup (files.deps[k] \ (coming[t] \cup {Of(t)}))],
               coming' = [coming EXCEPT ![t] = @ \cup (files.deps[k] \ (coming[t] \cup {Of(t)}))],
               UNCHANGED <<pc, answer>>
        PROVE  IInv'
    BY <1>2, <2>1
  <2>2. QED
    BY <1>3, <2>1 DEF InvalidatedCheckpointClosure

-----------------------------------------------------------------------------
(* The query for a checkpoint's provenance *)

NodeParentsOf(n) == {NodeParents(n)[i] : i \in 1..Len(NodeParents(n))}

LEMMA NodeParentsType ==
  ASSUME NEW n \in Node
  PROVE  NodeParentsOf(n) \subseteq Node
<1>1. CASE n \in Checkpoint
  <2>1. Parents[n] \in Seq(Checkpoint)
    BY <1>1, CheckpointsAssumption
  <2>2. QED
    BY <1>1, <2>1 DEF NodeParentsOf, NodeParents, Node
<1>2. CASE n \notin Checkpoint
  <2>1. PICK k \in Checkpoint : n = <<k>>
    BY <1>2 DEF Node, Certificate
  <2>2. Len(n) = 1 /\ n[1] = k
    BY <2>1
  <2>3. QED
    BY <1>2, <2>1, <2>2 DEF NodeParentsOf, NodeParents, Node
<1>3. QED
  BY <1>1, <1>2

LEMMA ClosedHasParents ==
  ASSUME NEW K \in SUBSET Checkpoint, Closed(K), NEW n \in K
  PROVE  NodeParentsOf(n) \subseteq K
<1>1. Parents[n] \in Seq(Checkpoint)
  BY CheckpointsAssumption
<1>2. ASSUME NEW i \in 1..Len(Parents[n]) PROVE Parents[n][i] \in K
  <2>1. Parents[n][i] \in Checkpoint /\ IsParent(Parents[n][i], n)
    BY <1>1 DEF IsParent
  <2>2. QED
    BY <2>1 DEF Closed
<1>3. QED
  BY <1>2 DEF NodeParentsOf, NodeParents

LEMMA QueryKeeps ==
  ASSUME IInv, NEW t \in Thread, GetCheckpointProvenance(t)
  PROVE  IInv'
<1>1. /\ pc[t] = "query" /\ Inside(t) /\ FunctionType /\ call[t].op = "query" /\ Of(t)' = Of(t)
      /\ UNCHANGED <<stores, call, bytes, at, listed, got, history, since, faults>>
      /\ since[t].created \subseteq created /\ created \subseteq files.nodes
      /\ created \subseteq Checkpoint
  BY DEF GetCheckpointProvenance, IInv, Fits, Asks, Plan, Knows, Resolves, DataType, Of
<1>2. ASSUME NEW n \in level[t] \cap files.nodes,
             walk' = [walk EXCEPT ![t] = Append(@, n)],
             level' = [level EXCEPT ![t] = @ \ {n}],
             coming' = [coming EXCEPT ![t] = @ \cup NodeParentsOf(n)],
             UNCHANGED <<pc, answer>>
      PROVE  IInv'
  <2>1. n \in Node /\ NodeParentsOf(n) \subseteq Node
    BY <1>1, <1>2, NodeParentsType DEF FunctionType
  <2>2. walk' \in [Thread -> Seq(Node)]
    BY <1>1, <1>2, <2>1 DEF FunctionType
  <2>3. Walks(t)
    BY <1>1, <1>2, <2>1, <2>2 DEF Walks, FunctionType
  <2>4. ASSUME NEW K \in SUBSET since[t].created, Closed(K), Of(t) \in K
        PROVE  level'[t] \cup coming'[t] \subseteq K
    <3>1. level[t] \cup coming[t] \subseteq K /\ n \in K /\ K \in SUBSET Checkpoint
      BY <1>1, <1>2, <2>4 DEF Inside
    <3>2. NodeParentsOf(n) \subseteq K
      BY <2>4, <3>1, ClosedHasParents
    <3>3. QED
      BY <1>1, <1>2, <3>1, <3>2 DEF FunctionType
  <2>5. Inside(t)'
    BY <1>1, <2>4 DEF Inside
  <2>6. QED
    BY <1>1, <2>3, <2>5, WalkKeeps
<1>3. CASE level[t] \ files.nodes # {} /\ Answer(t, NotFound) /\ UNCHANGED walking
  <2>1. Missed(t)
    <3>1. ASSUME NEW K \in SUBSET since[t].created, Closed(K), Of(t) \in K PROVE FALSE
      BY <1>1, <1>3, <3>1 DEF Inside
    <3>2. QED
      BY <1>1, <3>1 DEF Missed
  <2>2. NotFound \in AnswerType
    BY DEF AnswerType
  <2>3. QED
    BY <1>1, <1>3, <2>1, <2>2, AnswerKeeps DEF Answer
<1>4. CASE /\ level' = [level EXCEPT ![t] = coming[t] \ Been(t)]
           /\ coming' = [coming EXCEPT ![t] = {}]
           /\ UNCHANGED <<pc, walk, answer>>
  <2>1. Walks(t)
    BY <1>1, <1>4 DEF Walks, FunctionType
  <2>2. level'[t] = coming[t] \ Been(t) /\ coming'[t] = {}
    BY <1>1, <1>4 DEF FunctionType
  <2>3. Inside(t)'
    BY <1>1, <2>2 DEF Inside
  <2>4. QED
    BY <1>1, <2>1, <2>3, WalkKeeps
<1>5. CASE Answer(t, [kind |-> "chain", nodes |-> walk[t]]) /\ UNCHANGED walking
  <2>1. [kind |-> "chain", nodes |-> walk[t]] \in AnswerType
    BY <1>1 DEF FunctionType, AnswerType
  <2>2. QED
    BY <1>1, <1>5, <2>1, AnswerKeeps DEF Answer
<1>6. QED
  BY <1>2, <1>3, <1>4, <1>5 DEF GetCheckpointProvenance, NodeParentsOf

-----------------------------------------------------------------------------
(* Failures, and all steps *)

LEMMA LeavesGrows ==
  ASSUME IInv, NEW t \in Thread, Leaves(t), UNCHANGED <<disk, history>>, faults' \in 0..MaxFaults
  PROVE  DataType' /\ Resolves' /\ Grows
<1>1. disk' \in FilesType /\ UNCHANGED <<created, uploaded>>
  BY DEF IInv, DataType, history
<1>2. CASE files' = files
  BY <1>1, <1>2, QuietGrows
<1>3. CASE pc[t] \in Writes /\ files' = Written(t, NodeOf(t))
  <2>1. files' \in FilesType /\ Resolves' /\ Grows
    BY <1>1, <1>3, WrittenGrows
  <2>2. QED
    BY <1>1, <2>1 DEF IInv, DataType
<1>4. QED
  BY <1>2, <1>3 DEF Leaves, NodeOf

LEMMA CrashKeeps ==
  ASSUME IInv, NEW t \in Thread, Crash(t)
  PROVE  IInv'
BY FaultCounted, LeavesGrows, EndKeeps DEF Crash

LEMMA CallFailsKeeps ==
  ASSUME IInv, NEW t \in Thread, CallFails(t)
  PROVE  IInv'
<1>1. pc[t] \notin {"idle", "frames", "return"} /\ Leaves(t) /\ UNCHANGED <<disk, history>>
  BY DEF CallFails
<1>2. DataType' /\ Resolves' /\ Grows
  BY <1>1, FaultCounted, LeavesGrows DEF CallFails
<1>3. CASE call[t].op # "upload"
  BY <1>2, <1>3, EndKeeps DEF CallFails
<1>4. CASE call[t].op = "upload"
  <2>1. /\ Goto(t, "frames") /\ at' = [at EXCEPT ![t] = 0] /\ listed' = [listed EXCEPT ![t] = {}]
        /\ UNCHANGED <<call, bytes, got, walking, since, answer>>
    BY <1>4 DEF CallFails
  <2>2. FunctionType' /\ \A u \in Thread \ {t} : Untouched(u)
    BY <2>1 DEF IInv, FunctionType, Goto, walking, Untouched, Labels
  <2>3. pc'[t] = "frames" /\ at'[t] = 0 /\ Of(t)' = Of(t) /\ Fits(t)
    BY <2>1 DEF IInv, FunctionType, Goto, Of
  <2>4. Of(t) \in Checkpoint
    BY <1>1, Callers
  <2>5. Len(Parents[Of(t)]) >= 0
    BY <2>4, CheckpointsAssumption
  <2>6. Plan(t)' /\ Places(t)' /\ Stored(t)'
    BY <1>1, <1>4, <2>1, <2>3, <2>5 DEF Fits, Plan, Places, Stored, Puts, NodePuts
  <2>7. Knows(t)' /\ Asks(t)'
    BY <1>1, <2>1, <2>3 DEF Fits, Knows, Asks, Missed, history, walking, Acked
  <2>8. QED
    BY <1>2, <2>2, <2>6, <2>7, Assemble DEF Fits
<1>5. QED
  BY <1>3, <1>4

LEMMA StutterKeeps ==
  ASSUME IInv, UNCHANGED vars
  PROVE  IInv'
<1>1. DataType' /\ FunctionType' /\ Resolves' /\ Grows
  BY DEF IInv, DataType, FunctionType, Resolves, ManifestsResolve, Grows, Acked, vars, stores,
         walking, history
<1>2. ASSUME NEW u \in Thread PROVE Fits(u)'
  <2>1. Untouched(u) /\ Fits(u)
    BY DEF Untouched, vars, walking, IInv
  <2>2. QED
    BY <1>1, <2>1, UntouchedFits
<1>3. QED
  BY <1>1, <1>2 DEF IInv

LEMMA NextKeeps == IInv /\ [Next]_vars => IInv'
<1>1. SUFFICES ASSUME IInv, [Next]_vars PROVE IInv'
  OBVIOUS
<1>2. CASE UNCHANGED vars
  BY <1>1, <1>2, StutterKeeps
<1>3. CASE Next
  <2>1. PICK t \in Thread :
          \/ Call(t) \/ Return(t)
          \/ AddFrame(t) \/ Finalize(t) \/ Drop(t)
          \/ Put(t) \/ PayloadStored(t) \/ ManifestStored(t) \/ NodeLinked(t)
          \/ GetManifest(t) \/ GetPayload(t) \/ InvalidatedCheckpointClosure(t)
          \/ GetCheckpointProvenance(t)
          \/ CallFails(t) \/ Crash(t)
    BY <1>3 DEF Next
  <2>2. CASE Call(t) \/ Return(t) \/ Drop(t)
    BY <1>1, <2>2, CallKeeps, ReturnKeeps
  <2>3. CASE AddFrame(t) \/ Finalize(t)
    BY <1>1, <2>3, AddFrameKeeps, FinalizeKeeps
  <2>4. CASE Put(t) \/ PayloadStored(t) \/ ManifestStored(t) \/ NodeLinked(t)
    BY <1>1, <2>4, PutKeeps, PayloadStoredKeeps, ManifestStoredKeeps, NodeLinkedKeeps
  <2>5. CASE GetManifest(t) \/ GetPayload(t)
    BY <1>1, <2>5, GetManifestKeeps, GetPayloadKeeps
  <2>6. CASE InvalidatedCheckpointClosure(t) \/ GetCheckpointProvenance(t)
    BY <1>1, <2>6, ClosureKeeps, QueryKeeps
  <2>7. CASE CallFails(t) \/ Crash(t)
    BY <1>1, <2>7, CallFailsKeeps, CrashKeeps
  <2>8. QED
    BY <2>1, <2>2, <2>3, <2>4, <2>5, <2>6, <2>7
<1>4. QED
  BY <1>1, <1>2, <1>3

LEMMA InitHolds == Init => IInv
<1>1. SUFFICES ASSUME Init PROVE IInv
  OBVIOUS
<1>2. DataType /\ FunctionType /\ Resolves
  <2>1. NoFiles \in FilesType /\ 0 \in 0..MaxFaults
    BY FaultsAssumption DEF NoFiles, FilesType
  <2>2. DataType
    BY <1>1, <2>1 DEF Init, DataType
  <2>3. FunctionType
    BY <1>1, Idle DEF Init, FunctionType
  <2>4. Resolves
    BY <1>1 DEF Init, Resolves, ManifestsResolve, NoFiles, Acked
  <2>5. QED
    BY <2>2, <2>3, <2>4
<1>3. ASSUME NEW t \in Thread PROVE Fits(t)
  <2>1. /\ pc[t] = "idle" /\ at[t] = 0 /\ coming[t] = {} /\ level[t] = {} /\ answer[t] = NoAnswer
        /\ since[t] = Nothing
    BY <1>1 DEF Init
  <2>2. Plan(t) /\ Places(t) /\ Stored(t)
    BY <2>1 DEF Plan, Places, Stored, Puts, NodePuts
  <2>3. Knows(t) /\ Asks(t)
    BY <2>1 DEF Knows, Nothing, Asks, NoAnswer
  <2>4. QED
    BY <2>2, <2>3 DEF Fits
<1>4. QED
  BY <1>2, <1>3 DEF IInv

LEMMA IInvAlways == Spec => []IInv
<1>1. QED
  BY InitHolds, NextKeeps, PTL DEF Spec

\* A parent is never forgotten once two threads rewrote its index at once.
LEMMA RacedGrows ==
  ASSUME [Next]_vars
  PROVE  /\ raced \subseteq raced'
         /\ raced \subseteq Checkpoint => raced' \subseteq Checkpoint
<1>1. CASE UNCHANGED raced
  BY <1>1
<1>2. CASE ~UNCHANGED raced
  <2>1. PICK t \in Thread : Put(t)
    <3>1. PICK t \in Thread :
            \/ Call(t) \/ Return(t)
            \/ AddFrame(t) \/ Finalize(t) \/ Drop(t)
            \/ Put(t) \/ PayloadStored(t) \/ ManifestStored(t) \/ NodeLinked(t)
            \/ GetManifest(t) \/ GetPayload(t) \/ InvalidatedCheckpointClosure(t)
            \/ GetCheckpointProvenance(t)
            \/ CallFails(t) \/ Crash(t)
      BY <1>2 DEF Next, vars
    <3>2. QED
      BY <1>2, <3>1
         DEF Call, Return, AddFrame, Finalize, Drop, PayloadStored, ManifestStored, NodeLinked,
             GetManifest, GetPayload, InvalidatedCheckpointClosure, GetCheckpointProvenance,
             CallFails, Crash
  <2>2. QED
    BY <2>1 DEF Put
<1>3. QED
  BY <1>1, <1>2

LEMMA RacedAlways == Spec => [](raced \subseteq Checkpoint)
<1>1. Init => raced \subseteq Checkpoint
  BY DEF Init
<1>2. raced \subseteq Checkpoint /\ [Next]_vars => (raced \subseteq Checkpoint)'
  BY RacedGrows
<1>3. QED
  BY <1>1, <1>2, PTL DEF Spec

\* Every variable has its type in every reachable state, and no thread is past
\* the last parent of the checkpoint whose dependents it lists.
THEOREM TypeCorrect == Spec => []TypeOK
<1>1. QED
  BY IInvAlways, RacedAlways, IInvIsTypeOK, PTL

\* A manifest that is found has its payload, whatever failed or died and whoever
\* stored at the same time: the payload is stored before the manifest, by creation
\* and upload alike.
THEOREM ManifestsAlwaysResolve == Spec => []ManifestsResolve
<1>1. IInv => ManifestsResolve
  BY DEF IInv, Resolves
<1>2. QED
  BY IInvAlways, <1>1, PTL

\* What was acknowledged before a load, an audit or a query began is found by it.
THEOREM AckedAlwaysFound == Spec => []AckedFound
<1>1. QED
  BY IInvAlways, IInvIsAckedFound, PTL

-----------------------------------------------------------------------------
(* The index of dependents, of parents whose index was not raced            *)

Step(t) ==
  \/ Call(t) \/ Return(t)
  \/ AddFrame(t) \/ Finalize(t) \/ Drop(t)
  \/ Put(t) \/ PayloadStored(t) \/ ManifestStored(t) \/ NodeLinked(t)
  \/ GetManifest(t) \/ GetPayload(t) \/ InvalidatedCheckpointClosure(t)
  \/ GetCheckpointProvenance(t)
  \/ CallFails(t) \/ Crash(t)

Early == {"frames", "payload", "write payload", "sync payload", "payload stored", "manifest",
          "write manifest", "sync manifest"}

\* The index of p has k, or two threads have rewritten it at once.
Kept(p, k) == p \in raced \/ k \in files.deps[p]

AllListed(t) == \A p \in Checkpoint : IsParent(p, Of(t)) => Kept(p, Of(t))

\* What a thread read of the index it is about to write has nothing wrong in it, and
\* is still what the index is.
Current(t) ==
  /\ \A k \in listed[t] : k \in files.manifests /\ IsParent(NextParent(t), k)
  /\ NextParent(t) \notin raced => listed[t] = files.deps[NextParent(t)]

\* How far a thread has come with the parents of what it stores.
Lists(t) ==
  /\ pc[t] \in Early => at[t] = 0
  /\ pc[t] \in {"index", "write index", "sync index"} =>
       \A i \in 1..at[t] : Kept(Parents[Of(t)][i], Of(t))
  /\ pc[t] = "write index" => Current(t)
  /\ pc[t] = "sync index" => Kept(NextParent(t), Of(t))
  /\ pc[t] = "stored" => AllListed(t)
  /\ pc[t] \in NodePuts /\ call[t].op = "create" => AllListed(t)

\* Any other index only one thread rewrites.
Apart ==
  \A p \in Checkpoint \ raced : \A t, u \in Thread :
    Rewriting(t, p) /\ Rewriting(u, p) => t = u

LInv == DependentsListed /\ Apart /\ \A t \in Thread : Lists(t)

\* What a step does to the index.
Extends(t) ==
  /\ files.manifests \subseteq files'.manifests
  /\ raced \subseteq raced'
  /\ \/ files'.deps = files.deps
     \/ /\ pc[t] = "write index"
        /\ files'.deps = [files.deps EXCEPT ![NextParent(t)] = listed[t] \cup {Of(t)}]

LEMMA EndUntouched ==
  ASSUME IInv, NEW t \in Thread, End(t)
  PROVE  \A u \in Thread \ {t} : Untouched(u)
BY EndFits DEF IInv

LEMMA PutUntouched ==
  ASSUME IInv, NEW t \in Thread, Put(t)
  PROVE  \A u \in Thread \ {t} : Untouched(u)
<1>1. FunctionType /\ UNCHANGED <<got, walking, history, since, answer, faults>>
  BY DEF IInv, Put
<1>2. CASE PutPayload(t) \/ PutManifest(t) \/ PutNode(t, NodeOf(t))
  BY <1>1, <1>2 DEF FunctionType, PutPayload, PutManifest, PutNode, Goto, walking, Untouched
<1>3. CASE MaybePersistDependentManifestIndex(t)
  BY <1>1, <1>3 DEF FunctionType, MaybePersistDependentManifestIndex, Goto, walking, Untouched
<1>4. CASE Rename(t, NodeOf(t))
  BY <1>1, <1>4 DEF FunctionType, Rename, Goto, walking, Untouched
<1>5. CASE SyncDirectory(t)
  BY <1>1, <1>5 DEF FunctionType, SyncDirectory, Goto, walking, Untouched
<1>6. QED
  BY <1>2, <1>3, <1>4, <1>5 DEF Put, NodeOf

LEMMA StepUntouched ==
  ASSUME IInv, NEW t \in Thread, Step(t)
  PROVE  \A u \in Thread \ {t} : Untouched(u)
<1>1. FunctionType
  BY DEF IInv
<1>2. CASE Call(t)
  BY <1>1, <1>2 DEF FunctionType, Call, Goto, Untouched
<1>3. CASE Return(t) \/ Drop(t) \/ NodeLinked(t) \/ Crash(t)
  BY <1>3, EndUntouched DEF Return, Drop, NodeLinked, Crash
<1>4. CASE AddFrame(t) \/ Finalize(t) \/ PayloadStored(t)
  BY <1>1, <1>4 DEF FunctionType, AddFrame, Finalize, PayloadStored, Goto, walking, Untouched
<1>5. CASE ManifestStored(t)
  <2>1. CASE call[t].op = "create"
    BY <1>1, <1>5, <2>1 DEF FunctionType, ManifestStored, Goto, walking, Untouched
  <2>2. CASE call[t].op # "create"
    BY <1>5, <2>2, EndUntouched DEF ManifestStored
  <2>3. QED
    BY <2>1, <2>2
<1>6. CASE GetManifest(t) \/ GetPayload(t)
  BY <1>1, <1>6 DEF FunctionType, GetManifest, GetPayload, Answer, Goto, walking, Untouched
<1>7. CASE InvalidatedCheckpointClosure(t)
  BY <1>1, <1>7 DEF FunctionType, InvalidatedCheckpointClosure, Goto, Untouched
<1>8. CASE GetCheckpointProvenance(t)
  BY <1>1, <1>8 DEF FunctionType, GetCheckpointProvenance, Answer, Goto, walking, Untouched
<1>9. CASE CallFails(t)
  <2>1. CASE call[t].op = "upload"
    BY <1>1, <1>9, <2>1 DEF FunctionType, CallFails, Goto, walking, Untouched
  <2>2. CASE call[t].op # "upload"
    BY <1>9, <2>2, EndUntouched DEF CallFails
  <2>3. QED
    BY <2>1, <2>2
<1>10. QED
  BY <1>2, <1>3, <1>4, <1>5, <1>6, <1>7, <1>8, <1>9, PutUntouched DEF Step

LEMMA WrittenExtends ==
  ASSUME IInv, NEW t \in Thread, pc[t] \in Writes, files' = Written(t, NodeOf(t)),
         raced \subseteq raced'
  PROVE  Extends(t)
<1>1. files \in FilesType
  BY DEF IInv, DataType
<1>2. CASE pc[t] = "write index"
  BY <1>1, <1>2 DEF Written, FilesType, Extends
<1>3. CASE pc[t] = "write payload"
  BY <1>1, <1>3 DEF Written, FilesType, Extends
<1>4. CASE pc[t] = "write manifest"
  BY <1>1, <1>4 DEF Written, FilesType, Extends
<1>5. CASE pc[t] = "write node"
  BY <1>1, <1>5 DEF Written, FilesType, Extends
<1>6. QED
  BY <1>2, <1>3, <1>4, <1>5 DEF Writes

LEMMA StepExtends ==
  ASSUME IInv, NEW t \in Thread, Step(t)
  PROVE  Extends(t)
<1>0. raced \subseteq raced'
  BY RacedGrows DEF Step, Next
<1>1. CASE UNCHANGED files
  BY <1>0, <1>1 DEF Extends
<1>2. CASE Put(t)
  <2>1. CASE Rename(t, NodeOf(t))
    BY <1>0, <2>1, WrittenExtends DEF Rename
  <2>2. CASE ~Rename(t, NodeOf(t))
    <3>1. UNCHANGED files
      BY <1>2, <2>2 DEF Put, NodeOf, PutPayload, PutManifest, MaybePersistDependentManifestIndex,
                        PutNode, SyncDirectory, stores
    <3>2. QED
      BY <1>1, <3>1
  <2>3. QED
    BY <2>1, <2>2
<1>3. CASE CallFails(t) \/ Crash(t)
  <2>1. Leaves(t)
    BY <1>3 DEF CallFails, Crash
  <2>2. CASE pc[t] \in Writes
    <3>1. files' \in {files, Written(t, NodeOf(t))}
      BY <2>1, <2>2 DEF Leaves, NodeOf
    <3>2. CASE files' = Written(t, NodeOf(t))
      BY <1>0, <2>2, <3>2, WrittenExtends
    <3>3. QED
      BY <1>1, <3>1, <3>2
  <2>3. CASE pc[t] \notin Writes
    BY <1>1, <2>1, <2>3 DEF Leaves
  <2>4. QED
    BY <2>2, <2>3
<1>4. CASE ~(Put(t) \/ CallFails(t) \/ Crash(t))
  <2>1. CASE Call(t) \/ Return(t) \/ AddFrame(t) \/ Finalize(t) \/ Drop(t)
    BY <1>1, <2>1 DEF Call, Return, AddFrame, Finalize, Drop, stores
  <2>2. CASE PayloadStored(t) \/ ManifestStored(t) \/ NodeLinked(t)
    BY <1>1, <2>2 DEF PayloadStored, ManifestStored, NodeLinked, stores
  <2>3. CASE GetManifest(t) \/ GetPayload(t)
    BY <1>1, <2>3 DEF GetManifest, GetPayload, stores
  <2>4. CASE InvalidatedCheckpointClosure(t) \/ GetCheckpointProvenance(t)
    BY <1>1, <2>4 DEF InvalidatedCheckpointClosure, GetCheckpointProvenance, stores
  <2>5. QED
    BY <1>4, <2>1, <2>2, <2>3, <2>4 DEF Step
<1>5. QED
  BY <1>2, <1>3, <1>4

LEMMA ExtendsKeeps ==
  ASSUME IInv, LInv, NEW t \in Thread, Extends(t)
  PROVE  \A p \in Checkpoint : \A k : Kept(p, k) => Kept(p, k)'
<1>1. files \in FilesType /\ Lists(t)
  BY DEF IInv, DataType, LInv
<1>2. CASE files'.deps = files.deps
  BY <1>2 DEF Extends, Kept
<1>3. CASE /\ pc[t] = "write index"
           /\ files'.deps = [files.deps EXCEPT ![NextParent(t)] = listed[t] \cup {Of(t)}]
  <2>1. NextParent(t) \notin raced => files.deps[NextParent(t)] \subseteq listed[t]
    BY <1>1, <1>3 DEF Lists, Current
  <2>2. QED
    BY <1>1, <1>3, <2>1 DEF FilesType, Extends, Kept
<1>4. QED
  BY <1>2, <1>3 DEF Extends

LEMMA ParentsTyped ==
  ASSUME IInv, NEW u \in Thread, pc[u] # "idle"
  PROVE  /\ Len(Parents[Of(u)]) \in Nat /\ at[u] \in Nat /\ at[u] <= Len(Parents[Of(u)])
         /\ \A i \in 1..at[u] : Parents[Of(u)][i] \in Checkpoint
<1>1. Of(u) \in Checkpoint /\ at[u] \in Nat /\ at[u] <= Len(Parents[Of(u)])
  BY Callers DEF IInv, Fits, Places, FunctionType
<1>2. Parents[Of(u)] \in Seq(Checkpoint)
  BY <1>1, CheckpointsAssumption
<1>3. PICK n \in Nat : n = Len(Parents[Of(u)])
  BY <1>2
<1>4. ASSUME NEW i \in 1..at[u] PROVE Parents[Of(u)][i] \in Checkpoint
  <2>1. i \in 1..n
    BY <1>1, <1>3
  <2>2. QED
    BY <1>2, <1>3, <2>1
<1>5. QED
  BY <1>1, <1>3, <1>4

LEMMA UntouchedLists ==
  ASSUME IInv, LInv, NEW t \in Thread, Extends(t), NEW u \in Thread, t # u, Untouched(u)
  PROVE  Lists(u)'
<1>1. /\ Lists(u) /\ Of(u)' = Of(u) /\ NextParent(u)' = NextParent(u) /\ files \in FilesType
      /\ pc'[u] = pc[u] /\ call'[u] = call[u] /\ at'[u] = at[u] /\ listed'[u] = listed[u]
  BY DEF LInv, Untouched, Of, NextParent, IInv, DataType
<1>2. \A p \in Checkpoint : \A k : Kept(p, k) => Kept(p, k)'
  BY ExtendsKeeps
<1>3. pc[u] \in {"write index", "sync index"} => NextParent(u) \in Checkpoint
  BY NextParentType DEF IInv, Fits, Places
<1>4. (pc[u] \in Early => at[u] = 0)'
  BY <1>1 DEF Lists
<1>5. pc[u] \in {"index", "write index", "sync index"} =>
        \A i \in 1..at[u] : Kept(Parents[Of(u)][i], Of(u))'
  BY <1>1, <1>2, ParentsTyped DEF Lists
<1>6. ASSUME pc[u] = "write index" PROVE Current(u)'
  <2>1. Current(u) /\ files.manifests \subseteq files'.manifests /\ raced \subseteq raced'
    BY <1>1, <1>6 DEF Lists, Extends
  <2>2. ASSUME NextParent(u) \notin raced PROVE files'.deps[NextParent(u)] = files.deps[NextParent(u)]
    <3>1. pc[t] = "write index" => NextParent(t) # NextParent(u)
      BY <1>3, <1>6, <2>2 DEF LInv, Apart, Rewriting
    <3>2. QED
      BY <1>1, <1>3, <1>6, <3>1 DEF Extends, FilesType
  <2>3. QED
    BY <1>1, <2>1, <2>2 DEF Current
<1>7. pc[u] = "sync index" => Kept(NextParent(u), Of(u))'
  BY <1>1, <1>2, <1>3 DEF Lists
<1>8. AllListed(u) => AllListed(u)'
  BY <1>1, <1>2 DEF AllListed
<1>9. QED
  BY <1>1, <1>4, <1>5, <1>6, <1>7, <1>8 DEF Lists

\* Only a step of the store leads to where an index is rewritten.
LEMMA OnlyPut ==
  ASSUME IInv, NEW t \in Thread, Step(t), pc'[t] = "write index"
  PROVE  Put(t)
<1>1. FunctionType
  BY DEF IInv
<1>2. CASE Call(t)
  <2>1. PICK c \in CallsOf[t] : Goto(t, Begin[c.op])
    BY <1>2 DEF Call
  <2>2. c.op \in Ops
    BY CallsAssumption DEF CallType
  <2>3. Begin[c.op] # "write index"
    BY <2>2 DEF Begin, Ops
  <2>4. QED
    BY <1>1, <2>1, <2>3 DEF FunctionType, Goto
<1>3. CASE Return(t) \/ Drop(t) \/ NodeLinked(t) \/ Crash(t)
  BY <1>1, <1>3 DEF Return, Drop, NodeLinked, Crash, End, FunctionType, Goto
<1>4. CASE AddFrame(t) \/ Finalize(t) \/ PayloadStored(t)
  BY <1>1, <1>4 DEF AddFrame, Finalize, PayloadStored, FunctionType, Goto
<1>5. CASE ManifestStored(t) \/ CallFails(t)
  <2>1. PICK l \in {"idle", "node", "frames"} : Goto(t, l)
    BY <1>5 DEF ManifestStored, CallFails, End
  <2>2. QED
    BY <1>1, <2>1 DEF FunctionType, Goto
<1>6. CASE GetManifest(t) \/ GetPayload(t)
  BY <1>1, <1>6 DEF GetManifest, GetPayload, Answer, FunctionType, Goto
<1>7. CASE InvalidatedCheckpointClosure(t)
  BY <1>1, <1>7 DEF InvalidatedCheckpointClosure, FunctionType, Goto
<1>8. CASE GetCheckpointProvenance(t)
  BY <1>1, <1>8 DEF GetCheckpointProvenance, Answer, FunctionType, Goto
<1>9. QED
  BY <1>2, <1>3, <1>4, <1>5, <1>6, <1>7, <1>8 DEF Step

LEMMA StepApart ==
  ASSUME IInv, LInv, NEW t \in Thread, Step(t)
  PROVE  Apart'
<1>1. (\A u \in Thread \ {t} : Untouched(u)) /\ raced \subseteq raced'
  BY StepUntouched, StepExtends DEF Extends
<1>2. \A u \in Thread \ {t} : \A p : Rewriting(u, p)' <=> Rewriting(u, p)
  BY <1>1 DEF Untouched, Rewriting, NextParent, Of
<1>3. ASSUME NEW p \in Checkpoint, NEW u \in Thread \ {t}, Rewriting(t, p)', Rewriting(u, p)
      PROVE  p \in raced'
  <2>1. Put(t)
    BY <1>3, OnlyPut DEF Rewriting
  <2>2. QED
    BY <1>3, <2>1 DEF Put
<1>4. ASSUME NEW p \in Checkpoint \ raced', NEW u \in Thread, NEW v \in Thread,
             Rewriting(u, p)', Rewriting(v, p)'
      PROVE  u = v
  <2>1. CASE u # t /\ v # t
    BY <1>1, <1>2, <1>4, <2>1 DEF LInv, Apart
  <2>2. CASE u = t \/ v = t
    BY <1>2, <1>3, <1>4, <2>2
  <2>3. QED
    BY <2>1, <2>2
<1>5. QED
  BY <1>4 DEF Apart

-----------------------------------------------------------------------------
(* The thread that takes the step *)

\* It ends, or comes to where nothing is claimed of the index.
LEMMA ListsElsewhere ==
  ASSUME NEW t \in Thread, NEW l, pc'[t] = l,
         l \notin {"index", "write index", "sync index", "stored"},
         l \in Early => at'[t] = 0,
         l \in NodePuts => call'[t].op # "create"
  PROVE  Lists(t)'
BY DEF Lists

LEMMA EndLists ==
  ASSUME IInv, NEW t \in Thread, End(t)
  PROVE  Lists(t)'
<1>1. pc'[t] = "idle"
  BY DEF IInv, FunctionType, End, Goto
<1>2. QED
  BY <1>1 DEF Lists, Early, NodePuts

LEMMA CallLists ==
  ASSUME IInv, NEW t \in Thread, Call(t)
  PROVE  Lists(t)'
<1>1. PICK c \in CallsOf[t] : call' = [call EXCEPT ![t] = c] /\ Goto(t, Begin[c.op])
  BY DEF Call
<1>2. c.op \in Ops
  BY CallsAssumption DEF CallType
<1>3. Begin[c.op] \in {"payload", "frames", "query", "get manifest"}
  BY <1>2 DEF Begin, Ops
<1>4. pc'[t] = Begin[c.op] /\ call'[t] = c /\ at'[t] = 0
  BY <1>1 DEF Call, IInv, FunctionType, Goto, Fits, Plan
<1>5. Begin[c.op] \notin {"index", "write index", "sync index", "stored"} /\ Begin[c.op] \notin NodePuts
  BY <1>3 DEF NodePuts
<1>6. QED
  BY <1>4, <1>5, ListsElsewhere

\* A step that leaves the index alone and goes to l.
LEMMA ListsThere ==
  ASSUME IInv, LInv, NEW t \in Thread, NEW l \in Labels, Goes(t, l), pc[t] # "idle",
         files'.deps = files.deps, raced \subseteq raced',
         l \in Early => at[t] = 0,
         l = "index" => at[t] = 0,
         l \notin {"write index", "sync index"},
         l = "stored" => AllListed(t),
         l \in NodePuts /\ call[t].op = "create" => AllListed(t)
  PROVE  Lists(t)'
<1>1. /\ pc'[t] = l /\ call'[t] = call[t] /\ at'[t] = at[t] /\ Of(t)' = Of(t)
  BY GoFits DEF IInv, Goes
<1>2. AllListed(t) => AllListed(t)'
  BY <1>1 DEF AllListed, Kept
<1>3. l = "index" => 1..at'[t] = {}
  BY <1>1
<1>4. QED
  BY <1>1, <1>2, <1>3 DEF Lists

LEMMA ListedToTheEnd ==
  ASSUME IInv, LInv, NEW t \in Thread, pc[t] = "index", at[t] = Len(Parents[Of(t)])
  PROVE  AllListed(t)
BY DEF LInv, Lists, AllListed, IsParent

LEMMA OneMore ==
  ASSUME NEW n \in Nat, NEW i \in 1..n + 1
  PROVE  i \in 1..n \/ i = n + 1
OBVIOUS

\* One more parent is done.
LEMMA ListedOneMore ==
  ASSUME IInv, LInv, NEW t \in Thread, pc[t] \in {"index", "sync index"},
         at[t] < Len(Parents[Of(t)]), Kept(NextParent(t), Of(t)), raced \subseteq raced',
         at' = [at EXCEPT ![t] = @ + 1], pc'[t] = "index", UNCHANGED <<files, call>>
  PROVE  Lists(t)'
<1>1. Of(t)' = Of(t) /\ \A i \in 1..at[t] : Kept(Parents[Of(t)][i], Of(t))
  BY DEF LInv, Lists, Of
<1>2. at[t] \in Nat /\ at'[t] = at[t] + 1
  BY DEF IInv, FunctionType
<1>3. ASSUME NEW i \in 1..at'[t] PROVE Kept(Parents[Of(t)][i], Of(t))
  <2>1. PICK n \in Nat : n = at[t]
    BY <1>2
  <2>2. i \in 1..n + 1
    BY <1>2, <2>1
  <2>3. i \in 1..n \/ i = n + 1
    BY <2>2, OneMore
  <2>4. CASE i \in 1..n
    BY <1>1, <2>1, <2>4
  <2>5. CASE i = n + 1
    BY <2>1, <2>5 DEF NextParent
  <2>6. QED
    BY <2>3, <2>4, <2>5
<1>4. \A p : Kept(p, Of(t)) => Kept(p, Of(t))'
  BY <1>1 DEF Kept
<1>5. (\A i \in 1..at[t] : Kept(Parents[Of(t)][i], Of(t)))'
  BY <1>1, <1>3, <1>4 DEF Kept
<1>6. QED
  BY <1>1, <1>5 DEF Lists, Early, NodePuts

LEMMA IndexLists ==
  ASSUME IInv, LInv, NEW t \in Thread, MaybePersistDependentManifestIndex(t),
         raced \subseteq raced', UNCHANGED <<got, walking, history, since, answer, faults>>
  PROVE  Lists(t)'
<1>1. pc[t] = "index" /\ UNCHANGED <<stores, call, bytes>> /\ Lists(t)
  BY DEF MaybePersistDependentManifestIndex, LInv
<1>2. CASE at[t] = Len(Parents[Of(t)]) /\ Goto(t, "stored") /\ UNCHANGED <<at, listed>>
  <2>1. Goes(t, "stored") /\ "stored" \in Labels
    BY <1>1, <1>2 DEF Goes, Labels
  <2>2. QED
    BY <1>1, <1>2, <2>1, ListedToTheEnd, ListsThere DEF Early, NodePuts, stores
<1>3. CASE /\ at[t] < Len(Parents[Of(t)]) /\ Of(t) \in files.deps[NextParent(t)]
           /\ at' = [at EXCEPT ![t] = @ + 1] /\ UNCHANGED <<pc, listed>>
  BY <1>1, <1>3, ListedOneMore DEF stores, Kept
<1>4. CASE /\ at[t] < Len(Parents[Of(t)]) /\ Goto(t, "write index") /\ UNCHANGED at
           /\ listed' = [listed EXCEPT ![t] = files.deps[NextParent(t)]]
  <2>1. /\ pc'[t] = "write index" /\ listed'[t] = files.deps[NextParent(t)]
        /\ UNCHANGED <<files, at, call>>
    BY <1>1, <1>4 DEF IInv, FunctionType, Goto, stores
  <2>2. Of(t)' = Of(t) /\ NextParent(t)' = NextParent(t)
    BY <2>1 DEF Of, NextParent
  <2>3. NextParent(t) \in Checkpoint
    BY <1>1, <1>4, NextParentType
  <2>4. Current(t)'
    BY <2>1, <2>2, <2>3 DEF Current, LInv, DependentsListed
  <2>5. \A i \in 1..at[t] : Kept(Parents[Of(t)][i], Of(t))'
    BY <1>1, <2>1, <2>2 DEF Lists, Kept
  <2>6. QED
    BY <1>1, <2>1, <2>2, <2>4, <2>5 DEF Lists, Early, NodePuts
<1>5. QED
  BY <1>2, <1>3, <1>4 DEF MaybePersistDependentManifestIndex

LEMMA RenameLists ==
  ASSUME IInv, LInv, NEW t \in Thread, Rename(t, NodeOf(t)),
         raced \subseteq raced', UNCHANGED <<got, walking, history, since, answer, faults>>
  PROVE  Lists(t)'
<1>1. /\ pc[t] \in Writes /\ files' = Written(t, NodeOf(t)) /\ UNCHANGED <<call, at>> /\ Lists(t)
      /\ files \in FilesType /\ Of(t)' = Of(t) /\ NextParent(t)' = NextParent(t)
  BY DEF Rename, LInv, IInv, DataType, Of, NextParent
<1>2. Extends(t)
  BY <1>1, WrittenExtends
<1>3. \A p \in Checkpoint : \A k : Kept(p, k) => Kept(p, k)'
  BY <1>2, ExtendsKeeps
<1>4. CASE pc[t] = "write index"
  <2>1. pc'[t] = "sync index"
    BY <1>4 DEF Rename, IInv, FunctionType, Goto
  <2>2. NextParent(t) \in Checkpoint
    BY <1>4, NextParentType DEF IInv, Fits, Places
  <2>3. Kept(NextParent(t), Of(t))'
    BY <1>1, <1>4, <2>2 DEF Written, FilesType, Kept
  <2>4. \A i \in 1..at[t] : Kept(Parents[Of(t)][i], Of(t))'
    BY <1>1, <1>3, <1>4, ParentsTyped DEF Lists
  <2>5. QED
    BY <1>1, <1>4, <2>1, <2>3, <2>4 DEF Lists, Early, NodePuts
<1>5. CASE pc[t] # "write index"
  <2>1. files'.deps = files.deps
    BY <1>2, <1>5 DEF Extends
  <2>2. PICK l \in {"sync payload", "sync manifest", "sync node"} :
          /\ Goto(t, l)
          /\ l = "sync payload" => pc[t] = "write payload"
          /\ l = "sync manifest" => pc[t] = "write manifest"
          /\ l = "sync node" => pc[t] = "write node"
    BY <1>1, <1>5 DEF Rename, Writes
  <2>3. Goes(t, l) /\ l \in Labels
    BY <2>2 DEF Rename, Goes, Labels, Syncs
  <2>4. /\ l \in Early => at[t] = 0
        /\ l \in NodePuts /\ call[t].op = "create" => AllListed(t)
    BY <1>1, <2>2 DEF Lists, Early, NodePuts
  <2>5. QED
    BY <1>1, <2>1, <2>2, <2>3, <2>4, ListsThere DEF Writes
<1>6. QED
  BY <1>4, <1>5

LEMMA SyncLists ==
  ASSUME IInv, LInv, NEW t \in Thread, SyncDirectory(t),
         raced \subseteq raced', UNCHANGED <<got, walking, history, since, answer, faults>>
  PROVE  Lists(t)'
<1>1. Lists(t) /\ UNCHANGED <<files, call>>
  BY DEF LInv, SyncDirectory
<1>2. CASE pc[t] = "sync payload"
  <2>1. Goes(t, "payload stored") /\ "payload stored" \in Labels
    BY <1>2 DEF SyncDirectory, Goes, Labels
  <2>2. QED
    BY <1>1, <1>2, <2>1, ListsThere DEF Lists, Early, NodePuts
<1>3. CASE pc[t] = "sync manifest"
  <2>1. Goes(t, "index") /\ "index" \in Labels /\ at[t] = 0
    BY <1>1, <1>3 DEF SyncDirectory, Goes, Labels, Lists, Early
  <2>2. QED
    BY <1>1, <1>3, <2>1, ListsThere DEF Early, NodePuts
<1>4. CASE pc[t] = "sync index"
  <2>1. /\ at' = [at EXCEPT ![t] = @ + 1] /\ pc'[t] = "index"
        /\ at[t] < Len(Parents[Of(t)]) /\ Kept(NextParent(t), Of(t))
    BY <1>1, <1>4 DEF SyncDirectory, IInv, FunctionType, Goto, Fits, Places, Lists
  <2>2. QED
    BY <1>1, <1>4, <2>1, ListedOneMore
<1>5. CASE pc[t] = "sync node"
  <2>1. Goes(t, "linked") /\ "linked" \in Labels
    BY <1>5 DEF SyncDirectory, Goes, Labels
  <2>2. QED
    BY <1>1, <1>5, <2>1, ListsThere DEF Lists, Early, NodePuts
<1>6. QED
  BY <1>2, <1>3, <1>4, <1>5 DEF SyncDirectory

LEMMA PutLists ==
  ASSUME IInv, LInv, NEW t \in Thread, Put(t)
  PROVE  Lists(t)'
<1>1. /\ Lists(t) /\ raced \subseteq raced'
      /\ UNCHANGED <<got, walking, history, since, answer, faults>>
  BY DEF LInv, Put
<1>2. CASE PutPayload(t)
  <2>1. PICK l \in {"payload stored", "write payload"} : Goto(t, l)
    BY <1>2 DEF PutPayload
  <2>2. Goes(t, l) /\ l \in Labels /\ files' = files /\ pc[t] = "payload"
    BY <1>1, <1>2, <2>1 DEF PutPayload, Goes, Labels, Writes, stores
  <2>3. QED
    BY <1>1, <2>1, <2>2, ListsThere DEF Lists, Early, NodePuts
<1>3. CASE PutManifest(t)
  <2>1. PICK l \in {"index", "write manifest"} : Goto(t, l)
    BY <1>3 DEF PutManifest
  <2>2. Goes(t, l) /\ l \in Labels /\ files' = files /\ pc[t] = "manifest" /\ at[t] = 0
    BY <1>1, <1>3, <2>1 DEF PutManifest, Goes, Labels, Writes, stores, Lists, Early
  <2>3. QED
    BY <1>1, <2>1, <2>2, ListsThere DEF Early, NodePuts
<1>4. CASE PutNode(t, NodeOf(t))
  <2>1. PICK l \in {"linked", "write node"} : Goto(t, l)
    BY <1>4 DEF PutNode
  <2>2. Goes(t, l) /\ l \in Labels /\ files' = files /\ pc[t] = "node"
    BY <1>1, <1>4, <2>1 DEF PutNode, Goes, Labels, Writes, stores
  <2>3. QED
    BY <1>1, <2>1, <2>2, ListsThere DEF Lists, Early, NodePuts
<1>5. QED
  BY <1>1, <1>2, <1>3, <1>4, IndexLists, RenameLists, SyncLists DEF Put, NodeOf

\* A step of the thread, with the index as it is, to where nothing is claimed of it.
LEMMA OtherLists ==
  ASSUME IInv, LInv, NEW t \in Thread,
         \/ AddFrame(t) \/ Finalize(t) \/ PayloadStored(t) \/ GetManifest(t) \/ GetPayload(t)
         \/ InvalidatedCheckpointClosure(t) \/ GetCheckpointProvenance(t)
  PROVE  Lists(t)'
<1>1. Lists(t) /\ Plan(t) /\ pc \in [Thread -> Labels]
  BY DEF LInv, IInv, Fits, FunctionType
<1>2. CASE AddFrame(t)
  <2>1. pc'[t] = "frames" /\ call' = call /\ at' = at /\ pc[t] = "frames"
    BY <1>2 DEF AddFrame
  <2>2. QED
    BY <1>1, <2>1 DEF Lists, Early, NodePuts
<1>3. CASE Finalize(t)
  <2>1. pc'[t] = "payload" /\ call' = call /\ at' = at /\ pc[t] = "frames"
    BY <1>1, <1>3 DEF Finalize, Goto
  <2>2. QED
    BY <1>1, <2>1 DEF Lists, Early, NodePuts
<1>4. CASE PayloadStored(t)
  <2>1. pc'[t] = "manifest" /\ call' = call /\ at' = at /\ pc[t] = "payload stored"
    BY <1>1, <1>4 DEF PayloadStored, Goto
  <2>2. QED
    BY <1>1, <2>1 DEF Lists, Early, NodePuts
<1>5. CASE GetManifest(t) \/ GetPayload(t)
  <2>1. /\ pc'[t] \in {"get payload", "return", "node", "closure"} /\ call' = call /\ at' = at
        /\ pc[t] \in {"get manifest", "get payload"}
    BY <1>1, <1>5 DEF GetManifest, GetPayload, Answer, Goto
  <2>2. call[t].op # "create"
    BY <1>1, <2>1 DEF Plan
  <2>3. QED
    BY <1>1, <2>1, <2>2 DEF Lists, Early, NodePuts
<1>6. CASE InvalidatedCheckpointClosure(t)
  <2>1. /\ pc'[t] \in {"closure", "node"} /\ call' = call /\ at' = at /\ pc[t] = "closure"
    BY <1>1, <1>6 DEF InvalidatedCheckpointClosure, Goto
  <2>2. call[t].op # "create"
    BY <1>1, <2>1 DEF Plan
  <2>3. QED
    BY <1>1, <2>1, <2>2 DEF Lists, Early, NodePuts
<1>7. CASE GetCheckpointProvenance(t)
  <2>1. /\ pc'[t] \in {"query", "return"} /\ call' = call /\ at' = at /\ pc[t] = "query"
    BY <1>1, <1>7 DEF GetCheckpointProvenance, Answer, Goto
  <2>2. QED
    BY <1>1, <2>1 DEF Lists, Early, NodePuts
<1>8. QED
  BY <1>2, <1>3, <1>4, <1>5, <1>6, <1>7

LEMMA StepLists ==
  ASSUME IInv, LInv, NEW t \in Thread, Step(t)
  PROVE  Lists(t)'
<1>1. Lists(t)
  BY DEF LInv
<1>2. CASE Return(t) \/ Drop(t) \/ NodeLinked(t) \/ Crash(t)
  BY <1>2, EndLists DEF Return, Drop, NodeLinked, Crash
<1>3. CASE ManifestStored(t)
  <2>1. CASE call[t].op = "create"
    <3>1. Goes(t, "node") /\ "node" \in Labels /\ UNCHANGED <<files, raced>> /\ pc[t] = "stored"
      BY <1>3, <2>1 DEF ManifestStored, Goes, Labels, stores
    <3>2. QED
      BY <1>1, <3>1, ListsThere DEF Lists, Early
  <2>2. CASE call[t].op # "create"
    BY <1>3, <2>2, EndLists DEF ManifestStored
  <2>3. QED
    BY <2>1, <2>2
<1>4. CASE CallFails(t)
  <2>1. CASE call[t].op = "upload"
    <3>1. pc'[t] = "frames" /\ at'[t] = 0 /\ call' = call /\ pc[t] # "idle"
      BY <1>4, <2>1 DEF CallFails, IInv, FunctionType, Goto
    <3>2. QED
      BY <1>1, <3>1 DEF Lists, NodePuts
  <2>2. CASE call[t].op # "upload"
    BY <1>4, <2>2, EndLists DEF CallFails
  <2>3. QED
    BY <2>1, <2>2
<1>5. QED
  BY <1>2, <1>3, <1>4, CallLists, PutLists, OtherLists DEF Step

\* Only the end of a call adds to what is acknowledged.
LEMMA StepAcks ==
  ASSUME IInv, NEW t \in Thread, Step(t)
  PROVE  \/ Acked' = Acked
         \/ /\ Acked' \subseteq Acked \cup {Of(t)}
            /\ \/ pc[t] = "stored"
               \/ pc[t] = "linked" /\ call[t].op = "create"
<1>1. CASE UNCHANGED history
  BY <1>1 DEF history, Acked
<1>2. CASE ManifestStored(t)
  <2>1. CASE call[t].op = "create"
    BY <1>1, <1>2, <2>1 DEF ManifestStored, history
  <2>2. CASE call[t].op # "create"
    BY <1>2, <2>2 DEF ManifestStored, Acked
  <2>3. QED
    BY <2>1, <2>2
<1>3. CASE NodeLinked(t)
  BY <1>3 DEF NodeLinked, Acked
<1>4. CASE Call(t) \/ Return(t) \/ AddFrame(t) \/ Finalize(t) \/ Drop(t)
  BY <1>1, <1>4 DEF Call, Return, AddFrame, Finalize, Drop
<1>5. CASE Put(t) \/ PayloadStored(t) \/ CallFails(t) \/ Crash(t)
  BY <1>1, <1>5 DEF Put, PayloadStored, CallFails, Crash
<1>6. CASE GetManifest(t) \/ GetPayload(t)
  BY <1>1, <1>6 DEF GetManifest, GetPayload
<1>7. CASE InvalidatedCheckpointClosure(t) \/ GetCheckpointProvenance(t)
  BY <1>1, <1>7 DEF InvalidatedCheckpointClosure, GetCheckpointProvenance
<1>8. QED
  BY <1>2, <1>3, <1>4, <1>5, <1>6, <1>7 DEF Step

LEMMA StepListed ==
  ASSUME IInv, LInv, NEW t \in Thread, Step(t)
  PROVE  DependentsListed'
<1>1. /\ Extends(t) /\ (\A p \in Checkpoint : \A k : Kept(p, k) => Kept(p, k)')
      /\ files \in FilesType
  BY StepExtends, ExtendsKeeps DEF IInv, DataType
<1>2. ASSUME NEW k \in Acked', NEW p \in Checkpoint, IsParent(p, k)
      PROVE  Kept(p, k)'
  <2>1. CASE k \in Acked
    <3>1. Kept(p, k)
      BY <1>2, <2>1 DEF LInv, DependentsListed, Kept
    <3>2. QED
      BY <1>1, <3>1
  <2>2. CASE k \notin Acked
    <3>1. k = Of(t) /\ (pc[t] = "stored" \/ (pc[t] = "linked" /\ call[t].op = "create"))
      BY <2>2, StepAcks
    <3>2. AllListed(t)
      BY <3>1 DEF LInv, Lists, NodePuts
    <3>3. QED
      BY <1>1, <1>2, <3>1, <3>2 DEF AllListed
  <2>3. QED
    BY <2>1, <2>2
<1>3. ASSUME NEW p \in Checkpoint, NEW k \in files'.deps[p]
      PROVE  k \in files'.manifests /\ IsParent(p, k)
  <2>1. CASE k \in files.deps[p]
    BY <1>1, <2>1 DEF LInv, DependentsListed, Extends
  <2>2. CASE k \notin files.deps[p]
    <3>1. /\ pc[t] = "write index"
          /\ files'.deps = [files.deps EXCEPT ![NextParent(t)] = listed[t] \cup {Of(t)}]
          /\ files.deps \in [Checkpoint -> SUBSET Checkpoint]
      BY <1>1, <2>2 DEF Extends, FilesType
    <3>2. p = NextParent(t) /\ k \in listed[t] \cup {Of(t)} /\ Current(t)
      BY <2>2, <3>1 DEF LInv, Lists
    <3>3. Of(t) \in files.manifests /\ at[t] < Len(Parents[Of(t)])
      BY <3>1 DEF IInv, Fits, Stored, Places
    <3>4. at[t] + 1 \in 1..Len(Parents[Of(t)])
      BY <3>1, <3>3, NextParentType
    <3>5. QED
      BY <1>1, <3>2, <3>3, <3>4 DEF NextParent, IsParent, Extends, Current
  <2>3. QED
    BY <2>1, <2>2
<1>4. QED
  BY <1>2, <1>3 DEF DependentsListed, Acked, Kept

-----------------------------------------------------------------------------
(* What an audit invalidates *)

Auditing == {"get manifest", "get payload", "closure"}

Doomed(t) == coming[t] \cup {Of(t)}

\* Of a checkpoint the walk is through with, and whose index was not raced, it has
\* every dependent that was acknowledged before it began; and so of all that it
\* came to, when it ends.
Closing(t) ==
  /\ pc[t] \in Auditing /\ call[t].op = "audit" =>
       \A p \in Doomed(t) \ (level[t] \cup raced) : \A k \in since[t].acked :
         IsParent(p, k) => k \in Doomed(t)
  /\ answer[t].kind = "invalidates" =>
       \A p \in (answer[t].those \cup {Of(t)}) \ raced : \A k \in since[t].acked :
         IsParent(p, k) => k \in answer[t].those \cup {Of(t)}

CInv == LInv /\ \A t \in Thread : Closing(t)

LEMMA UntouchedClosing ==
  ASSUME NEW u \in Thread, Closing(u), Untouched(u), raced \subseteq raced'
  PROVE  Closing(u)'
BY DEF Untouched, Closing, Doomed, Of

\* A step that leaves the walk and its answer alone.
LEMMA QuietClosing ==
  ASSUME NEW t \in Thread, Closing(t), UNCHANGED <<call, walking, since, answer>>,
         raced \subseteq raced',
         pc'[t] \in Auditing => pc[t] \in Auditing \/ call[t].op # "audit"
  PROVE  Closing(t)'
BY DEF Closing, Doomed, Of, walking

LEMMA EndClosing ==
  ASSUME IInv, NEW t \in Thread, End(t)
  PROVE  Closing(t)'
<1>1. pc'[t] = "idle" /\ answer'[t] = NoAnswer
  BY DEF IInv, FunctionType, End, Goto
<1>2. QED
  BY <1>1 DEF Closing, Auditing, NoAnswer

LEMMA AnswerClosing ==
  ASSUME FunctionType, NEW t \in Thread, NEW a, Answer(t, a), a.kind # "invalidates"
  PROVE  Closing(t)'
<1>1. answer'[t] = a /\ pc'[t] = "return"
  BY DEF Answer, Goto, FunctionType
<1>2. QED
  BY <1>1 DEF Closing, Auditing

LEMMA CallClosing ==
  ASSUME IInv, CInv, NEW t \in Thread, Call(t)
  PROVE  Closing(t)'
<1>1. coming[t] = {} /\ answer[t] = NoAnswer /\ FunctionType
  BY DEF IInv, Fits, Plan, Call
<1>2. PICK c \in CallsOf[t] :
        /\ call' = [call EXCEPT ![t] = c]
        /\ level' = [level EXCEPT ![t] = IF c.op \in {"audit", "query"} THEN {c.about} ELSE {}]
  BY DEF Call
<1>3. /\ call'[t] = c /\ coming'[t] = {} /\ answer'[t] = NoAnswer
      /\ c.op = "audit" => level'[t] = {c.about}
  BY <1>1, <1>2 DEF FunctionType, Call
<1>4. call'[t].op = "audit" => (Doomed(t) \ (level[t] \cup raced))' = {}
  BY <1>3 DEF Doomed, Of
<1>5. QED
  BY <1>3, <1>4 DEF Closing, NoAnswer

LEMMA PutClosing ==
  ASSUME IInv, CInv, NEW t \in Thread, Put(t)
  PROVE  Closing(t)'
<1>1. /\ Closing(t) /\ pc \in [Thread -> Labels] /\ UNCHANGED <<walking, since, answer>>
      /\ raced \subseteq raced'
  BY DEF CInv, IInv, FunctionType, Put
<1>2. CASE PutPayload(t) \/ PutManifest(t) \/ PutNode(t, NodeOf(t))
  BY <1>1, <1>2, QuietClosing DEF PutPayload, PutManifest, PutNode, Goto, Auditing
<1>3. CASE MaybePersistDependentManifestIndex(t)
  BY <1>1, <1>3, QuietClosing DEF MaybePersistDependentManifestIndex, Goto, Auditing
<1>4. CASE Rename(t, NodeOf(t))
  BY <1>1, <1>4, QuietClosing DEF Rename, Goto, Auditing, Writes
<1>5. CASE SyncDirectory(t)
  BY <1>1, <1>5, QuietClosing DEF SyncDirectory, Goto, Auditing
<1>6. QED
  BY <1>2, <1>3, <1>4, <1>5 DEF Put, NodeOf

LEMMA ClosureClosing ==
  ASSUME IInv, CInv, NEW t \in Thread, InvalidatedCheckpointClosure(t)
  PROVE  Closing(t)'
<1>1. /\ Closing(t) /\ DependentsListed /\ FunctionType /\ Of(t)' = Of(t)
      /\ pc[t] = "closure" /\ call[t].op = "audit" /\ UNCHANGED <<call, since, raced>>
  BY DEF CInv, LInv, IInv, Fits, Plan, InvalidatedCheckpointClosure, Of
<1>2. level[t] \subseteq Checkpoint /\ since[t].acked \subseteq Acked
  BY <1>1 DEF IInv, Fits, Asks, Knows
<1>3. ASSUME NEW p \in Doomed(t) \ (level[t] \cup raced), NEW k \in since[t].acked, IsParent(p, k)
      PROVE  k \in Doomed(t)
  BY <1>1, <1>3 DEF Closing, Auditing
<1>4. CASE level[t] = {} /\ answer' = [answer EXCEPT ![t] =
                                         [kind |-> "invalidates", those |-> coming[t]]]
             /\ Goto(t, "node") /\ UNCHANGED <<level, coming>>
  <2>1. answer'[t].those \cup {Of(t)} = Doomed(t) /\ pc'[t] = "node"
    BY <1>1, <1>4 DEF FunctionType, Goto, Doomed
  <2>2. QED
    BY <1>1, <1>3, <1>4, <2>1 DEF Closing, Auditing
<1>5. CASE UNCHANGED <<pc, answer>>
  <2>1. PICK q \in level[t] :
          /\ level' = [level EXCEPT ![t] = (@ \ {q}) \cup (files.deps[q] \ Doomed(t))]
          /\ coming' = [coming EXCEPT ![t] = @ \cup (files.deps[q] \ Doomed(t))]
    BY <1>1, <1>5 DEF InvalidatedCheckpointClosure, Doomed, Goto, FunctionType
  <2>2. /\ level'[t] = (level[t] \ {q}) \cup (files.deps[q] \ Doomed(t))
        /\ Doomed(t)' = Doomed(t) \cup files.deps[q]
    BY <1>1, <2>1 DEF FunctionType, Doomed
  <2>3. ASSUME NEW p \in Doomed(t)' \ (level'[t] \cup raced), NEW k \in since[t].acked, IsParent(p, k)
        PROVE  k \in Doomed(t)'
    <3>1. p \in Doomed(t) /\ (p \notin level[t] \/ p = q)
      BY <2>2
    <3>2. CASE p \notin level[t]
      BY <1>3, <2>2, <2>3, <3>1, <3>2
    <3>3. CASE p = q
      BY <1>1, <1>2, <2>2, <2>3, <3>3 DEF DependentsListed
    <3>4. QED
      BY <3>1, <3>2, <3>3
  <2>4. QED
    BY <1>1, <1>5, <2>3 DEF Closing, Auditing
<1>6. QED
  BY <1>4, <1>5 DEF InvalidatedCheckpointClosure

LEMMA StepClosing ==
  ASSUME IInv, CInv, NEW t \in Thread, Step(t)
  PROVE  Closing(t)'
<1>1. Closing(t) /\ Plan(t) /\ FunctionType
  BY DEF CInv, IInv, Fits
<1>2. CASE Return(t) \/ Drop(t) \/ NodeLinked(t) \/ Crash(t)
  BY <1>2, EndClosing DEF Return, Drop, NodeLinked, Crash
<1>3. CASE AddFrame(t) \/ Finalize(t) \/ PayloadStored(t)
  BY <1>1, <1>3, QuietClosing DEF AddFrame, Finalize, PayloadStored, FunctionType, Goto, Auditing
<1>4. CASE ManifestStored(t)
  <2>1. CASE call[t].op = "create"
    BY <1>1, <1>4, <2>1, QuietClosing DEF ManifestStored
  <2>2. CASE call[t].op # "create"
    BY <1>4, <2>2, EndClosing DEF ManifestStored
  <2>3. QED
    BY <2>1, <2>2
<1>5. CASE CallFails(t)
  <2>1. CASE call[t].op = "upload"
    BY <1>1, <1>5, <2>1, QuietClosing DEF CallFails
  <2>2. CASE call[t].op # "upload"
    BY <1>5, <2>2, EndClosing DEF CallFails
  <2>3. QED
    BY <2>1, <2>2
<1>6. CASE GetManifest(t) \/ GetPayload(t)
  <2>1. pc[t] \in Auditing /\ UNCHANGED <<call, walking, since, raced>>
    BY <1>6 DEF GetManifest, GetPayload, Auditing
  <2>2. CASE UNCHANGED answer
    BY <1>1, <2>1, <2>2, QuietClosing
  <2>3. CASE ~UNCHANGED answer
    <3>1. \/ Answer(t, NotFound) \/ Answer(t, [kind |-> "dangling"])
          \/ Answer(t, [kind |-> "loaded"])
      BY <1>6, <2>3 DEF GetManifest, GetPayload
    <3>2. QED
      BY <1>1, <3>1, AnswerClosing DEF NotFound
  <2>4. QED
    BY <2>2, <2>3
<1>7. CASE GetCheckpointProvenance(t)
  <2>1. pc[t] = "query" /\ call[t].op = "query" /\ UNCHANGED <<call, since, raced>>
    BY <1>1, <1>7 DEF GetCheckpointProvenance, Plan
  <2>2. CASE UNCHANGED answer
    BY <1>1, <2>1, <2>2 DEF Closing, Of
  <2>3. CASE ~UNCHANGED answer
    <3>1. Answer(t, NotFound) \/ Answer(t, [kind |-> "chain", nodes |-> walk[t]])
      BY <1>7, <2>3 DEF GetCheckpointProvenance
    <3>2. QED
      BY <1>1, <3>1, AnswerClosing DEF NotFound
  <2>4. QED
    BY <2>2, <2>3
<1>8. QED
  BY <1>2, <1>3, <1>4, <1>5, <1>6, <1>7, CallClosing, PutClosing, ClosureClosing DEF Step

LEMMA CInvNext ==
  ASSUME IInv, CInv, [Next]_vars
  PROVE  CInv'
<1>1. LInv
  BY DEF CInv
<1>2. CASE UNCHANGED vars
  <2>1. ASSUME NEW t \in Thread PROVE Lists(t)' /\ Closing(t)'
    BY <1>2 DEF CInv, LInv, Lists, AllListed, Kept, Current, Closing, Doomed, Of, NextParent, vars, stores, walking
  <2>2. DependentsListed' /\ Apart'
    BY <1>1, <1>2 DEF LInv, DependentsListed, Apart, Rewriting, NextParent, Of, Acked, vars, stores,
                      history
  <2>3. QED
    BY <2>1, <2>2 DEF CInv, LInv
<1>3. CASE Next
  <2>1. PICK t \in Thread : Step(t)
    BY <1>3 DEF Next, Step
  <2>2. Lists(t)' /\ Closing(t)' /\ DependentsListed' /\ Apart' /\ Extends(t)
    BY <1>1, <2>1, StepLists, StepClosing, StepListed, StepApart, StepExtends
  <2>3. ASSUME NEW u \in Thread \ {t} PROVE Lists(u)' /\ Closing(u)'
    <3>1. Untouched(u) /\ Closing(u) /\ u # t
      BY <2>1, StepUntouched DEF CInv
    <3>2. Lists(u)'
      BY <1>1, <2>2, <3>1, UntouchedLists
    <3>3. QED
      BY <2>2, <3>1, <3>2, UntouchedClosing DEF Extends
  <2>4. QED
    BY <2>2, <2>3 DEF CInv, LInv
<1>4. QED
  BY <1>2, <1>3

LEMMA CInvInit == Init => CInv
<1>1. SUFFICES ASSUME Init PROVE CInv
  OBVIOUS
<1>2. DependentsListed /\ Apart
  BY <1>1 DEF Init, DependentsListed, Apart, Rewriting, NoFiles, Acked
<1>3. ASSUME NEW t \in Thread PROVE Lists(t) /\ Closing(t)
  <2>1. pc[t] = "idle" /\ answer[t] = NoAnswer
    BY <1>1 DEF Init
  <2>2. QED
    BY <2>1 DEF Lists, Early, NodePuts, Closing, Auditing, NoAnswer
<1>4. QED
  BY <1>2, <1>3 DEF CInv, LInv

LEMMA CInvAlways == Spec => []CInv
<1>1. IInv /\ CInv /\ [Next]_vars => CInv'
  BY CInvNext
<1>2. QED
  BY <1>1, CInvInit, IInvAlways, PTL DEF Spec

\* But for a parent whose index two threads rewrote at once, the index has exactly
\* what it should: whatever was acknowledged, and nothing that is not there, though
\* calls before it failed or died halfway.
THEOREM DependentsAlwaysListed == Spec => []DependentsListed
<1>1. CInv => DependentsListed
  BY DEF CInv, LInv
<1>2. QED
  BY CInvAlways, <1>1, PTL

\* Then an audit misses none of the checkpoints that depend on the one that
\* drifted, directly or not, and were acknowledged before it began, while others
\* go on storing; only behind a parent whose index was raced it may.
THEOREM ClosureAlwaysComplete == Spec => []ClosureComplete
<1>1. CInv => ClosureComplete
  BY DEF CInv, Closing, ClosureComplete
<1>2. QED
  BY CInvAlways, <1>1, PTL
=============================================================================
