----------------------------- MODULE Checkpoints -----------------------------
(***************************************************************************)
(* Who puts and reads a session's checkpoints: CreateProjectionCheckpoint  *)
(* and LoadProjectionCheckpoint (dpm/checkpointed_projection.cc), the      *)
(* CheckpointUploadSession (platform/checkpoint/upload_session.cc), the    *)
(* audit, which looks for whatever a checkpoint that drifted takes with it *)
(* (dpm/projection_replay_auditor.cc), and the query for a checkpoint's    *)
(* provenance (platform/provenance/provenance_query.cc).                   *)
(***************************************************************************)
EXTENDS CheckpointStore

CONSTANTS
  CallsOf,       \* CallsOf[t]: the calls t may make
  Frames,        \* how many of the smallest frames a payload is
  Damaged,       \* a payload of which a frame arrived damaged
  Faults,        \* which of AllFaults may happen
  MaxFaults      \* bound: faults in a behaviour

VARIABLES
  got,           \* got[t]: frames an upload has
  level, coming, \* checkpoints a walk has to look at, and what it goes on to
  walk,          \* nodes a provenance query has been through
  created, uploaded,  \* history: checkpoints for which a call returned OK
  raced,         \* history: parents whose index two threads rewrote at once
  since,         \* since[t]: these sets when t's call began
  answer, faults

walking == <<level, coming, walk>>
history == <<created, uploaded>>
vars == <<stores, pc, call, bytes, at, listed, got, walking, history, raced, since, answer, faults>>

Ops == {"create", "upload", "load", "audit", "query"}
CallType == [op : Ops, about : Checkpoint]
AllFaults == {"error", "crash", "damage"}

ASSUME CallsAssumption == CallsOf \in [Thread -> SUBSET CallType]
ASSUME FramesAssumption == Frames \in Nat \ {0}
ASSUME DamagedAssumption == Damaged \in Content /\ \A k \in Checkpoint : Body[k] # Damaged
ASSUME FaultsAssumption == Faults \subseteq AllFaults /\ MaxFaults \in Nat

NoCall == [op |-> "none"]
NoAnswer == [kind |-> "none"]
NotFound == [kind |-> "not found"]
Nothing == [created |-> {}, acked |-> {}]
Acked == created \cup uploaded

Init ==
  /\ files = NoFiles /\ disk = NoFiles
  /\ pc = [t \in Thread |-> "idle"] /\ call = [t \in Thread |-> NoCall]
  /\ bytes = [t \in Thread |-> Damaged]
  /\ at = [t \in Thread |-> 0] /\ listed = [t \in Thread |-> {}]
  /\ got = [t \in Thread |-> 0]
  /\ level = [t \in Thread |-> {}] /\ coming = [t \in Thread |-> {}]
  /\ walk = [t \in Thread |-> <<>>]
  /\ created = {} /\ uploaded = {} /\ raced = {}
  /\ since = [t \in Thread |-> Nothing] /\ answer = [t \in Thread |-> NoAnswer]
  /\ faults = 0

Begin == [op \in Ops |->
  CASE op = "create" -> "payload" [] op = "upload" -> "frames" [] op = "query" -> "query"
    [] op \in {"load", "audit"} -> "get manifest"]

\* Whoever names parents has had their hashes from the calls that stored them.
Call(t) ==
  /\ pc[t] = "idle"
  /\ \E c \in CallsOf[t] :
       /\ c.op \in {"create", "upload"} =>
            \A i \in 1..Len(Parents[c.about]) : Parents[c.about][i] \in Acked
       /\ call' = [call EXCEPT ![t] = c]
       /\ bytes' = [bytes EXCEPT ![t] = Body[c.about]]
       /\ level' = [level EXCEPT ![t] = IF c.op \in {"audit", "query"} THEN {c.about} ELSE {}]
       /\ Goto(t, Begin[c.op])
  /\ since' = [since EXCEPT ![t] = [created |-> created, acked |-> Acked]]
  /\ UNCHANGED <<stores, at, listed, got, coming, walk, history, raced, answer, faults>>

\* A call is over, and nothing of it is kept.
End(t) ==
  /\ Goto(t, "idle")
  /\ call' = [call EXCEPT ![t] = NoCall] /\ bytes' = [bytes EXCEPT ![t] = Damaged]
  /\ at' = [at EXCEPT ![t] = 0] /\ listed' = [listed EXCEPT ![t] = {}]
  /\ got' = [got EXCEPT ![t] = 0]
  /\ level' = [level EXCEPT ![t] = {}] /\ coming' = [coming EXCEPT ![t] = {}]
  /\ walk' = [walk EXCEPT ![t] = <<>>]
  /\ since' = [since EXCEPT ![t] = Nothing] /\ answer' = [answer EXCEPT ![t] = NoAnswer]

Answer(t, a) == answer' = [answer EXCEPT ![t] = a] /\ Goto(t, "return")

Return(t) == pc[t] = "return" /\ End(t) /\ UNCHANGED <<stores, history, raced, faults>>

Fault(kind) == kind \in Faults /\ faults < MaxFaults /\ faults' = faults + 1

-----------------------------------------------------------------------------
(* CheckpointUploadSession *)

AddFramePastEnd(t) ==                                          \* mutant
  /\ pc[t] = "frames"
  /\ \E offset \in 0..Frames, size \in 1..Frames :
       offset = got[t] /\ got' = [got EXCEPT ![t] = offset + size]
  /\ UNCHANGED <<stores, pc, call, bytes, at, listed, walking, history, raced, since, answer, faults>>

\* Frames come in any order, twice or not at all; one that does not continue what
\* is there, or goes past the declared size, is refused.
AddFrame(t) ==
  /\ pc[t] = "frames"
  /\ \E offset \in 0..Frames - 1, size \in 1..Frames :
       /\ offset = got[t] /\ offset + size <= Frames
       /\ got' = [got EXCEPT ![t] = offset + size]
  /\ \/ UNCHANGED <<bytes, faults>>
     \/ Fault("damage") /\ bytes' = [bytes EXCEPT ![t] = Damaged]
  /\ UNCHANGED <<stores, pc, call, at, listed, walking, history, raced, since, answer>>

FinalizeManifestOnly(t) ==                                     \* mutant
  /\ pc[t] = "frames" /\ got[t] = Frames /\ bytes[t] = Body[Of(t)]
  /\ Goto(t, "manifest")
  /\ UNCHANGED <<stores, call, bytes, at, listed, got, walking, history, raced, since, answer, faults>>

\* All frames are there and hash to what was announced: the payload is put.
Finalize(t) ==
  /\ pc[t] = "frames" /\ got[t] = Frames /\ bytes[t] = Body[Of(t)]
  /\ Goto(t, "payload")
  /\ UNCHANGED <<stores, call, bytes, at, listed, got, walking, history, raced, since, answer, faults>>

\* The session is given up, after whatever went wrong.
Drop(t) == pc[t] = "frames" /\ End(t) /\ UNCHANGED <<stores, history, raced, faults>>

-----------------------------------------------------------------------------
(* The steps that put, and what follows them *)

\* A thread has read the index of p and is about to rewrite it.
Rewriting(t, p) == pc[t] = "write index" /\ NextParent(t) = p

Put(t) ==
  LET n == IF call[t].op = "audit" THEN Certificate(Of(t)) ELSE Of(t) IN
  /\ PutPayload(t) \/ PutManifest(t) \/ MaybePersistDependentManifestIndex(t)
       \/ PutNode(t, n) \/ Rename(t, n) \/ SyncDirectory(t)
  /\ raced' = raced \cup
       {p \in Checkpoint : Rewriting(t, p)' /\ \E u \in Thread \ {t} : Rewriting(u, p)}
  /\ UNCHANGED <<got, walking, history, since, answer, faults>>

PayloadStored(t) ==
  /\ pc[t] = "payload stored"
  /\ Goto(t, "manifest")
  /\ UNCHANGED <<stores, call, bytes, at, listed, got, walking, history, raced, since, answer, faults>>

ManifestStoredUnlinked(t) ==                                   \* mutant
  /\ pc[t] = "stored"
  /\ IF call[t].op = "create"
     THEN created' = created \cup {Of(t)} /\ UNCHANGED uploaded
     ELSE uploaded' = uploaded \cup {Of(t)} /\ UNCHANGED created
  /\ End(t)
  /\ UNCHANGED <<stores, raced, faults>>

\* What was created gets its node; the upload is done.
ManifestStored(t) ==
  /\ pc[t] = "stored"
  /\ IF call[t].op = "create"
     THEN /\ Goto(t, "node")
          /\ UNCHANGED <<call, bytes, at, listed, got, walking, history, raced, since, answer>>
     ELSE uploaded' = uploaded \cup {Of(t)} /\ End(t) /\ UNCHANGED created
  /\ UNCHANGED <<stores, raced, faults>>

NodeLinked(t) ==
  /\ pc[t] = "linked"
  /\ created' = IF call[t].op = "create" THEN created \cup {Of(t)} ELSE created
  /\ End(t)
  /\ UNCHANGED <<stores, uploaded, raced, faults>>

-----------------------------------------------------------------------------
(* LoadProjectionCheckpoint and the audit *)

GetManifest(t) ==
  /\ pc[t] = "get manifest"
  /\ IF Of(t) \in files.manifests THEN Goto(t, "get payload") /\ UNCHANGED answer
     ELSE Answer(t, NotFound)
  /\ UNCHANGED <<stores, call, bytes, at, listed, got, walking, history, raced, since, faults>>

\* An audit goes on to replay the events, and the projection is what it was or not.
GetPayload(t) ==
  /\ pc[t] = "get payload"
  /\ IF Body[Of(t)] \notin files.payloads THEN Answer(t, [kind |-> "dangling"])
     ELSE \/ call[t].op = "load" /\ Answer(t, [kind |-> "loaded"])
          \/ call[t].op = "audit" /\ Goto(t, "node") /\ UNCHANGED answer
          \/ call[t].op = "audit" /\ Goto(t, "closure") /\ UNCHANGED answer
  /\ UNCHANGED <<stores, call, bytes, at, listed, got, walking, history, raced, since, faults>>

ClosureOneDeep(t) ==                                           \* mutant
  /\ pc[t] = "closure"
  /\ answer' = [answer EXCEPT ![t] =
       [kind |-> "invalidates", those |-> UNION {files.deps[k] : k \in level[t]}]]
  /\ Goto(t, "node")
  /\ UNCHANGED <<stores, call, bytes, at, listed, got, walking, history, raced, since, faults>>

\* One checkpoint's dependents at a time; with what they are, the certificate goes
\* to the ledger, and its node is put.
InvalidatedCheckpointClosure(t) ==
  /\ pc[t] = "closure"
  /\ \/ \E k \in level[t] :
          LET found == files.deps[k] \ (coming[t] \cup {Of(t)}) IN
          /\ level' = [level EXCEPT ![t] = (@ \ {k}) \cup found]
          /\ coming' = [coming EXCEPT ![t] = @ \cup found]
          /\ UNCHANGED <<pc, answer>>
     \/ /\ level[t] = {}
        /\ answer' = [answer EXCEPT ![t] = [kind |-> "invalidates", those |-> coming[t]]]
        /\ Goto(t, "node")
        /\ UNCHANGED <<level, coming>>
  /\ UNCHANGED <<stores, call, bytes, at, listed, got, walk, history, raced, since, faults>>

-----------------------------------------------------------------------------
(* GetCheckpointProvenance *)

Been(t) == {walk[t][i] : i \in 1..Len(walk[t])}

\* Level by level, in the order of the hashes, each node once.
GetCheckpointProvenance(t) ==
  /\ pc[t] = "query"
  /\ \/ \E n \in level[t] \cap files.nodes :
          /\ walk' = [walk EXCEPT ![t] = Append(@, n)]
          /\ level' = [level EXCEPT ![t] = @ \ {n}]
          /\ coming' = [coming EXCEPT ![t] = @ \cup {NodeParents(n)[i] : i \in 1..Len(NodeParents(n))}]
          /\ UNCHANGED <<pc, answer>>
     \/ /\ level[t] \ files.nodes # {}
        /\ Answer(t, NotFound)
        /\ UNCHANGED walking
     \/ /\ level[t] = {} /\ coming[t] \ Been(t) # {}
        /\ level' = [level EXCEPT ![t] = coming[t] \ Been(t)]
        /\ coming' = [coming EXCEPT ![t] = {}]
        /\ UNCHANGED <<pc, walk, answer>>
     \/ /\ level[t] = {} /\ coming[t] \ Been(t) = {}
        /\ Answer(t, [kind |-> "chain", nodes |-> walk[t]])
        /\ UNCHANGED walking
  /\ UNCHANGED <<stores, call, bytes, at, listed, got, history, raced, since, faults>>

-----------------------------------------------------------------------------
(* Failures *)

\* What an error or a death leaves of the file that was being written.
Leaves(t) ==
  IF pc[t] \in Writes
  THEN files' \in {files, Written(t, IF call[t].op = "audit" THEN Certificate(Of(t)) ELSE Of(t))}
  ELSE UNCHANGED files

\* Only an upload session outlives a call that failed: Finalize may be called again.
CallFails(t) ==
  /\ pc[t] \notin {"idle", "frames", "return"} /\ Fault("error")
  /\ Leaves(t)
  /\ IF call[t].op = "upload"
     THEN /\ Goto(t, "frames")
          /\ at' = [at EXCEPT ![t] = 0] /\ listed' = [listed EXCEPT ![t] = {}]
          /\ UNCHANGED <<call, bytes, got, walking, since, answer>>
     ELSE End(t)
  /\ UNCHANGED <<disk, history, raced>>

Crash(t) ==
  /\ pc[t] \notin {"idle", "return"} /\ Fault("crash")
  /\ Leaves(t)
  /\ End(t)
  /\ UNCHANGED <<disk, history, raced>>

Next == \E t \in Thread :
  \/ Call(t) \/ Return(t)
  \/ AddFrame(t) \/ Finalize(t) \/ Drop(t)
  \/ Put(t) \/ PayloadStored(t) \/ ManifestStored(t) \/ NodeLinked(t)
  \/ GetManifest(t) \/ GetPayload(t) \/ InvalidatedCheckpointClosure(t)
  \/ GetCheckpointProvenance(t)
  \/ CallFails(t) \/ Crash(t)

Spec == Init /\ [][Next]_vars

-----------------------------------------------------------------------------
(* Properties *)

Labels == Writes \cup Syncs \cup
  {"idle", "frames", "payload", "payload stored", "manifest", "index", "stored", "node",
   "linked", "get manifest", "get payload", "closure", "query", "return"}

FilesType ==
  [payloads : SUBSET Content, manifests : SUBSET Checkpoint,
   deps : [Checkpoint -> SUBSET Checkpoint], nodes : SUBSET Node]

AnswerType ==
  {NoAnswer, NotFound, [kind |-> "dangling"], [kind |-> "loaded"]}
    \cup [kind : {"invalidates"}, those : SUBSET Checkpoint]
    \cup [kind : {"chain"}, nodes : Seq(Node)]

TypeOK ==
  /\ files \in FilesType /\ disk \in FilesType
  /\ pc \in [Thread -> Labels] /\ call \in [Thread -> CallType \cup {NoCall}]
  /\ bytes \in [Thread -> Content] /\ got \in [Thread -> 0..Frames]
  /\ at \in [Thread -> Nat] /\ listed \in [Thread -> SUBSET Checkpoint]
  /\ level \in [Thread -> SUBSET Node] /\ coming \in [Thread -> SUBSET Node]
  /\ walk \in [Thread -> Seq(Node)]
  /\ created \subseteq Checkpoint /\ uploaded \subseteq Checkpoint /\ raced \subseteq Checkpoint
  /\ since \in [Thread -> [created : SUBSET Checkpoint, acked : SUBSET Checkpoint]]
  /\ answer \in [Thread -> AnswerType]
  /\ faults \in 0..MaxFaults
  /\ \A t \in Thread :
       /\ pc[t] # "idle" => call[t] \in CallType /\ at[t] <= Len(Parents[Of(t)])
       /\ pc[t] \in {"write index", "sync index"} => at[t] < Len(Parents[Of(t)])

IsParent(p, k) == \E i \in 1..Len(Parents[k]) : Parents[k][i] = p

\* Nobody finds a manifest whose payload is not there, whoever is storing what,
\* fails or dies (upload_session.cc:127-131, checkpoint_store.h:46-52).
ManifestsResolve == \A k \in files.manifests : Body[k] \in files.payloads

\* A checkpoint that a call said is stored is among the dependents of its parents,
\* though a call before it failed halfway, and the index has nothing else
\* (checkpoint_store.h:116-119). Only of a parent whose index two threads have
\* rewritten at once it may have lost one.
DependentsListed ==
  /\ \A k \in Acked, p \in Checkpoint \ raced : IsParent(p, k) => k \in files.deps[p]
  /\ \A p \in Checkpoint : \A k \in files.deps[p] : k \in files.manifests /\ IsParent(p, k)

\* An audit that finds a checkpoint drifted invalidates every checkpoint that
\* depends on it, directly or not, and was acknowledged before the audit began; only
\* behind a parent whose index two threads have rewritten at once it may miss some.
ClosureComplete ==
  \A t \in Thread : answer[t].kind = "invalidates" =>
    LET invalid == answer[t].those \cup {Of(t)} IN
    \A p \in invalid \ raced : \A k \in since[t].acked : IsParent(p, k) => k \in invalid

\* A set of checkpoints that has the parents of each.
Closed(K) == \A k \in K, p \in Checkpoint : IsParent(p, k) => p \in K

\* Whatever was acknowledged is found: a load of it does not fail for lack of a
\* file, nor does the query for the provenance of a checkpoint that was created
\* on created ones.
AckedFound ==
  \A t \in Thread : answer[t].kind \in {"not found", "dangling"} =>
    \/ call[t].op # "query" /\ Of(t) \notin since[t].acked
    \/ call[t].op = "query" /\ ~\E K \in SUBSET since[t].created : Closed(K) /\ Of(t) \in K

\* What a call said is stored is on the medium (durable_writer.h:37). Not so when
\* it found the file there and another call has not synced the directory yet.
AckedOnDisk ==
  \A k \in Acked : k \in disk.manifests /\ Body[k] \in disk.payloads

\* A provenance chain has every node before its parents (provenance_query.h:28-29:
\* topologically sorted). Not so where paths of different length lead to a node.
TopologicallySorted ==
  \A t \in Thread : answer[t].kind = "chain" =>
    \A i, j \in 1..Len(answer[t].nodes) :
      IsParent(answer[t].nodes[i], answer[t].nodes[j]) => j < i
=============================================================================
