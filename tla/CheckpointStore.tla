--------------------------- MODULE CheckpointStore ---------------------------
(***************************************************************************)
(* The files of one session's checkpoints (runtime/platform): payloads and *)
(* manifests, the index of dependents beside them                          *)
(* (local_filesystem_checkpoint_store.cc), the nodes of the provenance DAG *)
(* (local_merkle_dag_store.cc), and the calls that put them, by threads of *)
(* any processes that share no lock.                                       *)
(*                                                                         *)
(* A file gets its content at one instant, as AtomicFile says, and is on   *)
(* the medium when its directory has been synced after that. A checkpoint  *)
(* stands for its manifest and that manifest's hash, a content for its     *)
(* own: hashes do not collide, and a manifest's bytes follow from its hash.*)
(***************************************************************************)
EXTENDS Naturals, Sequences

CONSTANTS
  Checkpoint,
  Content,       \* payloads, and what arrives instead of one
  Body,          \* Body[k]: the payload of checkpoint k
  Parents,       \* Parents[k]: the parent_hashes of k's manifest, in order
  Thread

ASSUME CheckpointsAssumption ==
  /\ Body \in [Checkpoint -> Content]
  /\ Parents \in [Checkpoint -> Seq(Checkpoint)]

VARIABLES
  files,         \* the files, by directory, as every process sees them
  disk,          \* the same as the medium is known to have them
  pc,
  call,          \* the call a thread is in, about a checkpoint
  bytes,         \* the payload it puts
  at,            \* the parents whose index it has been through
  listed         \* the dependents it read in the index of the next one

stores == <<files, disk>>

\* An audit certificate is a node of the DAG too.
Certificate(k) == <<k>>
Node == Checkpoint \cup {Certificate(k) : k \in Checkpoint}
NodeParents(n) == IF n \in Checkpoint THEN Parents[n] ELSE n

Directory == {"payloads", "manifests", "deps", "nodes"}
NoFiles == [payloads |-> {}, manifests |-> {}, deps |-> [k \in Checkpoint |-> {}], nodes |-> {}]

Of(t) == call[t].about

Goto(t, label) == pc' = [pc EXCEPT ![t] = label]

\* The file is there already, with these bytes: the call says OK without writing.
PutPayload(t) ==
  /\ pc[t] = "payload"
  /\ Goto(t, IF bytes[t] \in files.payloads THEN "payload stored" ELSE "write payload")
  /\ UNCHANGED <<stores, call, bytes, at, listed>>

PutManifestUnindexed(t) ==                                     \* mutant
  /\ pc[t] = "manifest"
  /\ Goto(t, IF Of(t) \in files.manifests THEN "stored" ELSE "write manifest")
  /\ UNCHANGED <<stores, call, bytes, at, listed>>

\* A manifest that is there already still has to be in the index.
PutManifest(t) ==
  /\ pc[t] = "manifest"
  /\ Goto(t, IF Of(t) \in files.manifests THEN "index" ELSE "write manifest")
  /\ UNCHANGED <<stores, call, bytes, at, listed>>

NextParent(t) == Parents[Of(t)][at[t] + 1]

\* A manifest that cannot be decoded is filed nowhere, as if it had no parents.
\* One parent after the other: its index is read, and rewritten with the child
\* unless that is in it; nothing keeps others from rewriting it in between.
MaybePersistDependentManifestIndex(t) ==
  /\ pc[t] = "index"
  /\ \/ /\ at[t] = Len(Parents[Of(t)])
        /\ Goto(t, "stored")
        /\ UNCHANGED <<at, listed>>
     \/ /\ at[t] < Len(Parents[Of(t)])
        /\ Of(t) \in files.deps[NextParent(t)]
        /\ at' = [at EXCEPT ![t] = @ + 1]
        /\ UNCHANGED <<pc, listed>>
     \/ /\ at[t] < Len(Parents[Of(t)])
        /\ Of(t) \notin files.deps[NextParent(t)]
        /\ listed' = [listed EXCEPT ![t] = files.deps[NextParent(t)]]
        /\ Goto(t, "write index")
        /\ UNCHANGED at
  /\ UNCHANGED <<stores, call, bytes>>

\* LocalMerkleDagStore::Put of a checkpoint, or of the certificate of its audit.
PutNode(t, n) ==
  /\ pc[t] = "node"
  /\ Goto(t, IF n \in files.nodes THEN "linked" ELSE "write node")
  /\ UNCHANGED <<stores, call, bytes, at, listed>>

Writes == {"write payload", "write manifest", "write index", "write node"}
Syncs == {"sync payload", "sync manifest", "sync index", "sync node"}

\* The files once the rename has been made.
Written(t, n) ==
  CASE pc[t] = "write payload" -> [files EXCEPT !.payloads = @ \cup {bytes[t]}]
    [] pc[t] = "write manifest" -> [files EXCEPT !.manifests = @ \cup {Of(t)}]
    [] pc[t] = "write index" -> [files EXCEPT !.deps[NextParent(t)] = listed[t] \cup {Of(t)}]
    [] pc[t] = "write node" -> [files EXCEPT !.nodes = @ \cup {n}]

\* DurablyWriteFile: the rename, and then the sync of the directory.
Rename(t, n) ==
  /\ pc[t] \in Writes
  /\ files' = Written(t, n)
  /\ Goto(t, CASE pc[t] = "write payload" -> "sync payload"
               [] pc[t] = "write manifest" -> "sync manifest"
               [] pc[t] = "write index" -> "sync index"
               [] pc[t] = "write node" -> "sync node")
  /\ UNCHANGED <<disk, call, bytes, at, listed>>

\* Whatever the directory holds is on the medium, and the call goes on.
SyncDirectory(t) ==
  \/ /\ pc[t] = "sync payload" /\ disk' = [disk EXCEPT !.payloads = files.payloads]
     /\ Goto(t, "payload stored")
     /\ UNCHANGED <<files, call, bytes, at, listed>>
  \/ /\ pc[t] = "sync manifest" /\ disk' = [disk EXCEPT !.manifests = files.manifests]
     /\ Goto(t, "index")
     /\ UNCHANGED <<files, call, bytes, at, listed>>
  \/ /\ pc[t] = "sync index" /\ disk' = [disk EXCEPT !.deps = files.deps]
     /\ Goto(t, "index")
     /\ at' = [at EXCEPT ![t] = @ + 1] /\ listed' = [listed EXCEPT ![t] = {}]
     /\ UNCHANGED <<files, call, bytes>>
  \/ /\ pc[t] = "sync node" /\ disk' = [disk EXCEPT !.nodes = files.nodes]
     /\ Goto(t, "linked")
     /\ UNCHANGED <<files, call, bytes, at, listed>>
=============================================================================
