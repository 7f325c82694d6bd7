# VET: verification project

TLA+ models, TLC configurations and TLAPS proofs kept beside VET, a sidecar that records
an agent's memory as an append-only log of events and derives projections, checkpoints,
audit certificates and handoffs from it. The repository is a fork of LiteRT-LM; its own
logic lies in `runtime/platform` (storage), `runtime/dpm` (deterministic projection
memory) and `tools/vet` (the command line). Of what it inherits, the part with a protocol
is the execution of sessions: `runtime/core`, `runtime/framework`. Line numbers refer to
the source tree, in sections 3 to 6 often to the file named beside them.

## 1. Inventory

### 1.1 Storage (`runtime/platform`)

| component | state | operations | who shares it | what is hard |
|---|---|---|---|---|
| event log, `eventlog/posix_event_sink.cc` | one framed file per session | `AppendRecord`, `ForEachRecord(Range)`, `GenerationToken` | threads of one process (a mutex per path), processes (an `fcntl` lock) | two kinds of lock that each cover half of the callers; closing any descriptor drops a process's `fcntl` lock; short writes; power loss |
| branches, same file | a pointer file per branch: parent and number of records | `CreateBranch`, reads that follow pointers | as above, but a reader holds no lock from one log to the next | creation while the parent and the branch are appended to; a depth bound met by reads |
| durable writer, `checkpoint/durable_writer.cc` | target file, temporary files, directory | `DurablyWriteFile`, `DurablyCreateNewFile` | anyone | the order of write, sync, rename or link, directory sync; error paths; power loss between any two |
| checkpoint store, `checkpoint/local_filesystem_checkpoint_store.cc` | payloads and manifests by hash, an index of dependents | `PutPayload`, `PutManifest`, queries | processes, no lock | the index is read, changed and rewritten (98-132): lost updates; a crash between manifest and index |
| upload session, `checkpoint/upload_session.cc` | phase, the frames there are | `BeginManifest`, `AddFrame`, `Finalize` | one caller | frames in any order; a failed `Finalize` tried again, or given up when the payload is already stored |
| audit ledger, `audit/local_filesystem_audit_ledger.cc` | certificates, and the name of the latest of each checkpoint | `PutCertificate`, `LatestForCheckpoint`, `List...` | processes, no lock | two writes per certificate, compare-then-write, listings that meet temporary files |
| provenance, `provenance/` | nodes by hash | `Put`, `Get`, queries | processes | a bounded search |
| hashes, signers, codecs, manifests | none | pure | - | formats |

### 1.2 Memory (`runtime/dpm`)

| component | state | operations | who shares it | what is hard |
|---|---|---|---|---|
| decoded log, `event_sourced_log.cc` | two caches keyed by the sink's generation token | `Append`, `GetAllEvents`, `GetProjectionEventLines`, ranges, `GetEventsSince` | threads through the object's mutex; other processes append behind its back | a token probed before the records are read; caches kept or dropped when a call fails |
| corrections, `correction_protocol.cc` | the log, and an index by checkpoint beside it | `AppendCorrectionEvent`, `LoadForCheckpoint` | processes, no lock | two stores and several files per correction; the reader takes one of the stores |
| decision gate, `checkpoint_decision_gate.cc`, `audited_checkpoint_loader.cc` | none of its own | `LoadOrReplayAuditedProjectionCheckpointForDecision` | reads what others write | corrections, certificate and checkpoint are read at three moments |
| checkpointed projection, `checkpointed_projection.cc` | the checkpoint store | create, roll up, load | processes | order of the files it stores |
| evidence view, checkpoint policy, prefix cache | a list behind a mutex in the last | pure functions of a log | - | boundaries |

### 1.3 The command line (`tools/vet`)

`vet` appends events and corrections, writes an identity document, and builds and verifies
handoff bundles, each command a process of its own. It reads the log, the document and the
digest of the log's bytes at different moments (`vet_main.cc` 729-749), numbers a step by
the length the log had before the append (335), and truncates and writes its two other
files in place. What is hard is that nothing holds from one read to the next.
`tools/agent_hooks/dpm_gate.py` keeps a state file of its own.

### 1.4 Sessions (`runtime/core`, `runtime/framework`)

| component | state | operations | who shares it | what is hard |
|---|---|---|---|---|
| thread pool, `framework/threadpool.cc` | a queue, its threads | `Schedule`, `WaitUntilDone` | anyone, a mutex | a thread that cannot be made; a wait that also waits for who calls it |
| execution manager, `resource_management/threaded_execution_manager.cc` | sessions, tasks, what follows what, two pools | `Add...Task`, `Cancel...`, `ReleaseSession`, the tasks themselves | callers' threads, the execution thread, the callback thread | states change under one mutex but calls out of it; cancellation meets the end of a task; callbacks add tasks |
| resource manager, `resource_management/resource_manager.cc` | whose context the executor has loaded, contexts shared by clones | `AcquireExecutor...`, `CloneContextHandler`, `LockedLlmExecutor` | the execution thread, which runs the tasks and the clones among them; callers' threads, which create and release contexts and read and set their steps | what is loaded lives in the executor and nowhere else; two clones share tokens until one cuts them; a clone looks at its source with the lock and without |
| session, `core/session_advanced.cc` | a phase, the last tasks, checkpoints | prefill, decode, streams, scoring, clone, rewind, cancel | any threads, a mutex | a stream's decode is added by a callback; a rewind waits for its tasks with the mutex held |

Executors, tokenizers, samplers, model files, bindings and builds are numeric code,
wrappers or configuration.

### 1.5 How they interact

    vet, agents
       |  AppendCorrectionEvent          decisions            audits
       v                                    |                    |
    EventSourcedLog --> event sink <-- correction index <-- decision gate --> audit ledger
                            |                 |                  |               |
                            |                 +---- durable writer --------------+
                         branches ---- durable writer            +--> checkpoint store

    sessions --> execution manager --> thread pools
                       |  (tasks)         (execution, callbacks --> callers)
                       v
                resource manager --> executor

The two halves, storage and sessions, do not call each other: what a projection says comes
from an engine that its caller passes in. Nothing above the event log takes a lock that
spans two stores. What keeps the system
correct is the order in which the stores are written and read, and that each file is
replaced in one instant; those two are what the models below are about.

## 2. Modules

| module | models | role |
|---|---|---|
| `EventSink` | `event_sink.h` | abstract: a growing sequence of records; an append or a read acts at one instant |
| `EventLog`, `MCEventLog`, `EventLogProofs` | `posix_event_sink.cc` | one log file, cell by cell, with both locks, faults and power loss |
| `EventSourcedLog`, `MCEventSourcedLog`, `LogViewsProofs` | `event_sourced_log.cc` | the caching view, above `EventSink` and itself an `EventSink` |
| `AtomicFile` | `durable_writer.h` | abstract: a file replaced or created at one instant, kept once acknowledged |
| `DurableFile`, `MC...`, `...Proofs` | `durable_writer.cc` | the system calls of one replacement or creation |
| `BranchSink` | `posix_event_sink.h` 84-119 | abstract: sessions, of which some begin with part of another |
| `BranchLog`, `MCBranchLog`, `LogViewsProofs` | `CreateBranch`, `ForEachRecordImpl` | branches through pointer files |
| `DecisionGate`, `MC...`, `...Proofs` | `correction_protocol.cc`, `local_filesystem_audit_ledger.cc`, `checkpoint_decision_gate.cc`, `audited_checkpoint_loader.cc` | corrections, certificates and decisions over shared directories |
| `CheckpointStore` | `local_filesystem_checkpoint_store.cc`, `local_merkle_dag_store.cc` | operators: payloads, manifests, nodes and the index of dependents, each a file |
| `Checkpoints`, `MC...`, `...Proofs` | `checkpointed_projection.cc`, `upload_session.cc`, `projection_replay_auditor.cc`, `provenance_query.cc` above it | threads that create, upload, load, audit and query checkpoints |
| `VetSession`, `MC...`, `...Proofs` | `tools/vet`, with the codecs' digest and verification | commands as processes over one log, one document and one bundle |
| `ThreadPool` | `threadpool.cc` | operators: a queue and its threads |
| `ExecutionManager` | `threaded_execution_manager.cc` | tasks, over two instances of `ThreadPool` |
| `Sessions`, `MCSessions`, `SessionsProofs` | `session_advanced.cc` | the calls of sessions, over `ExecutionManager` |
| `PrivateTokens` | `resource_manager.h`, from the caller's side | abstract: each session has tokens of its own |
| `SessionContexts`, `MC...`, `...Proofs` | `resource_manager.cc`, and how the executor cuts its tokens | contexts that share one executor and, as clones, their tokens |

They stack: `EventLog` shows that one log is an `EventSink`, so `EventSourcedLog`,
`BranchLog` and `DecisionGate` append and read in one step; `DurableFile` shows that a
published file is an `AtomicFile`, so `BranchLog` and `DecisionGate` publish in one step.
In every module a thread has a program counter whose labels are the points between two
system calls, lock operations or calls of another component; an action is named after the
function, or the part of one, that it models, and `PROJECT.json` maps it to its lines.

**EventLog.** `mutex` is the holder of each process's path mutex, `flock` the `fcntl` lock
of each process (dropped when *any* descriptor of the file is closed, as POSIX says and
as `MemoryMappedFile::Create` provokes), `file` the cells of the page cache, `synced` how
many are on the medium. A write puts cells one at a time, so it may stop anywhere; a
reader maps the file and parses later. `SpellingOf` is the key of the mutex registry
(`path.string()`): sinks with the roots `x` and `./x` take different mutexes for one
file, so exclusion of writers assumes one spelling per process. `SyncLinks` says that
syncing a new file makes its directory entry durable, as ext4 and XFS do and POSIX does
not promise; nobody syncs the log's directory (line 406), and with `SyncLinks = FALSE`
`AckedStaysReadable` does not hold. `open()` and `fcntl()` may fail as `write()` may, and
give back what is held. An inverted or empty range is answered before the log is looked at
(713-723), and is no call here.

**EventSourcedLog.** `log`, the sink's records, grows by other processes at any time. A load probes the
token, then reads; `cache` holds a key and what was decoded. A sink may have no probe
(`Probed`), then nothing is cached. A call that fails leaves the caches as the code does. Its names differ from those of `BranchLog`,
so that `LogViewsProofs` can extend both.

**DurableFile.** A temporary name and inode per call (`UniqueTempSuffix`: a
thread's hash, the steady clock and a counter of the process, 45-54; there is no process id
in it, and that two processes never agree on all three is assumed), contents in `Blocks` pieces, page cache and medium apart, directory entries
`entries` of which the first `kept` survive a power loss.

**BranchLog.** The session a call works on climbs the pointers (`Top`, `ToParent`) and
comes back emitting. Threads of a process share the pointer's mutex; between processes
only `DurablyCreateNewFile`'s link decides. `Disciplined = TRUE` says that callers use a
branch only after its creation has returned to someone. Without it a reader that found
no pointer may go on to the branch's own records without the prefix, and an append may
slip between the check and the publication. `CreateBranch`
accepts a parent at `kMaxBranchDepth`, and the branch cannot be read, where
`posix_event_sink.h` 88-90 and 112-114 suggest refusal; and an existing identity gives
`AlreadyExists` where the header says `InvalidArgument`. The abstract sink does as the
code does.

**DecisionGate.** `log` and `index` are where a correction goes, in this order, `cert`
and `latest` where a certificate goes. `root` is the directory whose existence makes
`LoadForCheckpoint` read the index and not the log (411). Listing a directory takes two
steps: whatever is there when it is opened is read, whatever comes later may be. A file
being replaced has its temporary file in the same directory, which a listing finds: an
empty one is skipped by the index and an error for the ledger, half of one is an error
for both. `litter` is what dead processes leave; it is never removed, so a decision may
fail for ever after (it fails closed). The index of the latest certificate is compared and
then written under no lock: `raced` is history, the checkpoints of which two auditors were
between the two at once, and of those the older certificate may be named. A certificate that
is there already when it is stored again gets OK and says nothing of the index (173), so it
is not taken for acknowledged. A power loss is here no more than all processes
dying, since each publication is durable when it returns.

**Checkpoints.** A checkpoint is what its manifest says: its parents and its payload's
content (`Parents`, `Body`), and a hash stands for it, as if no two contents had the same;
the store does not compute a manifest's hash again either. Each write is one replacement of
a file (`AtomicFile`), but filing a manifest is one more for each parent: read the index,
add, replace. Creating stores payload, manifest, index, node in this order; an upload
stores no node, so a checkpoint made on an uploaded one has no provenance, and a death
between manifest and node leaves one that can be loaded without. A payload arrives in
`Frames` frames, any of which may come damaged, or again. Whether a replay agrees in an
audit is nondeterministic, and what it invalidates is a walk over the index. That an audit
then stores a certificate is `DecisionGate`'s. The index is
read, changed and written under no lock (98-132); `raced` is history, the parents whose index
two threads were rewriting at once, and those may lose a dependent, which the two properties
of the index except. A manifest that cannot be decoded is filed under no parent (106-108), so
it is like one that has none. The bound on a provenance query
(`kMaxProvenanceNodes`) and the order inside a level are left out.

**VetSession.** An append or a load acts at one instant, as `EventLog` shows; but the
digest is of the raw bytes, read under no lock, so `raw` counts half records: a write adds
one when it begins and one when it ends, and a process that dies between them leaves the
file `damaged` for good. `aid` and `handoff` are truncated and then written, so a reader
may find nothing, and of two writers one may leave something that cannot be read.
`disordered` is history: a step was given with `--step-index`, or found while another
command was between finding its own and recording it. Then two events may have one step,
and no handoff of the session verifies from then on.

**ExecutionManager, Sessions.** A task has the states of `TaskState`. Whatever is done with
`session_and_task_lookup_mutex_` held is one step; between two such steps the execution
thread has a program counter (`step`) and so has the callback thread. Callers add tasks in
any order; a session's tasks form a chain, each after the session's last (`Depends`).
A stream is a prefill whose last callback adds the decode. A clone is a task of its
source and the first dependency of its target. `Failures` says what may fail: the executor,
the allocation of a decode's buffer (864, which leaves the task *processing* for good), or
the making of a thread. A task that is lost in the second way is in `lost`; it is `Stuck`
for good, as is whatever waits for it, and nothing else may be. `Uses` bounds which calls are made, to keep each run small.

**SessionContexts.** `executor` is what is loaded; `saved_tokens` and `saved_step` are what
contexts and handlers hold while they are not. The context handlers themselves are not in
the source tree; they are modelled from the calls. An operation has the executor from end
to end, under its lock. A clone does not: it is a task, so there is one at a time, but
while it is under way callers' threads create, release and rewind sessions, and a rewind
loads its session. `CloneContextHandler` looks whether the source has its state and reads it
with no lock (607-610); if not, `CloneLoaded` takes the lock, finds the source loaded or
fails, and reads the step there; the shared tokens are read when the lock is released again
(624), and `FinishClone` makes them and the step a handler of the target's session. It may be
too late for that: the target has been released, or the state was taken from the source
between the look and the read, which fails (`Abandon`). That the read itself may meet a
change halfway is not modelled. `copied` is what the source had when its step was read, which
is what the clone must have however long it takes. The source of a clone is not released
before it ends: the destructor of a session waits for its tasks, of which the clone is one
(the ten minutes after which it gives up are left out); other sessions may be. `Extended`
follows the static executor; the dynamic one keeps a first token that comes alone as pending
and does not count it yet (`llm_litert_compiled_model_executor.cc` 1829-1834). The history `said`
is moved by the actions of `PrivateTokens`, conjoined: each step of the manager is at the
same time a step of sessions that have tokens of their own, and `SessionsArePrivate` says
that the two agree. `Uses = {}` keeps out an input that begins with what was cut by a
rewind (section 5) and a prefill after a reset of tokens that a clone shares.

## 3. Runs

Bounds are the constants of the `.cfg` files and the definitions of the `MC` modules;
each counter they bound (`MaxCalls`, `MaxFaults`, `MaxEvents`, `MaxRecords`, `MaxTasks`,
`MaxAids`, `MaxTokens`) is a guard of the actions it counts. `Blocks` and `Frames` are the
number of pieces a content is written or sent in, and `MaxBranchDepth` the code's
`kMaxBranchDepth`, made small.

| run | what is there | what it shows | states |
|---|---|---|---|
| `EventLogRefine` | 3 threads, 2 processes, 2 calls each, one failed open, lock, write or sync | writers exclude each other, and every call acts at one instant (`ImplementsEventSink`) | 160,524 |
| `EventLogFaults` | the same threads, one call each, two faults of any kind, weak fairness | what was acknowledged on an undamaged log stays readable, what was synced stays, every call returns | 31,995 |
| `EventSourcedLog` | 2 objects (with and without a probe), 3 threads, 2 events, failing sinks | a cache never shows; the object implements the sink it sits on | 669,162 |
| `DurableFile` | 2 writers, 2 calls, 2 blocks, two faults of any kind | the target is whole in memory and on the medium, acknowledged content stays, calls act at one instant, and only a death or a failed `remove` leaves a temporary file | 307,052 |
| `BranchLog` | a root and three branches, one too deep; 3 threads, 2 processes; a fault | what a session that can be read shows only grows, and reads and creations act at one instant (`ImplementsBranchSink`), for callers that are `Disciplined` | 205,739 |
| `DecisionGate` | 2 checkpoints, 2 corrections, 2 certificates; corrector, two auditors, decider; one of them fails or dies | acknowledged corrections block and are replayed; no decision goes by a certificate older than one acknowledged before it began (`LatestControls`), unless two auditors wrote the index at once | 1,892,491 |
| `Checkpoints` | 5 checkpoints: `k2` on `k1`, a rollup `k3` of both, `k4` on `k3` with `k1`'s payload, `k5` on `k1` with `k2`'s; one thread creates, one uploads, loads, audits and queries; one failed call, death or damaged frame | a manifest has its payload; a load, an audit or a query misses nothing that was acknowledged; the index lists it and an audit invalidates everything that depends on what drifted, except under parents whose index both threads rewrote at once | 1,703,427 |
| `VetSession` | `a`: record, correction, init; `b`: record, handoff; `v`: verify; a death | steps are in order while one records at a time; a verified bundle is whole; a rejected one has reason | 421,330 |
| `Sessions` | a session and its clone, 3 tasks, failing executor, buffer and threads; prefill, decode, score, clone, cancel, destroy | a task is in one place and its end is told once; it runs after what it depends on and not if that failed | 1,059,661 |
| `SessionsLive` | one session, 4 tasks, failing executor, buffer and threads; stream, decode, checkpoint, destroy; fairness | every task ends, but for those that are lost and what waits for them; a session outlives its tasks | 29,117 |
| `SessionContexts` | 3 handlers, 2 tokens, up to 2 of them in a session | what is loaded, saved and shared is in one place; sessions are private, also in the middle of a clone | 32,759 |
| `SessionContextsMatch` | the same with `"match"` | **violation**: a token that was said is missing (section 5) | - |

Why the bounds are enough to meet the interesting cases. Two processes, one of them with
two threads, are the least in which both locks of the log matter and a mapping of one
thread drops the lock of another. Bodies of one and three cells let a torn record
swallow the one after it. Two calls per thread let an append follow what a fault left.
Two blocks are the least a file can be torn between. The depth bound of 2 with branches
down to depth 3 lets reads meet it. A correction that mentions two checkpoints is the
least that can be filed in part; the same with two certificates, one granting and one
not, of which either may be stored first, and by two auditors at once. The checkpoints are a diamond with a tail: `k1`
reaches `k3` on two ways, so a walk meets it twice, and payloads are shared between a
checkpoint and one that is made later; `k2` and `k5` are children of `k1` by different
threads. Two commands that record are the least that find
one step; two identity documents let one be replaced between a handoff and its
verification. Three tasks are a chain with a middle, and let a clone have a task before and
one after. Three handlers let a context be shared by a loaded handler, an unloaded one and
a third with tokens of its own.

By hand, larger, and without a violation: `VetSession` with three events (8,130,476
states), `SessionContexts` with three tokens (526,223).

`CHECK_DEADLOCK FALSE` stands where a bounded number of calls lets every thread come to
rest; `BranchLog`, `DecisionGate`, `Checkpoints`, `VetSession` and `SessionContexts` are
checked for deadlock.

**Fairness.** `EventLogFaults` assumes weak fairness of each thread's steps: a mutex or
lock that stays free is taken in the end, and a running thread goes on. `std::mutex` and
`fcntl(F_SETLKW)` promise no more; the property needs no strong fairness because calls are
bounded, so contention ends. `SessionsLive` assumes weak fairness of the execution thread
and of the callback thread, of a caller that is halfway through adding its two tasks, and of
the rewind that waits for the executor; and strong fairness of one step, the callback that
needs the session's mutex to add a stream's decode. That is `absl::Mutex`, which queues
its waiters and does not let one starve while others come and go. The execution
thread may hold the executor and wait for the callback thread, which wants the mutex of a
session that is being rewound, which waits for the executor: what ends this is the ten
seconds of `WaitUntilDone` (`TimeOut`), and without that action `TasksEnd` does not hold. New calls and faults are
not fair.

## 4. Proofs

TLAPS proves these for every value of the constants, from the `ASSUME`s of the modules.

| theorem | argument |
|---|---|
| `EventLogProofs!TypeCorrect` | `TypeOK` is inductive |
| `EventLogProofs!WritersExclude` | assuming one spelling per process: a thread that writes holds its process's mutex and an exclusive lock (`LockInv`); two such threads share a process, hence a mutex, or have two locks that exclude each other. The lock part must say what a process *would* hold after a mapping dropped it |
| `EventLogProofs!SyncedStays` | assuming `SyncLinks`: cells are only added, and a power loss keeps at least the synced ones (`DiskInv`) |
| `EventLogProofs!AckedStays` | assuming `SyncLinks` and one spelling. `WriterInv`: the file and what a writer still has to put are the file it began on and one whole frame. `AckedInv`: the file as it was at the acknowledgement is a synced prefix of the file, and ends with the record. Anything may follow it, torn frames included; a file that parses as undamaged when its append is acknowledged has that record as its last (`LastRecord`: no frame before it can reach into it, since a body holds no header), and what parses as undamaged parses the same as the beginning of any longer file |
| `EventLogProofs!ActsAtOnce` | assuming `CalmFaults` and one spelling. `FileInv`: the file is a whole log, or one that a writer is halfway through extending, which nobody can see the end of; `SnapInv`: so what a reader has mapped is whole; `ReplyInv`: a token is a length the file has had. Then, action by action: the write of the last cell is the append, the mapping is the read, all else stutters or answers |
| `LogViewsProofs!CacheTypeCorrect`, `CachesDoNotShow` | `CacheCovers`: a cache's records are the prefix of the sink as long as its key says, because the token was probed before the read; with an equal token nothing can be missing |
| `LogViewsProofs!CacheImplementsSink` | step by step: a hit, a finished read and a sink append are the abstract steps, all else stutters |
| `LogViewsProofs!BranchTypeCorrect` | `TypeInv`: which call a thread is in at each label, and how long its way up is, which a depth bound keeps finite |
| `LogViewsProofs!BranchesWithinParents` | assuming `Disciplined`. `WithinParent`: a pointer's parent can be read and shows at least as many records as the pointer inherits. `BranchInv` is what makes it inductive. `FilesOK`: only what is known is used or has branches, and a known session that is no root has its pointer, so a session that gets a pointer has neither been written to nor branched from. `CallOK`: a creation that has counted its parent's records still finds as many when it publishes |
| `LogViewsProofs!BranchViewsGrow` | assuming `Disciplined`, from `BranchInv`. An append makes what its session shows longer at the end, and each session below still takes the same beginning of it (`ShownGrows`); a new pointer is given to a session that has no records and no branches yet, so nobody else's view changes (`ShownKept`) |
| `LogViewsProofs!BranchesImplementSink` | the same assumption. A read takes no lock from one log to the next; it acts when it reads the last of them, that of the session it was asked for. The logs above were read before, each only as far as the pointer below it counts, and that much was there already and does not change (`Kept`), so what it has emitted is at every step what that much of the ancestry shows now (`OutOK`, `EmittedShown`). A creation acts when its pointer is published: its session is then still unused, and its parent still has the records that were counted (`CallOK`) |
| `DurableFileProofs!TypeCorrect`, `WholeAlways`, `AckedAlways` | an inode gets a name only when it is whole and synced, and a call answers only after the directory was synced (`IInv` follows each call through its labels) |
| `DurableFileProofs!NoLitterLeft` | `Tidied`: a replacement since its rename, and a creation since it removed the name, has no temporary file |
| `DurableFileProofs!Implements` | refinement of `AtomicFile`, with the directory's history as the abstract versions; needs that no two calls share an inode |
| `DecisionGateProofs!TypeCorrect` | `TypeOK` is not inductive: `IInv` adds which call a thread is in at each label |
| `DecisionGateProofs!AckedBlock`, `ReplaysHonour` | `HInv`: what was acknowledged is in the log *and* under every checkpoint it mentions *and* the directory exists, so a decision finds it whichever way it looks; a correction being filed is in the log and under what its call has passed; a decision that went past the barrier found nothing that concerned it, and what it must go by was fixed when it began |
| `DecisionGateProofs!LatestDecides` | `Ledger`: what is acknowledged is stored, and of each checkpoint that is not `raced`, the index names one no older than any acknowledged, and one auditor at most is about to name another, a newer one (`Ruled`). `Informed`: so a decision meets one as new as what was acknowledged when it began, whether it reads the index or lists the certificates |
| `CheckpointsProofs!TypeCorrect`, `ManifestsAlwaysResolve`, `AckedAlwaysFound` | `IInv`: at each label a thread has stored what precedes it (`Stored`), and what it asks for was acknowledged when it began (`Asks`); files are never removed |
| `CheckpointsProofs!DependentsAlwaysListed` | `LInv`: how many parents a thread has filed its checkpoint under (`Lists`), and that what it has read of an index is what the index still holds (`Current`), or the parent is `raced` (`Apart`), as it then stays |
| `CheckpointsProofs!ClosureAlwaysComplete` | `CInv`: of each checkpoint the walk is done with, every dependent acknowledged before the audit is among those it has met; when none is left to visit, the set is closed |
| `VetSessionProofs!StepsAlwaysInOrder` | `Ordered`: while nothing is `disordered`, at most one command is between finding its step and recording it, and the number it found is the log's length |
| `VetSessionProofs!VerifiedAlwaysComplete`, `RejectedAlwaysHasReason` | `Sized`: the bytes say whether the log is whole, so an equal digest means equal events; `Once`: what a bundle says was so at one time; since the files only grow and no document comes twice (`Grows`), a difference once seen stays |
| `VetSessionProofs!TypeCorrect` | what the bounds leave free is enough for what the commands under way may still write (`LogHasRoom`, `AidsHaveRoom`), which counts processes |
| `SessionsProofs!TypeCorrect`, `AlwaysOnePlace`, `AlwaysHeardOnce` | `Place` and `Told`: a task's state says in which queue or thread it is and what its caller was told |
| `SessionsProofs!DependenciesAlwaysFirst`, `FailureAlwaysEndsDependents` | `Edge`: what the states of a task and of one it depends on may be together. A task depends on one other at most, its session's last, so what `FinishTask` collects is exactly what follows the failed task |
| `SessionsProofs!SessionAlwaysOutlivesTasks` | `Ordered`: only a registered session adds tasks, and a call halfway through adding two keeps its mutex, so a session that is destroyed has no task and gets none; with `Tasks`, for the callback that adds a stream's decode |
| `SessionContextsProofs!TypeCorrect`, `AlwaysHeldOnce`, `AlwaysPrivate` | assuming `Uses = {}`. `Loaded`: whatever was loaded before, loading a handler changes nobody's tokens and step; `BecomeKeeps`: then the executor may become anything that keeps the prefixes of those who go on sharing. Who does not separate has the longest step (`NobodyIsLonger`), so what it cuts is nobody's. That a free context exists is the pigeonhole |

The runs of `EventLog` meet these conditions. With two spellings in one process two threads
do write at once (section 2), and without `SyncLinks` a power loss may take the whole file.
`CalmFaults` excludes short writes, crashes and power losses, which leave a torn record that
no list of records has; what holds then is `AckedStays`. The run of `BranchLog` is
`Disciplined`; `CreateBranch` cannot enforce it, and without it `ViewsGrow` does not hold
(section 2). `BranchTypeCorrect` does not need it. The other theorems assume what their rows
and the modules' `ASSUME`s say (of sessions, that there is one; of `vet` processes, that
they are finitely many).

The log's parser is a recursive function over offsets. That a function with its equation
exists, and what it gives, is shown from the end of the file down: the offsets of which the
claim is true are a set, and one that has every offset whose later ones it has leaves no
last one out (`Largest`, `Downwards`). What a session shows is a recursive function of the
depth of its ancestry, and is treated the same way from 0 up (`Upwards`). Sets stand where
an induction theorem would take a predicate, which the provers cannot instantiate.

Every invariant, action property and refinement that the passing runs check is stated by one
of these theorems. Only model-checked: `CallsReturn` and `TasksEnd`, since liveness under
fairness and `ENABLED` are beyond TLAPS as used here.

## 5. Where code and words differ

The finding, a run that TLC finds violated: `LockedLlmExecutor::Prefill` drops from its
input the tokens that match those past the current step and puts a later step in the
parameters (`resource_manager.cc` 231-234, 318); the compiled-model executor never looks at
that step, and `SetCurrentStep` refuses one that is beyond its own. A session that is
rewound and then says again what was cut, and more, loses a token.

The models also show these, each by a value of a constant or by a property that the
modules do not list because it does not hold; they are what the conditions in the
properties above are there for.

- A short write leaves a torn record that nobody truncates; later appends return OK and are
  unreadable (`posix_event_sink.cc` 396). `AckedStaysReadable` is about an undamaged log.
- `CreateBranch` holds a mutex that `AppendRecord` does not take (593-613), and accepts a
  parent that does not exist (567). `ViewsGrow` is about `Disciplined` callers.
- A correction whose recording ended between the log and the index never blocks
  (`correction_protocol.cc` 355-360, 411-420; `audited_checkpoint_loader.h` 73-76).
- `PutCertificate` tried again skips the index of the latest, and two auditors compare and
  then name under no lock (`local_filesystem_audit_ledger.cc` 171-184).
- The store answers OK for a payload or manifest that is there already without syncing it
  (`local_filesystem_checkpoint_store.cc` 184, 272; `durable_writer.h` 37).
- Two threads that store children of one parent lose one of them from the index (98-132).
- A provenance query answers breadth first, not in the topological order that
  `provenance_query.h` 28-29 speaks of.
- A task created while the one it depends on has failed but still has its last callback
  queued does not hear of the failure, and runs (`threaded_execution_manager.cc` 260;
  `execution_manager.h`, `io_types.h` 301). `FailureStops` leaves those (`late`) out.
- A stream whose decode is refused tells its caller nothing: it is only logged
  (`session_advanced.cc` 346; `engine.h` 124).
- A prefill that resets the executor first empties the tokens that a clone shares
  (`threaded_execution_manager.cc` 771).

## 6. Not modelled, and why

- Hash functions, signatures, byte formats, canonical JSON and quantization: pure
  conversions with unit tests; what a projection says, the output of a language model.
- Executors, tokenizers, samplers, preprocessors, engines: numeric code on LiteRT with no
  protocol of this repository's own. They are most of the lines of the tree, with the
  bindings, which wrap them; the map covers the part that has states and orders.
- `SerialExecutionManager` (one thread, no interleaving), `SessionBasic`, which holds the
  executor itself, conversations, LoRA and multimodal contexts.
- The evidence view and the checkpoint policy, pure functions of a log, and the prefix
  cache, a list behind one mutex: unit tests reach them, and no other component's order
  depends on them.
- `tools/agent_hooks/dpm_gate.py`: a demonstration of the gate as a hook; it reads and
  rewrites a state file under no lock.
- The Windows branches of the storage code; `create_directories` in the durable writer,
  whose parents nobody syncs; the callback of a read that calls its own log.
- In `Sessions`: more than one dependency of a task, since sessions give one (so the error
  branch of `FollowingWaitingTasks`, 490, is not reached); the ten-minute wait of a
  session's end. The ten seconds of `WaitUntilDone` are modelled as a choice to give up.
- In `Checkpoints`: the closure by scanning manifests, for stores without an index.
- In `VetSession`: `status`, `events` and `prompt`, which only read; handoffs in other
  formats than JSON. That `WriteAidFile` asks `good()` before the flush is not told apart:
  a process that dies there is one that dies.

What could come next: more than one kind of token history in `SessionContexts` (LoRA,
audio and vision contexts); the serial execution manager, against the same properties of
tasks as the threaded one; crashes of a process between two stores in `DecisionGate` and
`Checkpoints` taken together.
