------------------------------ MODULE Sessions ------------------------------
(***************************************************************************)
(* Sessions of an engine (SessionAdvanced, runtime/core/                   *)
(* session_advanced.cc) above its ThreadedExecutionManager: each operation *)
(* adds a task that depends on the session's last.  The calls of any       *)
(* number of threads: one is in a session at a time, by its mutex_.        *)
(***************************************************************************)
EXTENDS ExecutionManager

CONSTANT Uses        \* bound: the calls that are made

ASSUME UsesAssumption ==
  Uses \subseteq {"prefill", "stream", "decode", "score", "clone", "checkpoint", "cancel", "destroy"}

VARIABLES
  session_state_, last_task_ids_,
  mutex_,      \* who is halfway through a call with a session's mutex, and the
               \*   flag the call's tasks share (0: none yet)
  checkpoint,  \* checkpoint_map_: the state saved with the one label there is
  silent       \* history: streams whose decode was refused

session == <<session_state_, last_task_ids_, mutex_, checkpoint, silent>>
manager == <<created, sessions, cancelled, graph, execution, callbacks, thread,
             callback_step, heard, lost>>
vars == <<manager, session>>

Free == <<"nobody", 0>>
Halves == {"nobody", "user", "callback", "save", "rewind"}

Init ==
  /\ ManagerInit
  /\ session_state_ = [s \in Session |-> IF s \in Roots THEN "fresh" ELSE "none"]
  /\ last_task_ids_ = [s \in Session |-> {}]
  /\ mutex_ = [s \in Session |-> Free]
  /\ checkpoint = [s \in Session |-> "none"]
  /\ silent = {}

InUse(s) == session_state_[s] \in {"fresh", "prefilled", "decoded"}
Enter(s) == InUse(s) /\ mutex_[s] = Free

\* Bound: a call may be made while there are ids for its n tasks and those of
\* the decodes to come.
Room(n) ==
  next_task_id_ + n - 1
    + 2 * Cardinality({t \in Task : op[t].kind = "stream" /\ Alive(t)})
    + Cardinality({s \in Session : mutex_[s][1] \in {"user", "callback"}}) <= MaxTasks

Depends(s) == last_task_ids_[s]

BecomesNext(s) ==                                              \* mutant
  last_task_ids_' = [last_task_ids_ EXCEPT ![s] = {next_task_id_'}]

Becomes(s) == last_task_ids_' = [last_task_ids_ EXCEPT ![s] = {next_task_id_}]

RunPrefillAsync(s, kind) ==
  /\ Enter(s) /\ Room(IF kind = "stream" THEN 3 ELSE 1)
  /\ \/ /\ AddTask(s, Op(kind, s), Depends(s), next_task_id_)
        /\ session_state_' = [session_state_ EXCEPT ![s] = "prefilled"]
        /\ Becomes(s)
     \/ /\ AddTaskFails(s, Op(kind, s), Depends(s), next_task_id_)
        /\ UNCHANGED <<session_state_, last_task_ids_>>
  /\ UNCHANGED <<sessions, callback_step, mutex_, checkpoint, silent>>

\* The first half of RunDecodeAsync: the prompt template's end may be prefilled,
\* by a task with the decode's flag.  The execution thread is there by now.
StartDecode(s, who) ==
  /\ session_state_[s] = "prefilled"
  /\ \/ /\ AddTask(s, Op("template", s), Depends(s), next_task_id_) /\ Becomes(s)
        /\ mutex_' = [mutex_ EXCEPT ![s] = <<who, next_task_id_>>]
     \/ /\ mutex_' = [mutex_ EXCEPT ![s] = <<who, 0>>]
        /\ UNCHANGED <<created, cancelled, graph, execution, callbacks, thread,
                       heard, lost, last_task_ids_>>
  /\ session_state_' = [session_state_ EXCEPT ![s] = "decoded"]
  /\ UNCHANGED <<sessions, callback_step, checkpoint, silent>>

RunDecodeAsync(s) ==
  /\ Enter(s) /\ Room(2)
  /\ StartDecode(s, "user")

\* The second half.
AddDecode(s) ==
  LET f == IF mutex_[s][2] = 0 THEN next_task_id_ ELSE mutex_[s][2] IN
  /\ mutex_[s][1] \in {"user", "callback"}
  /\ AddTask(s, Op("decode", s), Depends(s), f) /\ Becomes(s)
  /\ mutex_' = [mutex_ EXCEPT ![s] = Free]
  /\ callback_step' = IF mutex_[s][1] = "callback" THEN "update" ELSE callback_step
  /\ UNCHANGED <<sessions, session_state_, checkpoint, silent>>

\* last_task_ids_ stays: what comes next does not wait for the scores.
RunTextScoringAsync(s) ==
  /\ Enter(s) /\ Room(1)
  /\ \/ AddTask(s, Op("score", s), Depends(s), next_task_id_)
     \/ AddTaskFails(s, Op("score", s), Depends(s), next_task_id_)
  /\ UNCHANGED <<sessions, callback_step, session>>

\* CloneAsyncLocked: the clone begins where the source is, after the task that
\* copies it.  A clone that fails leaves the new session registered.
CloneAsync(s, c) ==
  /\ Enter(s) /\ c \notin sessions /\ session_state_[c] = "none" /\ Room(1)
  /\ sessions' = sessions \cup {c}
  /\ \/ /\ AddTask(s, Op("clone", c), Depends(s), next_task_id_)
        /\ session_state_' = [session_state_ EXCEPT ![c] = session_state_[s]]
        /\ last_task_ids_' = [last_task_ids_ EXCEPT ![s] = {next_task_id_},
                                                    ![c] = {next_task_id_}]
     \/ /\ AddTaskFails(s, Op("clone", c), Depends(s), next_task_id_)
        /\ UNCHANGED <<session_state_, last_task_ids_>>
  /\ UNCHANGED <<callback_step, mutex_, checkpoint, silent>>

\* SaveCheckpoint and RewindToCheckpoint wait for the executor with the mutex;
\* the state is the checkpoint's before that.
SaveCheckpoint(s) ==
  /\ Enter(s)
  /\ mutex_' = [mutex_ EXCEPT ![s] = <<"save", 0>>]
  /\ UNCHANGED <<manager, session_state_, last_task_ids_, checkpoint, silent>>

RewindToCheckpoint(s) ==
  /\ Enter(s) /\ checkpoint[s] # "none"
  /\ session_state_' = [session_state_ EXCEPT ![s] = checkpoint[s]]
  /\ mutex_' = [mutex_ EXCEPT ![s] = <<"rewind", 0>>]
  /\ UNCHANGED <<manager, last_task_ids_, checkpoint, silent>>

\* AcquireExecutorWithContextHandler, for the current step.
HaveExecutor(s) ==
  /\ mutex_[s][1] \in {"save", "rewind"} /\ ~executor_held
  /\ checkpoint' = IF mutex_[s][1] = "save"
                   THEN [checkpoint EXCEPT ![s] = session_state_[s]] ELSE checkpoint
  /\ mutex_' = [mutex_ EXCEPT ![s] = Free]
  /\ UNCHANGED <<manager, session_state_, last_task_ids_, silent>>

DestroyAtOnce(s) ==                                            \* mutant
  /\ Enter(s) /\ ~ \E t \in Active(s) : task_state[t] \in Unfinished
  /\ sessions' = sessions \ {s}
  /\ session_state_' = [session_state_ EXCEPT ![s] = "destroyed"]
  /\ UNCHANGED <<created, cancelled, graph, execution, callbacks, thread,
                 callback_step, heard, lost, last_task_ids_, mutex_, checkpoint, silent>>

\* The destructor, once WaitUntilSessionDone returns.
Destroy(s) ==
  /\ Enter(s) /\ Active(s) = {}
  /\ sessions' = sessions \ {s}
  /\ session_state_' = [session_state_ EXCEPT ![s] = "destroyed"]
  /\ UNCHANGED <<created, cancelled, graph, execution, callbacks, thread,
                 callback_step, heard, lost, last_task_ids_, mutex_, checkpoint, silent>>

CancelProcess(s) == InUse(s) /\ CancelAllTasksInSession(s) /\ UNCHANGED session
CancelTask(t) == Cancel(t) /\ UNCHANGED session

\* RunDecodeAsync by the callback of a stream's prefill.  If it refuses, only the
\* log is told.
StreamDecode(t) ==
  LET s == session_id[t] IN
  /\ callback_step = "decode" /\ t \in callback_running /\ mutex_[s] = Free
  /\ \/ StartDecode(s, "callback")
     \/ /\ session_state_[s] # "prefilled"
        /\ callback_step' = "update" /\ silent' = silent \cup {t}
        /\ UNCHANGED <<created, sessions, cancelled, graph, execution, callbacks, thread,
                       heard, lost, session_state_, last_task_ids_, mutex_, checkpoint>>

-----------------------------------------------------------------------------
Calls ==
  \/ \E s \in Session :
       \/ \E kind \in Uses \cap {"prefill", "stream"} : RunPrefillAsync(s, kind)
       \/ "decode" \in Uses /\ RunDecodeAsync(s)
       \/ "score" \in Uses /\ RunTextScoringAsync(s)
       \/ "checkpoint" \in Uses /\ (SaveCheckpoint(s) \/ RewindToCheckpoint(s))
       \/ "cancel" \in Uses /\ CancelProcess(s)
       \/ "destroy" \in Uses /\ Destroy(s)
       \/ "clone" \in Uses /\ \E c \in Session : CloneAsync(s, c)
  \/ "cancel" \in Uses /\ \E t \in Task : CancelTask(t)

ExecutionThread ==
  \E t \in Task :
    /\ \/ StartTask(t) \/ RunTask(t) \/ RunTaskGivesUp(t) \/ FinishTask(t) \/ Resume(t)
       \/ TimeOut(t)
    /\ UNCHANGED session

CallbackThread ==
  \E t \in Task : \/ CallBack(t) /\ UNCHANGED session
                  \/ EndTask(t) /\ UNCHANGED session
                  \/ StreamDecode(t)

Next ==
  \/ Calls \/ ExecutionThread \/ CallbackThread
  \/ \E s \in Session : AddDecode(s) \/ HaveExecutor(s)

Spec == Init /\ [][Next]_vars

\* Threads run, calls once made go on, and a mutex is not kept from a thread that
\* waits for it by others that come again and again.
FairSpec ==
  /\ Spec
  /\ WF_vars(ExecutionThread) /\ WF_vars(CallbackThread)
  /\ SF_vars(\E t \in Task : StreamDecode(t))
  /\ \A s \in Session : WF_vars(AddDecode(s)) /\ WF_vars(HaveExecutor(s))

-----------------------------------------------------------------------------
States == {"none", "created", "queued", "processing", "last callback queued"}

\* Every variable has its type.
TypeOK ==
  /\ next_task_id_ \in 1..(MaxTasks + 1) /\ sessions \subseteq Session
  /\ session_id \in [Task -> Session] /\ flag \in [Task -> Task]
  /\ cancelled \subseteq Task /\ late \subseteq Task /\ lost \subseteq Task /\ silent \subseteq Task
  /\ task_state \in [Task -> EndStates \cup States]
  /\ dependent_tasks \in [Task -> SUBSET Task] /\ following_tasks \in [Task -> SUBSET Task]
  /\ after \in [Task -> SUBSET Task] /\ heard \in [Task -> Nat]
  /\ execution_tasks \in Seq(Task) /\ execution_running \subseteq Task
  /\ callback_tasks \in Seq(Task) /\ callback_running \subseteq Task
  /\ execution_threads \in 0..1 /\ callback_threads \in 0..1
  /\ step \in {"idle", "run", "finish", "wait", "return"} /\ executor_held \in BOOLEAN
  /\ outcome \in [Task -> {"none", "done", "max tokens", "failed", "cancelled"}]
  /\ callback_step \in {"idle", "decode", "update"}
  /\ session_state_ \in [Session -> {"none", "fresh", "prefilled", "decoded", "destroyed"}]
  /\ last_task_ids_ \in [Session -> SUBSET Task]
  /\ mutex_ \in [Session -> Halves \X (0..MaxTasks)]
  /\ checkpoint \in [Session -> {"none", "fresh", "prefilled", "decoded"}]

\* A task that has not ended is in exactly one place, and somebody will come for
\* it there: behind a task that has not ended and has it as follower, in the
\* queue or the hands of the execution thread, or of the callback thread.
Behind(t) ==
  /\ task_state[t] = "created" /\ dependent_tasks[t] # {}
  /\ \A d \in dependent_tasks[t] : task_state[d] \in Unfinished /\ t \in following_tasks[d]
Times(t, queue) == Cardinality({n \in DOMAIN queue : queue[n] = t})
Working(t) == t \in execution_running /\ step \in {"run", "finish"}

OnePlace ==
  \A t \in Task : Alive(t) /\ t \notin lost =>
    /\ task_state[t] = "created" <=> Behind(t)
    /\ task_state[t] = "queued" <=> Times(t, execution_tasks) = 1
    /\ task_state[t] = "processing" <=> Working(t)
    /\ task_state[t] = "last callback queued" <=>
         Times(t, callback_tasks) + Cardinality({t} \cap callback_running) = 1

\* The callback of a task is told once how it ended: never twice, and never not
\* at all, by whichever of the caller's thread, the execution thread and the
\* callback thread it ends.
EndsHeardOnce ==
  \A t \in Task :
    /\ heard[t] <= 1
    /\ task_state[t] \in EndStates => heard[t] = 1

\* A task is not queued before the tasks it was created to depend on have done
\* their work, and it is not while any of them is at it.
DependenciesFirst ==
  \A t \in Task : task_state[t] \in {"queued", "processing", "last callback queued"} =>
    \A d \in after[t] : task_state[d] \in {"created", "queued", "processing"} => d \in lost

\* What depends on a task that failed, or was cancelled, does not run: it ends as
\* dependent, whether it was created before or after the failure -- but for the
\* tasks created while the last callback of that task was still to come.
Unsuccessful == {"failed", "dependent failed", "cancelled", "dependent cancelled"}
FailureStops ==
  \A t \in Task \ late : \A d \in after[t] :
    task_state[d] \in Unsuccessful =>
      task_state[t] \in {"dependent failed", "dependent cancelled"}

\* The same of every task.
FailureAlwaysStops ==
  \A t \in Task : \A d \in after[t] :
    task_state[d] \in Unsuccessful =>
      task_state[t] \in {"dependent failed", "dependent cancelled"}

\* A session is there while a task of it has not ended, the callback that goes
\* back into the session included.
SessionOutlivesTasks == \A t \in Task : Alive(t) => session_id[t] \in sessions

\* A stream whose prefill is done is told how its decode ends.
StreamsAreTold == silent = {}

\* A task that is lost, or waits for one that is, directly or through others.
Stuck(t) ==
  \A S \in SUBSET Task :
    t \in S /\ (\A u \in S : dependent_tasks[u] \subseteq S) => S \cap lost # {}

\* Whatever the order of calls, every task ends -- unless a thread or a buffer for
\* it, or for one that it waits for, could not be made -- although a rewind waits for
\* the executor with a mutex that the callback thread wants, and the execution thread
\* has the executor and waits for the callback thread.
TasksEnd ==
  \A t \in Task : task_state[t] # "none" ~> (task_state[t] \in EndStates \/ Stuck(t))
=============================================================================
