-------------------------- MODULE ExecutionManager --------------------------
(***************************************************************************)
(* ThreadedExecutionManager (runtime/framework/resource_management/        *)
(* threaded_execution_manager.cc): the tasks of sessions, each after those *)
(* it depends on, run by a pool of one thread, while another pool of one   *)
(* thread calls the callers' callbacks.  Whatever holds                    *)
(* session_and_task_lookup_mutex_ is one step.                             *)
(***************************************************************************)
EXTENDS Naturals, Sequences, FiniteSets

CONSTANTS
  Session,     \* session ids
  Roots,       \* sessions registered at the start
  MaxTasks,    \* bound: task ids
  Failures     \* which of "executor", "buffer" and "thread" may fail

Task == 1..MaxTasks

ASSUME SessionsAssumption == Roots \subseteq Session /\ Session # {}
ASSUME BoundsAssumption == MaxTasks \in Nat
ASSUME FailuresAssumption == Failures \subseteq {"executor", "buffer", "thread"}

VARIABLES
  next_task_id_, sessions,            \* sessions: the keys of session_lookup_
  session_id, op, flag,               \* fixed when a task is created; flag: whose
  cancelled,                          \*   cancellation flag it has; those set
  task_state, dependent_tasks, following_tasks,
  execution_tasks, execution_running, execution_threads,
  callback_tasks, callback_running, callback_threads,
  step, outcome,                      \* where the execution thread is, with what
  executor_held,                      \* whether it holds the executor's lock
  callback_step,                      \* where the callback thread is
  heard,       \* history: the ends each task's callback was told of
  after,       \* history: the dependencies each task was created with
  late,        \* history: tasks created while the last callback of one was queued
  lost         \* history: tasks whose thread or buffer could not be made

created == <<next_task_id_, session_id, op, flag, after, late>>
graph == <<task_state, dependent_tasks, following_tasks>>
execution == <<execution_tasks, execution_running, execution_threads>>
callbacks == <<callback_tasks, callback_running, callback_threads>>
thread == <<step, outcome, executor_held>>

Execution == INSTANCE ThreadPool WITH max_num_threads_ <- 1,
  tasks_ <- execution_tasks, running <- execution_running, threads_ <- execution_threads
Callback == INSTANCE ThreadPool WITH max_num_threads_ <- 1,
  tasks_ <- callback_tasks, running <- callback_running, threads_ <- callback_threads

\* IsTaskEndState.
EndStates == {"done", "max tokens", "failed", "cancelled",
              "dependent failed", "dependent cancelled"}
UnfinishedNotRunning == {"created", "queued"}                   \* mutant

\* What a new task waits for.
Unfinished == {"created", "queued", "processing"}

Alive(t) == task_state[t] \in Unfinished \cup {"last callback queued"}

\* The tasks a session's active_tasks has: UpdateTaskState takes them out when
\* they end.
Active(s) == {t \in Task : session_id[t] = s /\ Alive(t)}

\* What a task does; a clone's target, else its own session.
Op(kind, s) == [kind |-> kind, target |-> s]
AnySession == CHOOSE s \in Session : TRUE

ManagerInit ==
  /\ next_task_id_ = 1 /\ sessions = Roots
  /\ session_id = [t \in Task |-> AnySession]
  /\ op = [t \in Task |-> Op("none", AnySession)]
  /\ flag = [t \in Task |-> t] /\ cancelled = {}
  /\ task_state = [t \in Task |-> "none"]
  /\ dependent_tasks = [t \in Task |-> {}] /\ following_tasks = [t \in Task |-> {}]
  /\ Execution!Init /\ Callback!Init
  /\ step = "idle" /\ outcome = [t \in Task |-> "none"] /\ executor_held = FALSE /\ callback_step = "idle"
  /\ heard = [t \in Task |-> 0] /\ after = [t \in Task |-> {}]
  /\ late = {} /\ lost = {}

-----------------------------------------------------------------------------
(* CreateTask and QueueTask *)

StateAtCreationForgetful(D) == "created"                       \* mutant

\* What has become of the dependencies that have ended; the worst decides.
StateAtCreation(D) ==
  LET ended == {task_state[d] : d \in D} IN
  CASE ended \cap {"failed", "dependent failed"} # {} -> "dependent failed"
    [] ended \cap {"failed", "dependent failed"} = {}
         /\ ended \cap {"cancelled", "dependent cancelled"} # {} -> "dependent cancelled"
    [] ended \cap (EndStates \ {"done"}) = {"max tokens"} -> "max tokens"
    [] OTHER -> "created"

\* A new task of session s with operation o, dependencies D and flag f.
Created(s, o, D, f, state) ==
  LET t == next_task_id_
      waits == {d \in D : task_state[d] \in Unfinished}
  IN  /\ t \in Task
      /\ next_task_id_' = t + 1
      /\ session_id' = [session_id EXCEPT ![t] = s]
      /\ op' = [op EXCEPT ![t] = o]
      /\ flag' = [flag EXCEPT ![t] = f]
      /\ after' = [after EXCEPT ![t] = D]
      /\ late' = late \cup {u \in {t} : \E d \in D : task_state[d] = "last callback queued"}
      /\ task_state' = [task_state EXCEPT ![t] = state]
      /\ dependent_tasks' = [dependent_tasks EXCEPT ![t] = waits]
      /\ following_tasks' = [u \in Task |->
           IF u \in waits THEN following_tasks[u] \cup {t} ELSE following_tasks[u]]

Waiting(D) ==
  StateAtCreation(D) = "created" /\ \E d \in D : task_state[d] \in Unfinished
Ready(D) ==
  StateAtCreation(D) = "created" /\ ~ \E d \in D : task_state[d] \in Unfinished

Ended(D) == StateAtCreation(D) # "created"

\* AddPrefillTask, AddDecodeTask, AddCloneSessionTask, AddTextScoringTask.
AddTask(s, o, D, f) ==
  LET t == next_task_id_ IN
  /\ \/ Waiting(D) /\ Created(s, o, D, f, "created") /\ UNCHANGED <<execution, heard>>
     \/ /\ Ended(D) /\ Created(s, o, D, f, StateAtCreation(D))
        /\ heard' = [heard EXCEPT ![t] = @ + 1] /\ UNCHANGED execution
     \/ /\ Ready(D) /\ Created(s, o, D, f, "queued")
        /\ Execution!Schedule(t) /\ UNCHANGED heard
  /\ UNCHANGED <<cancelled, callbacks, thread, lost>>

\* The execution thread cannot be made: the caller is told, but the task stays.
AddTaskFails(s, o, D, f) ==
  /\ "thread" \in Failures
  /\ Ready(D) /\ Created(s, o, D, f, "created")
  /\ Execution!MayFail
  /\ lost' = lost \cup {next_task_id_}
  /\ UNCHANGED <<cancelled, execution, callbacks, thread, heard>>

CancelAllTasksInSession(s) ==
  /\ s \in sessions
  /\ cancelled' = cancelled \cup {flag[t] : t \in Active(s)}
  /\ UNCHANGED <<created, sessions, graph, execution, callbacks, thread,
                 callback_step, heard, lost>>

\* TaskController::Cancel.
Cancel(t) ==
  /\ op[t].kind \in {"prefill", "decode", "score"}
  /\ cancelled' = cancelled \cup {flag[t]}
  /\ UNCHANGED <<created, sessions, graph, execution, callbacks, thread,
                 callback_step, heard, lost>>

-----------------------------------------------------------------------------
(* The execution thread *)

StartTask(t) ==
  /\ step = "idle"
  /\ Execution!Begin(t)
  /\ task_state' = [task_state EXCEPT ![t] = "processing"]
  /\ step' = "run"
  /\ UNCHANGED <<created, sessions, cancelled, dependent_tasks, following_tasks,
                 callbacks, outcome, executor_held, callback_step, heard, lost>>

\* What a task may come to, and whether with the executor's lock, which it then
\* has until it returns.  The flag is read first before the lock is asked for and
\* last when the work is done; a clone fails if its session has been released.
Outcomes(t) ==
  IF flag[t] \in cancelled THEN {"cancelled"} \X BOOLEAN
  ELSE {"failed" : x \in Failures \cap {"executor"}} \X BOOLEAN
         \cup IF op[t].kind = "decode" THEN {"done", "max tokens"} \X {TRUE}
              ELSE IF op[t].kind = "clone"
                   THEN {IF op[t].target \in sessions THEN "done" ELSE "failed"} \X {FALSE}
              ELSE {"done"} \X {TRUE}

RunTask(t) ==
  /\ step = "run" /\ t \in execution_running
  /\ \E o \in Outcomes(t) :
       outcome' = [outcome EXCEPT ![t] = o[1]] /\ executor_held' = o[2]
  /\ step' = "finish"
  /\ UNCHANGED <<created, sessions, cancelled, graph, execution, callbacks,
                 callback_step, heard, lost>>

\* AddDecodeTask without a buffer: the callback hears, and nobody finishes the task.
RunTaskGivesUp(t) ==
  /\ step = "run" /\ t \in execution_running
  /\ op[t].kind = "decode" /\ flag[t] \notin cancelled /\ "buffer" \in Failures
  /\ heard' = [heard EXCEPT ![t] = @ + 1]
  /\ lost' = lost \cup {t}
  /\ step' = "return"
  /\ UNCHANGED <<created, sessions, cancelled, graph, execution, callbacks,
                 outcome, executor_held, callback_step>>

FollowingOnly(t) == {f \in following_tasks[t] : Alive(f)}      \* mutant

\* Those that wait for t, those that wait for these, and so on.
FollowingWaitingTasks(t) ==
  LET Closed(S) == \A u \in S \cup {t} : \A f \in following_tasks[u] : Alive(f) => f \in S
  IN  {u \in Task : \A S \in SUBSET Task : Closed(S) => u \in S}

\* The followers of a task that is done wait for it no more, and are queued, in
\* any order, when they wait for nothing else.
Release(t, last) ==
  LET waiting == {f \in following_tasks[t] : Alive(f)}
      ready == {f \in waiting : dependent_tasks[f] = {t}}
  IN  /\ dependent_tasks' = [f \in Task |->
           IF f \in waiting THEN dependent_tasks[f] \ {t} ELSE dependent_tasks[f]]
      /\ \E order \in [1..Cardinality(ready) -> ready] :
           {order[n] : n \in DOMAIN order} = ready /\ Execution!ScheduleAll(order)
      /\ task_state' = [f \in Task |->
           IF f = t THEN last ELSE IF f \in ready THEN "queued" ELSE task_state[f]]
      /\ UNCHANGED heard

\* The followers of a task that failed or was cancelled end, and are told.
Drop(t, state, last) ==
  LET dropped == FollowingWaitingTasks(t)
  IN  /\ dependent_tasks' = [f \in Task |-> IF f \in dropped THEN {} ELSE dependent_tasks[f]]
      /\ task_state' = [f \in Task |->
           IF f = t THEN last ELSE IF f \in dropped THEN state ELSE task_state[f]]
      /\ heard' = [f \in Task |-> IF f \in dropped THEN heard[f] + 1 ELSE heard[f]]
      /\ UNCHANGED execution

Finish(t, last) ==
  CASE outcome[t] = "failed" -> Drop(t, "dependent failed", last)
    [] outcome[t] = "cancelled" -> Drop(t, "dependent cancelled", last)
    [] OTHER -> Release(t, last)

\* FinishTask, under the lock.  If no thread can be made for the callback it is
\* lost, and the task stays where it is.
FinishTask(t) ==
  /\ step = "finish" /\ t \in execution_running
  /\ \/ /\ Finish(t, "last callback queued") /\ Callback!Schedule(t)
        /\ step' = "wait" /\ UNCHANGED lost
     \/ /\ "thread" \in Failures /\ Callback!MayFail
        /\ Finish(t, "processing") /\ lost' = lost \cup {t}
        /\ step' = "return" /\ UNCHANGED callbacks
  /\ UNCHANGED <<created, sessions, cancelled, following_tasks, outcome,
                 executor_held, callback_step>>

Return(t) ==
  /\ Execution!End(t)
  /\ step' = "idle" /\ executor_held' = FALSE
  /\ UNCHANGED <<created, sessions, cancelled, graph, callbacks, outcome,
                 callback_step, heard, lost>>

Resume(t) ==
  /\ step = "return" \/ (step = "wait" /\ Callback!Done)
  /\ Return(t)

WaitsForever(t) == Resume(t)                                   \* mutant

FinishesAgain(t) ==                                            \* mutant
  /\ step = "wait" /\ ~Callback!Done /\ t \in execution_running
  /\ step' = "finish"
  /\ UNCHANGED <<created, sessions, cancelled, graph, execution, callbacks,
                 outcome, executor_held, callback_step, heard, lost>>

\* WaitUntilDone gives up after ten seconds.
TimeOut(t) ==
  /\ step = "wait" /\ ~Callback!Done
  /\ Return(t)

-----------------------------------------------------------------------------
(* The callback thread *)

\* The callback of a stream's prefill starts its decode.
CallBack(t) ==
  /\ callback_step = "idle"
  /\ Callback!Begin(t)
  /\ heard' = [heard EXCEPT ![t] = @ + 1]
  /\ callback_step' = IF op[t].kind = "stream" /\ outcome[t] = "done" THEN "decode" ELSE "update"
  /\ UNCHANGED <<created, sessions, cancelled, graph, execution, thread, lost>>

\* UpdateTaskState.
EndTask(t) ==
  /\ callback_step = "update"
  /\ Callback!End(t)
  /\ task_state' = [task_state EXCEPT ![t] = outcome[t]]
  /\ callback_step' = "idle"
  /\ UNCHANGED <<created, sessions, cancelled, dependent_tasks, following_tasks,
                 execution, thread, heard, lost>>
=============================================================================
