----------------------------- MODULE ThreadPool -----------------------------
(***************************************************************************)
(* ThreadPool (runtime/framework/threadpool.cc): a queue of tasks, run     *)
(* first in first out by threads that are made when all there are may be   *)
(* busy.  Operations for the modules that instantiate this one.            *)
(***************************************************************************)
EXTENDS Naturals, Sequences, FiniteSets

CONSTANT max_num_threads_

VARIABLES
  tasks_,      \* the queue
  running,     \* tasks that threads are running; num_active_tasks_ is their number
  threads_     \* number of threads

Init == tasks_ = <<>> /\ running = {} /\ threads_ = 0

AllMayBeBusy ==
  threads_ < max_num_threads_ /\ threads_ <= Cardinality(running) + Len(tasks_)

\* When no new thread can be made, those that exist run the task in the end.
Schedule(task) ==
  /\ tasks_' = Append(tasks_, task)
  /\ threads_' \in IF AllMayBeBusy THEN {threads_, threads_ + 1} \ {0} ELSE {threads_}
  /\ UNCHANGED running

\* The pool has all its threads.
ScheduleAll(tasks) ==
  /\ threads_ = max_num_threads_
  /\ tasks_' = tasks_ \o tasks
  /\ UNCHANGED <<running, threads_>>

\* The first thread may not be made; then nothing is queued.
MayFail == AllMayBeBusy /\ threads_ = 0

\* RunWorker, to the unlock and from the lock.
Begin(task) ==
  /\ tasks_ # <<>> /\ task = Head(tasks_)
  /\ Cardinality(running) < threads_
  /\ tasks_' = Tail(tasks_)
  /\ running' = running \cup {task}
  /\ UNCHANGED threads_

End(task) ==
  /\ task \in running
  /\ running' = running \ {task}
  /\ UNCHANGED <<tasks_, threads_>>

\* What WaitUntilDone awaits.
Done == tasks_ = <<>> /\ running = {}
=============================================================================
