--------------------------- MODULE SessionsProofs ---------------------------
(***************************************************************************)
(* Sessions is type correct; every task that has not ended is in exactly   *)
(* one place, runs after the tasks it depends on, ends with them when they *)
(* fail, and is heard of once; and a session outlives its tasks.           *)
(***************************************************************************)
EXTENDS Sessions, FiniteSetTheorems, SequenceTheorems, TLAPS

-----------------------------------------------------------------------------
(* The inductive invariant *)

\* What a queue holds, and that it holds nothing twice.
Holds(queue) == {queue[n] : n \in DOMAIN queue}
Once(queue) == \A m, n \in DOMAIN queue : queue[m] = queue[n] => m = n

Made == {t \in Task : t < next_task_id_}

ManagerType ==
  /\ next_task_id_ \in 1..(MaxTasks + 1) /\ sessions \subseteq Session
  /\ session_id \in [Task -> Session] /\ flag \in [Task -> Task]
  /\ cancelled \subseteq Task /\ late \subseteq Task /\ lost \subseteq Task
  /\ task_state \in [Task -> EndStates \cup States]
  /\ dependent_tasks \in [Task -> SUBSET Task] /\ following_tasks \in [Task -> SUBSET Task]
  /\ after \in [Task -> SUBSET Task] /\ heard \in [Task -> Nat]
  /\ execution_tasks \in Seq(Task) /\ execution_running \subseteq Task
  /\ callback_tasks \in Seq(Task) /\ callback_running \subseteq Task
  /\ execution_threads \in 0..1 /\ callback_threads \in 0..1
  /\ step \in {"idle", "run", "finish", "wait", "return"} /\ executor_held \in BOOLEAN
  /\ outcome \in [Task -> {"none", "done", "max tokens", "failed", "cancelled"}]
  /\ callback_step \in {"idle", "decode", "update"}

\* A thread runs one task at a time, and the queues hold none twice.
Threads ==
  /\ Once(execution_tasks) /\ Once(callback_tasks)
  /\ step = "idle" => execution_running = {}
  /\ callback_step = "idle" => callback_running = {}
  /\ \A t, u \in execution_running : t = u
  /\ \A t, u \in callback_running : t = u

\* A task's state says where it is.
Place(t) ==
  /\ task_state[t] = "queued" <=> t \in Holds(execution_tasks)
  /\ Working(t) => task_state[t] = "processing" /\ t \notin lost
  /\ task_state[t] = "processing" => Working(t) \/ t \in lost
  /\ task_state[t] = "last callback queued" <=> t \in Holds(callback_tasks) \cup callback_running
  /\ t \in Holds(callback_tasks) => t \notin callback_running
  /\ t \in lost => task_state[t] \in {"created", "processing"}
  /\ t \notin Made => task_state[t] = "none" /\ heard[t] = 0 /\ after[t] = {} /\ t \notin lost

\* How often its callback has been called.
Told(t) ==
  /\ heard[t] \in {0, 1}
  /\ task_state[t] \in EndStates => heard[t] = 1
  /\ task_state[t] \in {"created", "queued"} => heard[t] = 0
  /\ Working(t) => heard[t] = 0
  /\ t \in Holds(callback_tasks) => heard[t] = 0
  /\ t \in callback_running => heard[t] = 1

\* A task that was created has a task it waits for, unless it is lost.
Waits(t) ==
  /\ task_state[t] = "created" /\ t \notin lost => Behind(t)
  /\ dependent_tasks[t] \subseteq after[t]
  /\ \A f \in following_tasks[t] : t \in after[f]

Failing(d) ==
  \/ task_state[d] \in Unsuccessful
  \/ task_state[d] = "last callback queued" /\ outcome[d] \in {"failed", "cancelled"}

\* Of a task t created to depend on d, which is all it depends on.
Edge(t, d) ==
  /\ after[t] = {d} /\ d \in Made
  /\ task_state[d] \in Unfinished /\ d \notin lost =>
       /\ task_state[t] = "created" /\ t \notin lost
       /\ t \in following_tasks[d] /\ dependent_tasks[t] = {d}
  /\ t \notin late /\ Failing(d) => task_state[t] \in {"dependent failed", "dependent cancelled"}
  /\ task_state[t] \in {"queued", "processing", "last callback queued"} =>
       task_state[d] \notin Unfinished \/ d \in lost

Tasks ==
  \A t \in Task : /\ Place(t) /\ Told(t) /\ Waits(t)
                  /\ \A d \in after[t] : Edge(t, d)

MInv == ManagerType /\ Threads /\ Tasks

SessionType ==
  /\ silent \subseteq Task
  /\ session_state_ \in [Session -> {"none", "fresh", "prefilled", "decoded", "destroyed"}]
  /\ last_task_ids_ \in [Session -> SUBSET Task]
  /\ mutex_ \in [Session -> Halves \X (0..MaxTasks)]
  /\ checkpoint \in [Session -> {"none", "fresh", "prefilled", "decoded"}]

\* A session in use is registered, depends on one task at most, and is not
\* destroyed by one thread while another is halfway through a call.
Ordered(s) ==
  /\ \A d \in last_task_ids_[s] : last_task_ids_[s] = {d} /\ d \in Made
  /\ InUse(s) => s \in sessions
  /\ mutex_[s] # Free => InUse(s)

SInv ==
  /\ SessionType
  /\ \A s \in Session : Ordered(s)
  /\ \A t \in Task : Alive(t) => session_id[t] \in sessions

IInv == MInv /\ SInv

-----------------------------------------------------------------------------
(* Queues *)

LEMMA EmptyHolds == Holds(<<>>) = {} /\ Once(<<>>)
BY DEF Holds, Once

LEMMA AppendHolds ==
  ASSUME NEW S, NEW q \in Seq(S), NEW x \in S, Once(q), x \notin Holds(q)
  PROVE  /\ Append(q, x) \in Seq(S) /\ Once(Append(q, x))
         /\ Holds(Append(q, x)) = Holds(q) \cup {x}
<1>1. PICK n \in Nat : n = Len(q)
  OBVIOUS
<1>2. PICK r : r = Append(q, x)
  OBVIOUS
<1>3. /\ r \in Seq(S) /\ DOMAIN r = 1..(n + 1) /\ DOMAIN q = 1..n
      /\ \A i \in 1..n : r[i] = q[i] /\ r[n + 1] = x
  BY <1>1, <1>2
<1>4. r[n + 1] = x
  BY <1>1, <1>2
<1>5. Holds(r) = Holds(q) \cup {x}
  BY <1>3, <1>4 DEF Holds
<1>6. ASSUME NEW i \in 1..(n + 1), NEW j \in 1..(n + 1), r[i] = r[j] PROVE i = j
  <2>1. CASE i \in 1..n /\ j \in 1..n
    BY <1>3, <1>6, <2>1 DEF Once
  <2>2. CASE i = n + 1 /\ j \in 1..n
    BY <1>3, <1>4, <1>6, <2>2 DEF Holds
  <2>3. CASE i \in 1..n /\ j = n + 1
    BY <1>3, <1>4, <1>6, <2>3 DEF Holds
  <2>4. QED
    BY <2>1, <2>2, <2>3
<1>7. QED
  BY <1>2, <1>3, <1>5, <1>6 DEF Once

LEMMA TailHolds ==
  ASSUME NEW S, NEW q \in Seq(S), q # <<>>, Once(q)
  PROVE  /\ Head(q) \in S /\ Head(q) \in Holds(q)
         /\ Tail(q) \in Seq(S) /\ Once(Tail(q)) /\ Holds(Tail(q)) = Holds(q) \ {Head(q)}
<1>1. PICK n \in Nat : n = Len(q)
  OBVIOUS
<1>2. PICK r : r = Tail(q)
  OBVIOUS
<1>3. /\ r \in Seq(S) /\ DOMAIN r = 1..(n - 1) /\ DOMAIN q = 1..n /\ 0 < n
      /\ \A i \in 1..(n - 1) : r[i] = q[i + 1]
  BY <1>1, <1>2, HeadTailProperties
<1>4. Head(q) = q[1] /\ q[1] \in S
  BY <1>3
<1>5. ASSUME NEW i \in 1..(n - 1), NEW j \in 1..(n - 1), r[i] = r[j] PROVE i = j
  <2>1. i + 1 \in DOMAIN q /\ j + 1 \in DOMAIN q /\ q[i + 1] = q[j + 1]
    BY <1>3, <1>5
  <2>2. i + 1 = j + 1
    BY <2>1 DEF Once
  <2>3. QED
    BY <2>2
<1>6. Holds(r) = Holds(q) \ {q[1]}
  <2>1. ASSUME NEW x \in Holds(r) PROVE x \in Holds(q) /\ x # q[1]
    <3>1. PICK i \in 1..(n - 1) : x = q[i + 1]
      BY <1>3 DEF Holds
    <3>2. i + 1 \in DOMAIN q /\ 1 \in DOMAIN q /\ i + 1 # 1
      BY <1>3
    <3>3. QED
      BY <3>1, <3>2 DEF Holds, Once
  <2>2. ASSUME NEW x \in Holds(q), x # q[1] PROVE x \in Holds(r)
    <3>1. PICK i \in 1..n : x = q[i]
      BY <1>3 DEF Holds
    <3>2. i - 1 \in 1..(n - 1) /\ (i - 1) + 1 = i
      BY <2>2, <3>1
    <3>3. QED
      BY <1>3, <3>1, <3>2 DEF Holds
  <2>3. QED
    BY <2>1, <2>2
<1>7. Once(r) /\ q[1] \in Holds(q)
  BY <1>3, <1>5 DEF Once, Holds
<1>8. QED
  BY <1>2, <1>3, <1>4, <1>6, <1>7

LEMMA ConcatHolds ==
  ASSUME NEW S, NEW q \in Seq(S), NEW r \in Seq(S), Once(q), Once(r), Holds(q) \cap Holds(r) = {}
  PROVE  q \o r \in Seq(S) /\ Once(q \o r) /\ Holds(q \o r) = Holds(q) \cup Holds(r)
<1>1. PICK m \in Nat, n \in Nat : m = Len(q) /\ n = Len(r)
  OBVIOUS
<1>2. PICK c : c = q \o r
  OBVIOUS
<1>3. /\ c \in Seq(S) /\ DOMAIN c = 1..(m + n) /\ DOMAIN q = 1..m /\ DOMAIN r = 1..n
      /\ \A i \in 1..(m + n) : c[i] = IF i <= m THEN q[i] ELSE r[i - m]
  BY <1>1, <1>2, ConcatProperties
<1>4. \A i \in 1..m : c[i] = q[i]
  BY <1>3
<1>5. \A i \in 1..n : c[m + i] = r[i] /\ m + i \in 1..(m + n)
  BY <1>3
<1>6. \A i \in 1..(m + n) : i \in 1..m \/ \E j \in 1..n : i = m + j
  <2>1. ASSUME NEW i \in 1..(m + n), i \notin 1..m PROVE i - m \in 1..n /\ i = m + (i - m)
    BY <2>1
  <2>2. QED
    BY <2>1
<1>7. Holds(c) = Holds(q) \cup Holds(r)
  <2>1. ASSUME NEW x \in Holds(c) PROVE x \in Holds(q) \cup Holds(r)
    <3>1. PICK i \in 1..(m + n) : x = c[i]
      BY <1>3 DEF Holds
    <3>2. CASE i \in 1..m
      BY <1>3, <1>4, <3>1, <3>2 DEF Holds
    <3>3. CASE i \notin 1..m
      <4>1. PICK j \in 1..n : i = m + j
        BY <1>6, <3>3
      <4>2. QED
        BY <1>3, <1>5, <3>1, <4>1 DEF Holds
    <3>4. QED
      BY <3>2, <3>3
  <2>2. \A x \in Holds(q) : x \in Holds(c)
    BY <1>3, <1>4 DEF Holds
  <2>3. \A x \in Holds(r) : x \in Holds(c)
    BY <1>3, <1>5, ZenonT(60) DEF Holds
  <2>4. QED
    BY <2>1, <2>2, <2>3
<1>8. ASSUME NEW i \in 1..(m + n), NEW j \in 1..(m + n), c[i] = c[j] PROVE i = j
  <2>1. CASE i \in 1..m /\ j \in 1..m
    BY <1>3, <1>4, <1>8, <2>1 DEF Once
  <2>2. CASE i \in 1..m /\ j \notin 1..m
    <3>1. PICK k \in 1..n : j = m + k
      BY <1>6, <2>2
    <3>2. q[i] = r[k]
      BY <1>4, <1>5, <1>8, <2>2, <3>1
    <3>3. QED
      BY <1>3, <2>2, <3>2 DEF Holds
  <2>3. CASE i \notin 1..m /\ j \in 1..m
    <3>1. PICK k \in 1..n : i = m + k
      BY <1>6, <2>3
    <3>2. q[j] = r[k]
      BY <1>4, <1>5, <1>8, <2>3, <3>1
    <3>3. QED
      BY <1>3, <2>3, <3>2 DEF Holds
  <2>4. CASE i \notin 1..m /\ j \notin 1..m
    <3>1. PICK k \in 1..n, l \in 1..n : i = m + k /\ j = m + l
      BY <1>6, <2>4
    <3>2. r[k] = r[l]
      BY <1>5, <1>8, <3>1
    <3>3. k = l
      BY <1>3, <3>2 DEF Once
    <3>4. QED
      BY <3>1, <3>3
  <2>5. QED
    BY <2>1, <2>2, <2>3, <2>4
<1>9. QED
  BY <1>2, <1>3, <1>7, <1>8 DEF Once

\* An order of a finite set is a sequence that holds it, and nothing twice.
LEMMA OrderHolds ==
  ASSUME NEW S, NEW R \in SUBSET S, IsFiniteSet(R),
         NEW order \in [1..Cardinality(R) -> R], {order[n] : n \in DOMAIN order} = R
  PROVE  order \in Seq(S) /\ Once(order) /\ Holds(order) = R
<1>1. PICK k \in Nat : k = Cardinality(R)
  BY FS_CardinalityType
<1>2. order \in Seq(S) /\ DOMAIN order = 1..k
  BY <1>1
<1>3. IsFiniteSet(1..k) /\ Cardinality(1..k) = k
  <2>1. 1 \in Int /\ k \in Int
    OBVIOUS
  <2>2. IsFiniteSet(1..k) /\ Cardinality(1..k) = IF 1 > k THEN 0 ELSE k - 1 + 1
    BY <2>1, FS_Interval, Zenon
  <2>3. (IF 1 > k THEN 0 ELSE k - 1 + 1) = k
    OBVIOUS
  <2>4. QED
    BY <2>2
<1>4. order \in Surjection(1..k, R)
  BY <1>1, <1>2 DEF Surjection
<1>5. order \in Injection(1..k, R)
  BY <1>1, <1>3, <1>4, FS_SurjSameCardinalityImpliesInj
<1>6. QED
  BY <1>2, <1>5 DEF Injection, IsInjective, Once, Holds

\* How often a queue that holds nothing twice holds a task.
LEMMA TimesOnce ==
  ASSUME NEW S, NEW q \in Seq(S), Once(q), NEW x
  PROVE  Times(x, q) = IF x \in Holds(q) THEN 1 ELSE 0
<1>1. CASE x \in Holds(q)
  <2>1. PICK m \in DOMAIN q : q[m] = x
    BY <1>1 DEF Holds
  <2>2. {n \in DOMAIN q : q[n] = x} = {m}
    BY <2>1 DEF Once
  <2>3. QED
    BY <1>1, <2>2, FS_Singleton DEF Times
<1>2. CASE x \notin Holds(q)
  <2>1. {n \in DOMAIN q : q[n] = x} = {}
    BY <1>2 DEF Holds
  <2>2. QED
    BY <1>2, <2>1, FS_EmptySet DEF Times
<1>3. QED
  BY <1>1, <1>2

LEMMA TasksFinite == \A R \in SUBSET Task : IsFiniteSet(R)
<1>1. IsFiniteSet(Task)
  BY BoundsAssumption, FS_Interval DEF Task
<1>2. QED
  BY <1>1, FS_Subset

-----------------------------------------------------------------------------
(* A new task *)

LEMMA MadeGrows ==
  ASSUME ManagerType, next_task_id_ \in Task, next_task_id_' = next_task_id_ + 1
  PROVE  /\ Made' = Made \cup {next_task_id_} /\ next_task_id_ \notin Made
         /\ next_task_id_' \in 1..(MaxTasks + 1)
<1>1. PICK m \in Nat : m = MaxTasks
  BY BoundsAssumption
<1>2. PICK n \in 1..m : n = next_task_id_
  BY <1>1 DEF Task
<1>3. next_task_id_' = n + 1 /\ n + 1 \in 1..(m + 1)
  BY <1>2
<1>4. Made' = {t \in 1..m : t < n + 1} /\ Made = {t \in 1..m : t < n}
  BY <1>1, <1>2, <1>3 DEF Made, Task
<1>5. \A t \in 1..m : t < n + 1 <=> t < n \/ t = n
  OBVIOUS
<1>6. n \notin Made
  BY <1>4
<1>7. QED
  BY <1>1, <1>2, <1>3, <1>4, <1>5, <1>6

\* The state of a task that is created to depend on one task, or on none.
LEMMA StateOfNew ==
  ASSUME NEW D, \A d \in D : D = {d}
  PROVE  /\ StateAtCreation(D) \in EndStates \cup {"created"}
         /\ StateAtCreation(D) # "created" => \E d \in D : task_state[d] \in EndStates
         /\ \A d \in D : task_state[d] \in Unsuccessful =>
              StateAtCreation(D) \in {"dependent failed", "dependent cancelled"}
<1>1. CASE D = {}
  <2>1. {task_state[d] : d \in D} = {}
    BY <1>1
  <2>2. StateAtCreation(D) = "created"
    BY <2>1 DEF StateAtCreation
  <2>3. QED
    BY <1>1, <2>2
<1>2. CASE D # {}
  <2>1. PICK e \in D : D = {e}
    BY <1>2
  <2>2. PICK st : st = task_state[e]
    OBVIOUS
  <2>3. {task_state[d] : d \in D} = {st}
    BY <2>1, <2>2
  <2>4. CASE st \in {"failed", "dependent failed"}
    BY <2>1, <2>2, <2>3, <2>4 DEF StateAtCreation, EndStates, Unsuccessful
  <2>5. CASE st \in {"cancelled", "dependent cancelled"}
    BY <2>1, <2>2, <2>3, <2>5 DEF StateAtCreation, EndStates, Unsuccessful
  <2>6. CASE st = "max tokens"
    BY <2>1, <2>2, <2>3, <2>6 DEF StateAtCreation, EndStates, Unsuccessful
  <2>7. CASE st \notin {"failed", "dependent failed", "cancelled", "dependent cancelled", "max tokens"}
    <3>1. {st} \cap (EndStates \ {"done"}) = {}
      BY <2>7 DEF EndStates
    <3>2. StateAtCreation(D) = "created"
      BY <2>3, <2>7, <3>1, ZenonT(60) DEF StateAtCreation
    <3>3. st \notin Unsuccessful
      BY <2>7 DEF Unsuccessful
    <3>4. QED
      BY <2>1, <2>2, <3>2, <3>3
  <2>8. QED
    BY <2>4, <2>5, <2>6, <2>7
<1>3. QED
  BY <1>1, <1>2

\* What the creation of task t with dependencies D in the state st changes.
Makes(t, D, st) ==
  /\ t = next_task_id_ /\ t \in Task /\ t \notin Made /\ Made' = Made \cup {t}
  /\ after'[t] = D /\ task_state'[t] = st
  /\ dependent_tasks'[t] = {d \in D : task_state[d] \in Unfinished}
  /\ \A x \in Task \ {t} : /\ after'[x] = after[x] /\ task_state'[x] = task_state[x]
                           /\ dependent_tasks'[x] = dependent_tasks[x]
  /\ \A x \in Task : \A f : f \in following_tasks'[x] <=>
       f \in following_tasks[x] \/ (f = t /\ x \in D /\ task_state[x] \in Unfinished)
  /\ \A x \in Task : x \in late' <=>
       x \in late \/ (x = t /\ \E d \in D : task_state[d] = "last callback queued")

CreationType ==
  /\ next_task_id_ \in 1..(MaxTasks + 1)
  /\ session_id \in [Task -> Session] /\ flag \in [Task -> Task] /\ late \subseteq Task
  /\ task_state \in [Task -> EndStates \cup States]
  /\ dependent_tasks \in [Task -> SUBSET Task] /\ following_tasks \in [Task -> SUBSET Task]
  /\ after \in [Task -> SUBSET Task]

LEMMA CreatedMakes ==
  ASSUME ManagerType, NEW s \in Session, NEW o, NEW D \in SUBSET Task, NEW f \in Task,
         NEW st \in EndStates \cup States, Created(s, o, D, f, st)
  PROVE  Makes(next_task_id_, D, st) /\ CreationType'
<1>1. PICK t : t = next_task_id_
  OBVIOUS
<1>2. PICK W : W = {d \in D : task_state[d] \in Unfinished}
  OBVIOUS
<1>3. /\ t \in Task /\ next_task_id_' = next_task_id_ + 1
      /\ session_id' = [session_id EXCEPT ![t] = s] /\ flag' = [flag EXCEPT ![t] = f]
      /\ after' = [after EXCEPT ![t] = D]
      /\ late' = late \cup {u \in {t} : \E d \in D : task_state[d] = "last callback queued"}
      /\ task_state' = [task_state EXCEPT ![t] = st]
      /\ dependent_tasks' = [dependent_tasks EXCEPT ![t] = W]
      /\ following_tasks' = [u \in Task |->
           IF u \in W THEN following_tasks[u] \cup {t} ELSE following_tasks[u]]
  BY <1>1, <1>2 DEF Created
<1>4. Made' = Made \cup {t} /\ t \notin Made /\ next_task_id_' \in 1..(MaxTasks + 1)
  BY <1>1, <1>3, MadeGrows
<1>5. W \in SUBSET Task
  BY <1>2
<1>6. CreationType'
  <2>1. /\ session_id' \in [Task -> Session] /\ flag' \in [Task -> Task] /\ late' \subseteq Task
        /\ task_state' \in [Task -> EndStates \cup States] /\ after' \in [Task -> SUBSET Task]
    BY <1>3 DEF ManagerType
  <2>2. dependent_tasks' \in [Task -> SUBSET Task] /\ following_tasks' \in [Task -> SUBSET Task]
    BY <1>3, <1>5 DEF ManagerType
  <2>3. QED
    BY <1>4, <2>1, <2>2 DEF CreationType
<1>7. ASSUME NEW x \in Task, NEW u
      PROVE  u \in following_tasks'[x] <=>
               u \in following_tasks[x] \/ (u = t /\ x \in D /\ task_state[x] \in Unfinished)
  <2>1. following_tasks'[x] = IF x \in W THEN following_tasks[x] \cup {t} ELSE following_tasks[x]
    BY <1>3
  <2>2. x \in W <=> x \in D /\ task_state[x] \in Unfinished
    BY <1>2
  <2>3. QED
    BY <2>1, <2>2, Zenon
<1>8. after'[t] = D /\ task_state'[t] = st /\ dependent_tasks'[t] = W
  BY <1>3 DEF ManagerType
<1>9. \A x \in Task \ {t} : /\ after'[x] = after[x] /\ task_state'[x] = task_state[x]
                            /\ dependent_tasks'[x] = dependent_tasks[x]
  BY <1>3 DEF ManagerType
<1>10. \A x \in Task : x \in late' <=>
         x \in late \/ (x = t /\ \E d \in D : task_state[d] = "last callback queued")
  BY <1>3
<1>11. QED
  BY <1>1, <1>2, <1>3, <1>4, <1>6, <1>7, <1>8, <1>9, <1>10 DEF Makes

\* What a new task is, of those it depends on: it waits while there is one that has
\* not done its work, and else does not, unless it is lost.
Fitting(t, D, st) ==
  /\ st \in EndStates \cup {"created", "queued"}
  /\ lost' \in {lost, lost \cup {t}}
  /\ (\E d \in D : task_state[d] \in Unfinished) => st = "created" /\ lost' = lost
  /\ ~ (\E d \in D : task_state[d] \in Unfinished) => st # "created" \/ lost' = lost \cup {t}
  /\ lost' # lost => st = "created"
  /\ \A d \in D : task_state[d] \in Unsuccessful => st \in {"dependent failed", "dependent cancelled"}

Graph(t) == Waits(t) /\ \A d \in after[t] : Edge(t, d)

LEMMA NewGraph ==
  ASSUME MInv, NEW D \in SUBSET Task, \A d \in D : D = {d} /\ d \in Made,
         NEW t, NEW st, Makes(t, D, st), Fitting(t, D, st), outcome' = outcome
  PROVE  \A x \in Task : Graph(x)'
<1>1. t \in Task /\ t \notin Made /\ t \notin D /\ after[t] = {} /\ t \notin lost
  BY DEF Makes, MInv, Tasks, Place
<1>2. ASSUME NEW x \in Task, NEW d \in after[x] PROVE d \in Made /\ d # t
  <2>1. Edge(x, d)
    BY DEF MInv, Tasks
  <2>2. QED
    BY <1>1, <2>1 DEF Edge
<1>3. \A x \in Task : following_tasks[x] \subseteq following_tasks'[x]
  BY DEF Makes
<1>4. ASSUME NEW x \in Task \ {t} PROVE Graph(x)'
  <2>1. /\ after'[x] = after[x] /\ task_state'[x] = task_state[x]
        /\ dependent_tasks'[x] = dependent_tasks[x]
        /\ x \in lost' <=> x \in lost
        /\ x \in late' <=> x \in late
    BY DEF Makes, Fitting
  <2>2. Waits(x) /\ \A d \in after[x] : Edge(x, d)
    BY DEF MInv, Tasks
  <2>3. ASSUME NEW d \in after[x]
        PROVE  /\ d \in Task \ {t} /\ task_state'[d] = task_state[d] /\ outcome'[d] = outcome[d]
               /\ d \in lost' <=> d \in lost
               /\ d \in Made'
    <3>1. d \in Task \ {t} /\ d \in Made
      BY <1>2 DEF MInv, ManagerType
    <3>2. QED
      BY <3>1 DEF Makes, Fitting
  <2>4. ASSUME task_state[x] = "created", x \notin lost PROVE Behind(x)'
    <3>1. Behind(x) /\ dependent_tasks[x] \subseteq after[x]
      BY <2>2, <2>4 DEF Waits
    <3>2. QED
      BY <1>3, <2>1, <2>3, <3>1 DEF Behind, MInv, ManagerType
  <2>5. ASSUME NEW f \in following_tasks'[x] PROVE x \in after'[f]
    <3>1. CASE f \in following_tasks[x]
      <4>1. x \in after[f] /\ f \in Task
        BY <2>2, <3>1 DEF Waits, MInv, ManagerType
      <4>2. f # t
        BY <1>1, <4>1
      <4>3. QED
        BY <4>1, <4>2 DEF Makes
    <3>2. CASE f \notin following_tasks[x]
      <4>1. f = t /\ x \in D
        BY <2>5, <3>2 DEF Makes
      <4>2. QED
        BY <4>1 DEF Makes
    <3>3. QED
      BY <3>1, <3>2
  <2>6. Waits(x)'
    BY <2>1, <2>2, <2>4, <2>5 DEF Waits
  <2>7. ASSUME NEW d \in after[x] PROVE Edge(x, d)'
    <3>1. Failing(d)' <=> Failing(d)
      BY <2>3, <2>7 DEF Failing
    <3>2. Edge(x, d)
      BY <2>2, <2>7
    <3>3. QED
      BY <1>3, <2>1, <2>3, <2>7, <3>1, <3>2 DEF Edge
  <2>8. QED
    BY <2>1, <2>6, <2>7 DEF Graph
<1>5. Graph(t)'
  <2>1. /\ after'[t] = D /\ task_state'[t] = st
        /\ dependent_tasks'[t] = {d \in D : task_state[d] \in Unfinished}
        /\ t \in late' <=> t \in late \/ \E d \in D : task_state[d] = "last callback queued"
    BY <1>1 DEF Makes
  <2>2. ASSUME NEW d \in D
        PROVE  /\ d \in Task \ {t} /\ task_state'[d] = task_state[d] /\ outcome'[d] = outcome[d]
               /\ d \in lost' <=> d \in lost
               /\ task_state[d] \in Unfinished => t \in following_tasks'[d]
               /\ d \in Made'
    BY <1>1 DEF Makes, Fitting
  <2>3. following_tasks'[t] = {}
    <3>1. \A f \in following_tasks[t] : FALSE
      BY <1>1, <1>2 DEF MInv, Tasks, Waits, ManagerType
    <3>2. QED
      BY <1>1, <3>1 DEF Makes
  <2>4. ASSUME st = "created", t \notin lost' PROVE Behind(t)'
    <3>1. PICK d \in D : task_state[d] \in Unfinished
      BY <2>4 DEF Fitting
    <3>2. QED
      BY <2>1, <2>2, <2>4, <3>1 DEF Behind
  <2>5. Waits(t)'
    BY <2>1, <2>3, <2>4 DEF Waits
  <2>6. ASSUME NEW d \in D PROVE Edge(t, d)'
    <3>1. D = {d}
      BY <2>6
    <3>2. CASE task_state[d] \in Unfinished
      <4>1. st = "created" /\ t \notin lost'
        BY <1>1, <2>6, <3>2 DEF Fitting
      <4>2. dependent_tasks'[t] = {d}
        BY <2>1, <3>1, <3>2
      <4>3. task_state[d] \notin Unsuccessful /\ task_state[d] # "last callback queued"
        BY <3>2 DEF Unfinished, Unsuccessful
      <4>4. ~Failing(d)'
        BY <2>2, <2>6, <4>3 DEF Failing
      <4>5. QED
        BY <2>1, <2>2, <2>6, <3>1, <4>1, <4>2, <4>4 DEF Edge
    <3>3. CASE task_state[d] \notin Unfinished
      <4>1. t \notin late' /\ Failing(d)' => st \in {"dependent failed", "dependent cancelled"}
        BY <2>1, <2>2, <2>6 DEF Failing, Fitting
      <4>2. QED
        BY <2>1, <2>2, <2>6, <3>1, <3>3, <4>1 DEF Edge
    <3>4. QED
      BY <3>2, <3>3
  <2>7. QED
    BY <2>1, <2>5, <2>6 DEF Graph
<1>6. QED
  BY <1>4, <1>5

LEMMA ExecutionScheduled ==
  ASSUME MInv, NEW t \in Task, t \notin Holds(execution_tasks), Execution!Schedule(t)
  PROVE  /\ execution_tasks' \in Seq(Task) /\ Once(execution_tasks)'
         /\ Holds(execution_tasks)' = Holds(execution_tasks) \cup {t}
         /\ execution_running' = execution_running /\ execution_threads' \in 0..1
<1>1. /\ execution_tasks' = Append(execution_tasks, t) /\ execution_running' = execution_running
      /\ execution_threads' \in IF Execution!AllMayBeBusy
           THEN {execution_threads, execution_threads + 1} \ {0} ELSE {execution_threads}
  BY DEF Execution!Schedule
<1>2. execution_threads \in 0..1 /\ execution_tasks \in Seq(Task) /\ Once(execution_tasks)
  BY DEF MInv, ManagerType, Threads
<1>3. execution_threads' \in 0..1
  <2>1. CASE Execution!AllMayBeBusy
    <3>1. execution_threads < 1
      BY <2>1 DEF Execution!AllMayBeBusy
    <3>2. QED
      BY <1>1, <1>2, <2>1, <3>1
  <2>2. CASE ~Execution!AllMayBeBusy
    BY <1>1, <1>2, <2>2
  <2>3. QED
    BY <2>1, <2>2
<1>4. QED
  BY <1>1, <1>2, <1>3, AppendHolds DEF Holds, Once

LEMMA CallbackScheduled ==
  ASSUME MInv, NEW t \in Task, t \notin Holds(callback_tasks), Callback!Schedule(t)
  PROVE  /\ callback_tasks' \in Seq(Task) /\ Once(callback_tasks)'
         /\ Holds(callback_tasks)' = Holds(callback_tasks) \cup {t}
         /\ callback_running' = callback_running /\ callback_threads' \in 0..1
<1>1. /\ callback_tasks' = Append(callback_tasks, t) /\ callback_running' = callback_running
      /\ callback_threads' \in IF Callback!AllMayBeBusy
           THEN {callback_threads, callback_threads + 1} \ {0} ELSE {callback_threads}
  BY DEF Callback!Schedule
<1>2. callback_threads \in 0..1 /\ callback_tasks \in Seq(Task) /\ Once(callback_tasks)
  BY DEF MInv, ManagerType, Threads
<1>3. callback_threads' \in 0..1
  <2>1. CASE Callback!AllMayBeBusy
    <3>1. callback_threads < 1
      BY <2>1 DEF Callback!AllMayBeBusy
    <3>2. QED
      BY <1>1, <1>2, <2>1, <3>1
  <2>2. CASE ~Callback!AllMayBeBusy
    BY <1>1, <1>2, <2>2
  <2>3. QED
    BY <2>1, <2>2
<1>4. QED
  BY <1>1, <1>2, <1>3, AppendHolds DEF Holds, Once

LEMMA NewPlaces ==
  ASSUME MInv, NEW D \in SUBSET Task, NEW t, NEW st, Makes(t, D, st), Fitting(t, D, st),
         UNCHANGED <<callbacks, step, execution_running>>,
         st = "queued" => Holds(execution_tasks)' = Holds(execution_tasks) \cup {t},
         st # "queued" => Holds(execution_tasks)' = Holds(execution_tasks),
         st \in EndStates => heard' = [heard EXCEPT ![t] = heard[t] + 1],
         st \notin EndStates => heard' = heard
  PROVE  \A x \in Task : Place(x)' /\ Told(x)'
<1>1. /\ t \in Task /\ t \notin Made /\ t \notin lost /\ Made' = Made \cup {t}
      /\ task_state[t] = "none" /\ heard[t] = 0
  BY DEF Makes, MInv, Tasks, Place
<1>2. Holds(callback_tasks)' = Holds(callback_tasks) /\ callback_running' = callback_running
  BY DEF callbacks, Holds
<1>3. ASSUME NEW x \in Task \ {t} PROVE Place(x)' /\ Told(x)'
  <2>1. /\ task_state'[x] = task_state[x] /\ heard'[x] = heard[x] /\ after'[x] = after[x]
        /\ x \in lost' <=> x \in lost
        /\ x \in Made' <=> x \in Made
        /\ x \in Holds(execution_tasks)' <=> x \in Holds(execution_tasks)
    <3>1. task_state'[x] = task_state[x] /\ after'[x] = after[x]
      BY DEF Makes
    <3>2. heard'[x] = heard[x]
      <4>1. heard \in [Task -> Nat]
        BY DEF MInv, ManagerType
      <4>2. heard' = heard \/ heard' = [heard EXCEPT ![t] = heard[t] + 1]
        OBVIOUS
      <4>3. QED
        BY <4>1, <4>2
    <3>3. (x \in lost' <=> x \in lost) /\ (x \in Made' <=> x \in Made)
      BY <1>1 DEF Fitting
    <3>4. x \in Holds(execution_tasks)' <=> x \in Holds(execution_tasks)
      OBVIOUS
    <3>5. QED
      BY <3>1, <3>2, <3>3, <3>4
  <2>2. Working(x)' <=> Working(x)
    BY DEF Working
  <2>3. Place(x) /\ Told(x)
    BY DEF MInv, Tasks
  <2>4. Place(x)'
    BY <1>2, <2>1, <2>2, <2>3 DEF Place
  <2>5. Told(x)'
    BY <1>2, <2>1, <2>2, <2>3 DEF Told
  <2>6. QED
    BY <2>4, <2>5
<1>4. Place(t)' /\ Told(t)'
  <2>1. Place(t)
    BY <1>1 DEF MInv, Tasks
  <2>2. ~Working(t) /\ t \notin Holds(execution_tasks) /\ t \notin Holds(callback_tasks) \cup callback_running
    BY <1>1, <2>1 DEF Place
  <2>3. task_state'[t] = st /\ ~Working(t)'
    BY <2>2 DEF Makes, Working
  <2>4. st \in EndStates \cup {"created", "queued"} /\ (t \in lost' => st = "created")
    BY <1>1 DEF Fitting
  <2>5. st \notin {"none", "processing", "last callback queued"}
    BY <2>4 DEF EndStates
  <2>6. Place(t)'
    BY <1>1, <1>2, <2>2, <2>3, <2>4, <2>5 DEF Place
  <2>7. CASE st \in EndStates
    <3>1. heard'[t] = 1
      <4>1. heard \in [Task -> Nat] /\ heard' = [heard EXCEPT ![t] = heard[t] + 1]
        BY <2>7 DEF MInv, ManagerType
      <4>2. QED
        BY <1>1, <4>1
    <3>3. st \notin {"created", "queued"}
      BY <2>7 DEF EndStates
    <3>2. QED
      BY <1>2, <2>2, <2>3, <2>6, <3>1, <3>3 DEF Told
  <2>8. CASE st \notin EndStates
    BY <1>1, <1>2, <2>2, <2>3, <2>6, <2>8 DEF Told
  <2>9. QED
    BY <2>6, <2>7, <2>8
<1>5. QED
  BY <1>3, <1>4

LEMMA AddKeeps ==
  ASSUME MInv, NEW s \in Session, NEW o, NEW D \in SUBSET Task, \A d \in D : D = {d} /\ d \in Made,
         NEW f \in Task, AddTask(s, o, D, f) \/ AddTaskFails(s, o, D, f),
         sessions' \subseteq Session, callback_step' \in {callback_step, "update"}
  PROVE  /\ MInv' /\ next_task_id_ \in Made' /\ Made \subseteq Made'
         /\ \A x \in Task : session_id'[x] = IF x = next_task_id_ THEN s ELSE session_id[x]
         /\ \A x \in Task \ {next_task_id_} : task_state'[x] = task_state[x]
<1>1. PICK t : t = next_task_id_
  OBVIOUS
<1>2. PICK st : st = IF Ended(D) THEN StateAtCreation(D)
                     ELSE IF AddTask(s, o, D, f) /\ Ready(D) THEN "queued" ELSE "created"
  OBVIOUS
<1>3. StateAtCreation(D) \in EndStates \cup {"created"}
  BY StateOfNew
<1>4. Created(s, o, D, f, st)
  BY <1>2 DEF AddTask, AddTaskFails, Ended, Ready, Waiting
<1>5. st \in EndStates \cup States /\ st \in EndStates \cup {"created", "queued"}
  BY <1>2, <1>3 DEF States, Ended
<1>6. Makes(t, D, st) /\ CreationType'
  BY <1>1, <1>4, <1>5, CreatedMakes DEF MInv
<1>7. /\ UNCHANGED <<cancelled, callbacks, thread>> /\ lost' \in {lost, lost \cup {t}}
      /\ st # "queued" => UNCHANGED execution
      /\ st = "queued" => Execution!Schedule(t)
      /\ st \in EndStates => heard' = [heard EXCEPT ![t] = heard[t] + 1]
      /\ st \notin EndStates => heard' = heard
  BY <1>1, <1>2, <1>3 DEF AddTask, AddTaskFails, Ended, Ready, Waiting, EndStates
<1>8. Fitting(t, D, st)
  <2>1. (\E d \in D : task_state[d] \in Unfinished) => st = "created" /\ lost' = lost
    <3>1. ASSUME NEW d \in D, task_state[d] \in Unfinished PROVE st = "created" /\ lost' = lost
      <4>1. D = {d} /\ task_state[d] \notin EndStates
        BY <3>1 DEF Unfinished, EndStates
      <4>2. ~Ended(D) /\ Waiting(D) /\ ~Ready(D)
        BY <3>1, <4>1, StateOfNew DEF Ended, Waiting, Ready
      <4>3. QED
        BY <1>2, <4>2 DEF AddTask, AddTaskFails
    <3>2. QED
      BY <3>1
  <2>2. ~ (\E d \in D : task_state[d] \in Unfinished) => st # "created" \/ lost' = lost \cup {t}
    BY <1>1, <1>2 DEF AddTask, AddTaskFails, Ended, Waiting, Ready
  <2>3. lost' # lost => st = "created"
    BY <1>2 DEF AddTask, AddTaskFails, Ended, Ready
  <2>4. \A d \in D : task_state[d] \in Unsuccessful => st \in {"dependent failed", "dependent cancelled"}
    BY <1>2, StateOfNew DEF Ended
  <2>5. QED
    BY <1>5, <1>7, <2>1, <2>2, <2>3, <2>4 DEF Fitting
<1>9. t \in Task /\ t \notin Holds(execution_tasks)
  BY <1>6 DEF Makes, MInv, Tasks, Place
<1>10. /\ execution_tasks' \in Seq(Task) /\ Once(execution_tasks)'
       /\ execution_running' = execution_running /\ execution_threads' \in 0..1
       /\ st = "queued" => Holds(execution_tasks)' = Holds(execution_tasks) \cup {t}
       /\ st # "queued" => Holds(execution_tasks)' = Holds(execution_tasks)
  <2>1. CASE st = "queued"
    BY <1>7, <1>9, <2>1, ExecutionScheduled
  <2>2. CASE st # "queued"
    <3>1. /\ execution_tasks' = execution_tasks /\ execution_running' = execution_running
          /\ execution_threads' = execution_threads
      BY <1>7, <2>2 DEF execution
    <3>2. execution_tasks \in Seq(Task) /\ Once(execution_tasks) /\ execution_threads \in 0..1
      BY DEF MInv, ManagerType, Threads
    <3>3. QED
      BY <2>2, <3>1, <3>2 DEF Once, Holds
  <2>3. QED
    BY <2>1, <2>2
<1>11. ManagerType'
  <2>1. heard' \in [Task -> Nat]
    <3>1. heard \in [Task -> Nat]
      BY DEF MInv, ManagerType
    <3>2. CASE st \in EndStates
      <4>1. PICK n \in Nat : n = heard[t] + 1
        BY <1>9, <3>1
      <4>2. heard' = [heard EXCEPT ![t] = n]
        BY <1>7, <3>2, <4>1
      <4>3. QED
        BY <3>1, <4>2
    <3>3. CASE st \notin EndStates
      BY <1>7, <3>1, <3>3
    <3>4. QED
      BY <3>2, <3>3
  <2>2. lost' \subseteq Task
    BY <1>7, <1>9 DEF MInv, ManagerType
  <2>3. QED
    BY <1>6, <1>7, <1>10, <2>1, <2>2 DEF MInv, ManagerType, CreationType, callbacks, thread
<1>12. Threads'
  BY <1>7, <1>10 DEF MInv, Threads, callbacks, thread, Once
<1>13. \A x \in Task : Graph(x)'
  BY <1>6, <1>7, <1>8, NewGraph DEF thread
<1>14. \A x \in Task : Place(x)' /\ Told(x)'
  BY <1>6, <1>7, <1>8, <1>10, NewPlaces DEF thread
<1>15. MInv'
  BY <1>11, <1>12, <1>13, <1>14 DEF MInv, Tasks, Graph
<1>16. \A x \in Task : session_id'[x] = IF x = next_task_id_ THEN s ELSE session_id[x]
  BY <1>4, <1>9 DEF Created, MInv, ManagerType
<1>17. QED
  BY <1>1, <1>6, <1>15, <1>16 DEF Makes

-----------------------------------------------------------------------------
(* The threads *)

\* A step that creates no task and changes no dependency.
LEMMA GraphStays ==
  ASSUME MInv, UNCHANGED <<created, dependent_tasks, following_tasks>>, lost \subseteq lost',
         \A x \in Task :
           /\ task_state'[x] = "created" <=> task_state[x] = "created"
           /\ task_state[x] \in Unfinished => task_state'[x] \in Unfinished
           /\ task_state'[x] \in Unfinished => task_state[x] \in Unfinished
           /\ Failing(x)' => Failing(x)
           /\ x \in lost' \ lost => task_state[x] # "created"
           /\ task_state[x] \in {"dependent failed", "dependent cancelled"} =>
                task_state'[x] = task_state[x]
           /\ task_state'[x] \in {"queued", "processing", "last callback queued"} =>
                task_state[x] \in {"queued", "processing", "last callback queued"}
  PROVE  \A x \in Task : Graph(x)'
<1>1. /\ after' = after /\ late' = late /\ dependent_tasks' = dependent_tasks
      /\ following_tasks' = following_tasks /\ Made' = Made
  BY DEF created, Made
<1>2. ASSUME NEW x \in Task PROVE Waits(x)'
  <2>1. Waits(x) /\ dependent_tasks[x] \subseteq Task
    BY DEF MInv, Tasks, ManagerType
  <2>2. Behind(x) => Behind(x)'
    BY <1>1, <2>1 DEF Behind
  <2>3. QED
    BY <1>1, <2>1, <2>2 DEF Waits
<1>3. ASSUME NEW x \in Task, NEW d \in after[x] PROVE Edge(x, d)'
  <2>1. Edge(x, d) /\ d \in Task
    BY <1>3 DEF MInv, Tasks, ManagerType
  <2>2. task_state'[d] \in Unfinished /\ d \notin lost' =>
          /\ task_state'[x] = "created" /\ x \notin lost'
          /\ x \in following_tasks'[d] /\ dependent_tasks'[x] = {d}
    BY <1>1, <2>1 DEF Edge
  <2>3. x \notin late' /\ Failing(d)' => task_state'[x] \in {"dependent failed", "dependent cancelled"}
    BY <1>1, <2>1 DEF Edge
  <2>4. task_state'[x] \in {"queued", "processing", "last callback queued"} =>
          task_state'[d] \notin Unfinished \/ d \in lost'
    BY <2>1 DEF Edge
  <2>5. QED
    BY <1>1, <2>1, <2>2, <2>3, <2>4 DEF Edge
<1>4. QED
  BY <1>1, <1>2, <1>3 DEF Graph

\* The invariant of the next state, from its parts.
LEMMA Assembled ==
  ASSUME ManagerType', Threads', \A x \in Task : Graph(x)', \A x \in Task : Place(x)' /\ Told(x)'
  PROVE  MInv'
BY DEF MInv, Tasks, Graph

\* None but a new task comes to life.
NoneRevived == \A x \in Task : Alive(x)' => Alive(x)

LEMMA StartKeeps ==
  ASSUME MInv, NEW t \in Task, StartTask(t)
  PROVE  MInv' /\ NoneRevived
<1>1. /\ step = "idle" /\ step' = "run" /\ execution_tasks # <<>> /\ t = Head(execution_tasks)
      /\ execution_tasks' = Tail(execution_tasks) /\ execution_running' = execution_running \cup {t}
      /\ execution_threads' = execution_threads
      /\ task_state' = [task_state EXCEPT ![t] = "processing"]
      /\ UNCHANGED <<created, sessions, cancelled, dependent_tasks, following_tasks,
                     callbacks, outcome, executor_held, callback_step, heard, lost>>
  BY DEF StartTask, Execution!Begin
<1>2. ManagerType /\ Threads
  BY DEF MInv
<1>3. execution_running = {} /\ execution_tasks \in Seq(Task) /\ Once(execution_tasks)
  BY <1>1, <1>2 DEF ManagerType, Threads
<1>4. /\ t \in Holds(execution_tasks) /\ execution_tasks' \in Seq(Task) /\ Once(execution_tasks)'
      /\ Holds(execution_tasks)' = Holds(execution_tasks) \ {t}
  <2>1. PICK q : q = Tail(execution_tasks)
    OBVIOUS
  <2>2. /\ t \in Holds(execution_tasks) /\ q \in Seq(Task) /\ Once(q)
        /\ Holds(q) = Holds(execution_tasks) \ {t}
    BY <1>1, <1>3, <2>1, TailHolds
  <2>3. execution_tasks' = q
    BY <1>1, <2>1
  <2>4. Once(execution_tasks)' /\ Holds(execution_tasks)' = Holds(q)
    BY <2>2, <2>3 DEF Once, Holds
  <2>5. QED
    BY <2>2, <2>3, <2>4
<1>5. task_state[t] = "queued" /\ Place(t) /\ Told(t)
  BY <1>4 DEF MInv, Tasks, Place
<1>6. \A x \in Task \ {t} : task_state'[x] = task_state[x]
  BY <1>1, <1>2 DEF ManagerType
<1>7. task_state'[t] = "processing"
  BY <1>1, <1>2 DEF ManagerType
<1>8. ManagerType'
  <2>1. task_state' \in [Task -> EndStates \cup States]
    BY <1>1, <1>2 DEF ManagerType, States
  <2>2. execution_running' \subseteq Task
    BY <1>1, <1>3
  <2>3. QED
    BY <1>1, <1>2, <1>4, <2>1, <2>2 DEF ManagerType, created, callbacks
<1>9. Threads'
  BY <1>1, <1>2, <1>3, <1>4 DEF Threads, callbacks, Once
<1>10. \A x \in Task : Graph(x)'
  <2>1. ASSUME NEW x \in Task, x # t PROVE Failing(x)' => Failing(x)
    BY <1>1, <1>6, <2>1 DEF Failing
  <2>2. ~Failing(t)'
    BY <1>7 DEF Failing, Unsuccessful
  <2>3. QED
    BY <1>1, <1>5, <1>6, <1>7, <2>1, <2>2, GraphStays DEF Unfinished
<1>11. ASSUME NEW x \in Task PROVE Place(x)' /\ Told(x)'
  <2>1. Place(x) /\ Told(x)
    BY DEF MInv, Tasks
  <2>2. ~Working(x) /\ (Working(x)' <=> x = t)
    BY <1>1, <1>3 DEF Working
  <2>3. /\ Holds(callback_tasks)' = Holds(callback_tasks) /\ callback_running' = callback_running
        /\ heard' = heard /\ lost' = lost /\ Made' = Made /\ after' = after
    BY <1>1 DEF callbacks, created, Holds, Made
  <2>4. CASE x = t
    <3>1. /\ t \notin lost /\ t \in Made /\ heard[t] = 0
          /\ t \notin Holds(callback_tasks) /\ t \notin callback_running
      BY <1>5 DEF Place, Told
    <3>2. Place(t)'
      BY <1>4, <1>7, <2>2, <2>3, <2>4, <3>1 DEF Place
    <3>3. Told(t)'
      BY <1>7, <2>3, <3>1 DEF Told, EndStates
    <3>4. QED
      BY <2>4, <3>2, <3>3
  <2>5. CASE x # t
    <3>1. Place(x)'
      BY <1>4, <1>6, <2>1, <2>2, <2>3, <2>5 DEF Place
    <3>2. Told(x)'
      BY <1>6, <2>1, <2>2, <2>3, <2>5 DEF Told
    <3>3. QED
      BY <3>1, <3>2
  <2>6. QED
    BY <2>4, <2>5
<1>12. NoneRevived
  BY <1>5, <1>6 DEF NoneRevived, Alive, Unfinished
<1>13. QED
  BY <1>8, <1>9, <1>10, <1>11, <1>12, Assembled

\* The states of tasks do not change.
LEMMA SameGraph ==
  ASSUME MInv, UNCHANGED <<created, graph>>, lost \subseteq lost',
         \A x \in Task : Failing(x)' => Failing(x),
         \A x \in lost' \ lost : task_state[x] # "created"
  PROVE  (\A x \in Task : Graph(x)') /\ NoneRevived
<1>1. UNCHANGED <<dependent_tasks, following_tasks>> /\ task_state' = task_state
  BY DEF graph
<1>2. \A x \in Task : Graph(x)'
  BY <1>1, GraphStays
<1>3. QED
  BY <1>1, <1>2 DEF NoneRevived, Alive

LEMMA RunKeeps ==
  ASSUME MInv, NEW t \in Task, RunTask(t)
  PROVE  MInv' /\ NoneRevived
<1>1. /\ step = "run" /\ step' = "finish" /\ t \in execution_running
      /\ UNCHANGED <<created, sessions, cancelled, graph, execution, callbacks,
                     callback_step, heard, lost>>
  BY DEF RunTask
<1>2. PICK o \in Outcomes(t) :
        outcome' = [outcome EXCEPT ![t] = o[1]] /\ executor_held' = o[2]
  BY DEF RunTask
<1>3. o \in {"done", "max tokens", "failed", "cancelled"} \X BOOLEAN
  BY <1>2 DEF Outcomes
<1>4. Working(t) /\ task_state[t] = "processing"
  BY <1>1 DEF Working, MInv, Tasks, Place
<1>5. ManagerType /\ Threads
  BY DEF MInv
<1>6. ManagerType'
  <2>1. outcome' \in [Task -> {"none", "done", "max tokens", "failed", "cancelled"}]
        /\ executor_held' \in BOOLEAN
    BY <1>2, <1>3, <1>5 DEF ManagerType
  <2>2. QED
    BY <1>1, <1>5, <2>1 DEF ManagerType, created, graph, execution, callbacks
<1>7. Threads'
  BY <1>1, <1>5 DEF Threads, execution, callbacks, Once
<1>8. \A x \in Task : Failing(x)' => Failing(x)
  <2>1. task_state' = task_state /\ \A x \in Task \ {t} : outcome'[x] = outcome[x]
    BY <1>1, <1>2, <1>5 DEF graph, ManagerType
  <2>2. QED
    BY <1>4, <2>1 DEF Failing, Unsuccessful
<1>9. (\A x \in Task : Graph(x)') /\ NoneRevived
  BY <1>1, <1>8, SameGraph
<1>10. ASSUME NEW x \in Task PROVE Place(x)' /\ Told(x)'
  <2>1. Place(x) /\ Told(x)
    BY DEF MInv, Tasks
  <2>2. Working(x)' <=> Working(x)
    BY <1>1 DEF Working, execution
  <2>3. QED
    BY <1>1, <2>1, <2>2 DEF Place, Told, created, graph, execution, callbacks, Holds, Made
<1>11. QED
  BY <1>6, <1>7, <1>9, <1>10, Assembled

LEMMA GivesUpKeeps ==
  ASSUME MInv, NEW t \in Task, RunTaskGivesUp(t)
  PROVE  MInv' /\ NoneRevived
<1>1. /\ step = "run" /\ step' = "return" /\ t \in execution_running
      /\ heard' = [heard EXCEPT ![t] = heard[t] + 1] /\ lost' = lost \cup {t}
      /\ UNCHANGED <<created, sessions, cancelled, graph, execution, callbacks,
                     outcome, executor_held, callback_step>>
  BY DEF RunTaskGivesUp
<1>2. Working(t) /\ Place(t) /\ Told(t)
  BY <1>1 DEF Working, MInv, Tasks
<1>3. task_state[t] = "processing" /\ heard[t] = 0
  BY <1>2 DEF Place, Told
<1>4. ManagerType /\ Threads
  BY DEF MInv
<1>5. heard' = [heard EXCEPT ![t] = 1]
  BY <1>1, <1>3
<1>6. ManagerType'
  <2>1. heard' \in [Task -> Nat]
    BY <1>4, <1>5 DEF ManagerType
  <2>2. QED
    BY <1>1, <1>4, <2>1 DEF ManagerType, created, graph, execution, callbacks
<1>7. Threads'
  BY <1>1, <1>4 DEF Threads, execution, callbacks, Once
<1>8. (\A x \in Task : Graph(x)') /\ NoneRevived
  <2>1. \A x \in Task : Failing(x)' => Failing(x)
    BY <1>1 DEF Failing, graph
  <2>2. QED
    BY <1>1, <1>3, <2>1, SameGraph
<1>9. ASSUME NEW x \in Task PROVE Place(x)' /\ Told(x)'
  <2>1. Place(x) /\ Told(x)
    BY DEF MInv, Tasks
  <2>2. ~Working(x)' /\ (x # t => ~Working(x))
    BY <1>1, <1>4 DEF Working, execution, Threads
  <2>3. /\ task_state' = task_state /\ Holds(execution_tasks)' = Holds(execution_tasks)
        /\ Holds(callback_tasks)' = Holds(callback_tasks) /\ callback_running' = callback_running
        /\ Made' = Made /\ after' = after
    BY <1>1 DEF created, graph, execution, callbacks, Holds, Made
  <2>4. CASE x = t
    <3>1. heard'[t] = 1 /\ t \notin callback_running /\ t \notin Holds(callback_tasks)
      BY <1>2, <1>3, <1>4, <1>5 DEF ManagerType, Place
    <3>2. t \in Made
      BY <1>2, <1>3 DEF Place
    <3>3. Place(t)'
      BY <1>1, <1>2, <1>3, <2>2, <2>3, <2>4, <3>2 DEF Place
    <3>4. Told(t)'
      BY <1>3, <2>2, <2>3, <2>4, <3>1 DEF Told, EndStates
    <3>5. QED
      BY <2>4, <3>3, <3>4
  <2>5. CASE x # t
    <3>1. heard'[x] = heard[x] /\ (x \in lost' <=> x \in lost)
      BY <1>1, <1>4, <1>5, <2>5 DEF ManagerType
    <3>2. Place(x)'
      BY <2>1, <2>2, <2>3, <2>5, <3>1 DEF Place
    <3>3. Told(x)'
      BY <2>1, <2>2, <2>3, <2>5, <3>1 DEF Told
    <3>4. QED
      BY <3>2, <3>3
  <2>6. QED
    BY <2>4, <2>5
<1>10. QED
  BY <1>6, <1>7, <1>8, <1>9, Assembled

LEMMA ReturnKeeps ==
  ASSUME MInv, NEW t \in Task, Resume(t) \/ TimeOut(t)
  PROVE  MInv' /\ NoneRevived
<1>1. /\ step \in {"return", "wait"} /\ step' = "idle" /\ t \in execution_running
      /\ execution_running' = execution_running \ {t} /\ executor_held' = FALSE
      /\ UNCHANGED <<execution_tasks, execution_threads>>
      /\ UNCHANGED <<created, sessions, cancelled, graph, callbacks, outcome,
                     callback_step, heard, lost>>
  BY DEF Resume, TimeOut, Return, Execution!End
<1>2. ManagerType /\ Threads
  BY DEF MInv
<1>3. execution_running' = {}
  BY <1>1, <1>2 DEF Threads
<1>4. ManagerType'
  BY <1>1, <1>2, <1>3 DEF ManagerType, created, graph, callbacks
<1>5. Threads'
  BY <1>1, <1>2, <1>3 DEF Threads, callbacks, Once
<1>6. (\A x \in Task : Graph(x)') /\ NoneRevived
  <2>1. \A x \in Task : Failing(x)' => Failing(x)
    BY <1>1 DEF Failing, graph
  <2>2. QED
    BY <1>1, <2>1, SameGraph
<1>7. ASSUME NEW x \in Task PROVE Place(x)' /\ Told(x)'
  <2>1. Place(x) /\ Told(x)
    BY DEF MInv, Tasks
  <2>2. ~Working(x) /\ ~Working(x)'
    BY <1>1 DEF Working
  <2>3. QED
    BY <1>1, <2>1, <2>2 DEF Place, Told, created, graph, callbacks, Holds, Made
<1>8. QED
  BY <1>4, <1>5, <1>6, <1>7, Assembled

LEMMA CallBackKeeps ==
  ASSUME MInv, NEW t \in Task, CallBack(t)
  PROVE  MInv' /\ NoneRevived
<1>1. /\ callback_step = "idle" /\ callback_step' \in {"decode", "update"}
      /\ callback_tasks # <<>> /\ t = Head(callback_tasks)
      /\ callback_tasks' = Tail(callback_tasks)
      /\ callback_running' = callback_running \cup {t} /\ callback_threads' = callback_threads
      /\ heard' = [heard EXCEPT ![t] = heard[t] + 1]
      /\ UNCHANGED <<created, sessions, cancelled, graph, execution, thread, lost>>
  BY DEF CallBack, Callback!Begin
<1>2. ManagerType /\ Threads
  BY DEF MInv
<1>3. callback_running = {} /\ callback_tasks \in Seq(Task) /\ Once(callback_tasks)
  BY <1>1, <1>2 DEF ManagerType, Threads
<1>4. /\ t \in Holds(callback_tasks) /\ callback_tasks' \in Seq(Task) /\ Once(callback_tasks)'
      /\ Holds(callback_tasks)' = Holds(callback_tasks) \ {t}
  <2>1. PICK q : q = Tail(callback_tasks)
    OBVIOUS
  <2>2. /\ t \in Holds(callback_tasks) /\ q \in Seq(Task) /\ Once(q)
        /\ Holds(q) = Holds(callback_tasks) \ {t}
    BY <1>1, <1>3, <2>1, TailHolds
  <2>3. callback_tasks' = q
    BY <1>1, <2>1
  <2>4. Once(callback_tasks)' /\ Holds(callback_tasks)' = Holds(q)
    BY <2>2, <2>3 DEF Once, Holds
  <2>5. QED
    BY <2>2, <2>3, <2>4
<1>5. Place(t) /\ Told(t)
  BY DEF MInv, Tasks
<1>6. task_state[t] = "last callback queued" /\ heard[t] = 0 /\ ~Working(t)
  BY <1>4, <1>5 DEF Place, Told
<1>7. heard' = [heard EXCEPT ![t] = 1]
  <2>1. heard[t] = 0
    BY <1>6
  <2>2. heard[t] + 1 = 1
    BY <2>1
  <2>3. heard' = [heard EXCEPT ![t] = heard[t] + 1]
    BY <1>1
  <2>4. QED
    BY <2>2, <2>3
<1>8. ManagerType'
  <2>1. heard' \in [Task -> Nat]
    BY <1>2, <1>7 DEF ManagerType
  <2>2. callback_running' \subseteq Task
    BY <1>1, <1>3
  <2>3. QED
    BY <1>1, <1>2, <1>4, <2>1, <2>2 DEF ManagerType, created, graph, execution, thread
<1>9. Threads'
  BY <1>1, <1>2, <1>3, <1>4 DEF Threads, execution, thread, Once
<1>10. (\A x \in Task : Graph(x)') /\ NoneRevived
  <2>1. \A x \in Task : Failing(x)' => Failing(x)
    BY <1>1 DEF Failing, graph, thread
  <2>2. QED
    BY <1>1, <2>1, SameGraph
<1>11. ASSUME NEW x \in Task PROVE Place(x)' /\ Told(x)'
  <2>1. Place(x) /\ Told(x)
    BY DEF MInv, Tasks
  <2>2. /\ task_state' = task_state /\ Holds(execution_tasks)' = Holds(execution_tasks)
        /\ Made' = Made /\ after' = after /\ lost' = lost /\ (Working(x)' <=> Working(x))
    BY <1>1 DEF created, graph, execution, thread, Holds, Made, Working
  <2>3. Place(x)'
    BY <1>1, <1>3, <1>4, <1>6, <1>7, <1>2, <2>1, <2>2 DEF Place, ManagerType
  <2>4. Told(x)'
    <3>1. CASE x = t
      <4>1. heard'[t] = 1 /\ t \notin Holds(callback_tasks)'
        BY <1>2, <1>4, <1>7 DEF ManagerType
      <4>2. QED
        BY <1>6, <2>2, <3>1, <4>1 DEF Told, EndStates
    <3>2. CASE x # t
      <4>1. heard'[x] = heard[x] /\ (x \in Holds(callback_tasks)' <=> x \in Holds(callback_tasks))
            /\ x \notin callback_running'
        BY <1>1, <1>2, <1>3, <1>4, <1>7, <3>2 DEF ManagerType
      <4>2. QED
        BY <2>1, <2>2, <4>1 DEF Told
    <3>3. QED
      BY <3>1, <3>2
  <2>5. QED
    BY <2>3, <2>4
<1>12. QED
  BY <1>8, <1>9, <1>10, <1>11, Assembled

LEMMA EndTaskKeeps ==
  ASSUME MInv, NEW t \in Task, EndTask(t)
  PROVE  MInv' /\ NoneRevived
<1>1. /\ callback_step = "update" /\ callback_step' = "idle" /\ t \in callback_running
      /\ callback_running' = callback_running \ {t}
      /\ UNCHANGED <<callback_tasks, callback_threads>>
      /\ task_state' = [task_state EXCEPT ![t] = outcome[t]]
      /\ UNCHANGED <<created, sessions, cancelled, dependent_tasks, following_tasks,
                     execution, thread, heard, lost>>
  BY DEF EndTask, Callback!End
<1>2. ManagerType /\ Threads
  BY DEF MInv
<1>3. callback_running' = {} /\ callback_running = {t}
  BY <1>1, <1>2 DEF Threads
<1>4. Place(t) /\ Told(t)
  BY DEF MInv, Tasks
<1>5. /\ task_state[t] = "last callback queued" /\ heard[t] = 1 /\ ~Working(t)
      /\ t \notin Holds(callback_tasks) /\ t \notin Holds(execution_tasks) /\ t \notin lost /\ t \in Made
  BY <1>1, <1>4 DEF Place, Told
<1>6. PICK o \in {"none", "done", "max tokens", "failed", "cancelled"} : o = outcome[t]
  BY <1>2 DEF ManagerType
<1>7. task_state'[t] = o /\ \A x \in Task \ {t} : task_state'[x] = task_state[x]
  BY <1>1, <1>2, <1>6 DEF ManagerType
<1>8. ManagerType'
  <2>1. task_state' \in [Task -> EndStates \cup States]
    <3>1. o \in EndStates \cup States
      BY DEF EndStates, States
    <3>2. QED
      BY <1>1, <1>2, <1>6, <3>1 DEF ManagerType
  <2>2. QED
    BY <1>1, <1>2, <1>3, <2>1 DEF ManagerType, created, execution, thread
<1>9. Threads'
  BY <1>1, <1>2, <1>3 DEF Threads, execution, thread, Once
<1>10. outcome' = outcome
  BY <1>1 DEF thread
<1>11. \A x \in Task : Graph(x)'
  <2>1. ASSUME NEW x \in Task PROVE Failing(x)' => Failing(x)
    <3>1. CASE x = t
      BY <1>5, <1>6, <1>7, <3>1 DEF Failing, Unsuccessful
    <3>2. CASE x # t
      BY <1>7, <1>10, <3>2 DEF Failing
    <3>3. QED
      BY <3>1, <3>2
  <2>2. ASSUME NEW x \in Task
        PROVE  /\ task_state'[x] = "created" <=> task_state[x] = "created"
               /\ task_state[x] \in Unfinished => task_state'[x] \in Unfinished
               /\ task_state'[x] \in Unfinished => task_state[x] \in Unfinished
               /\ task_state[x] \in {"dependent failed", "dependent cancelled"} =>
                    task_state'[x] = task_state[x]
               /\ task_state'[x] \in {"queued", "processing", "last callback queued"} =>
                    task_state[x] \in {"queued", "processing", "last callback queued"}
    <3>1. CASE x = t
      BY <1>5, <1>6, <1>7, <3>1 DEF Unfinished
    <3>2. CASE x # t
      BY <1>7, <3>2
    <3>3. QED
      BY <3>1, <3>2
  <2>3. UNCHANGED <<created, dependent_tasks, following_tasks>> /\ lost' = lost
    BY <1>1
  <2>4. QED
    BY <2>1, <2>2, <2>3, GraphStays
<1>12. ASSUME NEW x \in Task PROVE Place(x)' /\ Told(x)'
  <2>1. Place(x) /\ Told(x)
    BY DEF MInv, Tasks
  <2>2. /\ Holds(execution_tasks)' = Holds(execution_tasks) /\ heard' = heard
        /\ Holds(callback_tasks)' = Holds(callback_tasks)
        /\ Made' = Made /\ after' = after /\ lost' = lost /\ (Working(x)' <=> Working(x))
    BY <1>1 DEF created, execution, thread, Holds, Made, Working
  <2>3. CASE x = t
    <3>1. Place(t)'
      BY <1>3, <1>5, <1>6, <1>7, <2>2, <2>3 DEF Place
    <3>2. Told(t)'
      BY <1>3, <1>5, <1>6, <1>7, <2>2, <2>3 DEF Told
    <3>3. QED
      BY <2>3, <3>1, <3>2
  <2>4. CASE x # t
    <3>3. /\ task_state'[x] = task_state[x] /\ heard'[x] = heard[x]
          /\ x \notin callback_running /\ x \notin callback_running'
      BY <1>3, <1>7, <2>2, <2>4
    <3>1. Place(x)'
      BY <2>1, <2>2, <3>3 DEF Place
    <3>2. Told(x)'
      BY <2>1, <2>2, <3>3 DEF Told
    <3>4. QED
      BY <3>1, <3>2
  <2>5. QED
    BY <2>3, <2>4
<1>13. NoneRevived
  <2>1. o \notin Unfinished \cup {"last callback queued"}
    BY DEF Unfinished
  <2>2. QED
    BY <1>7, <2>1 DEF NoneRevived, Alive
<1>14. QED
  BY <1>8, <1>9, <1>11, <1>12, <1>13, Assembled

-----------------------------------------------------------------------------
(* The end of a task's work *)

\* The end of the work of task t, with which the tasks of G go from "created" to the
\* state st, and t to the state last.
Finishes(t, G, st, last) ==
  /\ step = "finish" /\ t \in execution_running /\ execution_running' = execution_running
  /\ UNCHANGED <<created, sessions, cancelled, following_tasks, outcome, executor_held, callback_step>>
  /\ \/ /\ last = "last callback queued" /\ Callback!Schedule(t)
        /\ step' = "wait" /\ lost' = lost
     \/ /\ last = "processing" /\ UNCHANGED callbacks
        /\ step' = "return" /\ lost' = lost \cup {t}
  /\ G \subseteq Task /\ t \notin G
  /\ \A x \in G : task_state[x] = "created" /\ x \notin lost
  /\ task_state'[t] = last /\ \A x \in G : task_state'[x] = st /\ dependent_tasks'[x] = {}
  /\ \A x \in Task \ (G \cup {t}) : task_state'[x] = task_state[x]
  /\ \A x \in Task \ G : dependent_tasks'[x] = dependent_tasks[x] /\ heard'[x] = heard[x]
  /\ \/ /\ st = "queued" /\ \A x \in G : heard'[x] = heard[x]
        /\ Holds(execution_tasks)' = Holds(execution_tasks) \cup G
     \/ /\ st \in {"dependent failed", "dependent cancelled"} /\ \A x \in G : heard'[x] = 1
        /\ Holds(execution_tasks)' = Holds(execution_tasks)

FinishType ==
  /\ task_state \in [Task -> EndStates \cup States] /\ dependent_tasks \in [Task -> SUBSET Task]
  /\ heard \in [Task -> Nat] /\ execution_tasks \in Seq(Task) /\ execution_threads \in 0..1
  /\ Once(execution_tasks)

LEMMA FinishPlaces ==
  ASSUME MInv, NEW t \in Task, NEW G, NEW st, NEW last, Finishes(t, G, st, last)
  PROVE  \A x \in Task : Place(x)' /\ Told(x)'
<1>1. Place(t) /\ Told(t) /\ Working(t)
  BY DEF MInv, Tasks, Finishes, Working
<1>2. /\ task_state[t] = "processing" /\ t \notin lost /\ heard[t] = 0 /\ t \in Made
      /\ t \notin Holds(callback_tasks) /\ t \notin callback_running
      /\ t \notin Holds(execution_tasks) /\ t \notin G
  BY <1>1 DEF Place, Told, Finishes
<1>3. Made' = Made /\ after' = after
  BY DEF Finishes, created, Made
<1>4. \A x \in Task : ~Working(x)'
  BY DEF Finishes, Working
<1>5. \A x \in Task \ {t} : ~Working(x)
  BY DEF Finishes, Working, MInv, Threads
<1>6. callback_running' = callback_running
  BY DEF Finishes, callbacks, Callback!Schedule
<1>7. /\ last = "last callback queued" => Holds(callback_tasks)' = Holds(callback_tasks) \cup {t}
      /\ last # "last callback queued" => Holds(callback_tasks)' = Holds(callback_tasks)
  <2>1. CASE last = "last callback queued"
    <3>1. Callback!Schedule(t)
      BY <2>1 DEF Finishes
    <3>2. QED
      BY <1>2, <2>1, <3>1, CallbackScheduled
  <2>2. CASE last # "last callback queued"
    <3>1. callback_tasks' = callback_tasks
      BY <2>2 DEF Finishes, callbacks
    <3>2. QED
      BY <2>2, <3>1 DEF Holds
  <2>3. QED
    BY <2>1, <2>2
<1>8. Place(t)' /\ Told(t)'
  <2>1. /\ task_state'[t] = last /\ heard'[t] = 0 /\ t \notin Holds(execution_tasks)'
        /\ last \in {"last callback queued", "processing"}
        /\ t \in lost' <=> last = "processing"
    BY <1>2 DEF Finishes
  <2>2. Place(t)'
    BY <1>2, <1>3, <1>4, <1>6, <1>7, <2>1 DEF Place
  <2>3. Told(t)'
    BY <1>2, <1>4, <1>6, <1>7, <2>1 DEF Told, EndStates
  <2>4. QED
    BY <2>2, <2>3
<1>9. ASSUME NEW x \in Task \ {t} PROVE Place(x)' /\ Told(x)'
  <2>1. Place(x) /\ Told(x)
    BY DEF MInv, Tasks
  <2>2. /\ x \in lost' <=> x \in lost
        /\ x \in Holds(callback_tasks)' <=> x \in Holds(callback_tasks)
    BY <1>7 DEF Finishes
  <2>3. CASE x \in G
    <3>1. /\ task_state[x] = "created" /\ task_state'[x] = st /\ x \notin lost
      BY <2>3 DEF Finishes
    <3>2. /\ x \in Made /\ heard[x] = 0 /\ x \notin Holds(execution_tasks)
          /\ x \notin Holds(callback_tasks) /\ x \notin callback_running
      BY <2>1, <3>1 DEF Place, Told
    <3>3. CASE st = "queued"
      <4>1. heard'[x] = 0 /\ x \in Holds(execution_tasks)'
        BY <2>3, <3>2, <3>3 DEF Finishes
      <4>2. Place(x)'
        BY <1>3, <1>4, <1>6, <2>2, <3>1, <3>2, <3>3, <4>1 DEF Place
      <4>3. Told(x)'
        BY <1>4, <1>6, <2>2, <3>1, <3>2, <3>3, <4>1 DEF Told, EndStates
      <4>4. QED
        BY <4>2, <4>3
    <3>4. CASE st # "queued"
      <4>1. /\ heard'[x] = 1 /\ x \notin Holds(execution_tasks)'
            /\ st \in {"dependent failed", "dependent cancelled"}
        BY <2>3, <3>2, <3>4 DEF Finishes
      <4>2. Place(x)'
        BY <1>3, <1>4, <1>6, <2>2, <3>1, <3>2, <4>1 DEF Place
      <4>3. Told(x)'
        BY <1>4, <1>6, <2>2, <3>1, <3>2, <4>1 DEF Told, EndStates
      <4>4. QED
        BY <4>2, <4>3
    <3>5. QED
      BY <3>3, <3>4
  <2>4. CASE x \notin G
    <3>1. /\ task_state'[x] = task_state[x] /\ heard'[x] = heard[x]
          /\ x \in Holds(execution_tasks)' <=> x \in Holds(execution_tasks)
      BY <2>4 DEF Finishes
    <3>2. ~Working(x) /\ ~Working(x)'
      BY <1>4, <1>5
    <3>3. Place(x)'
      BY <1>3, <1>6, <2>1, <2>2, <3>1, <3>2 DEF Place
    <3>4. Told(x)'
      BY <1>6, <2>1, <2>2, <3>1, <3>2 DEF Told
    <3>5. QED
      BY <3>3, <3>4
  <2>5. QED
    BY <2>3, <2>4
<1>10. QED
  BY <1>8, <1>9

\* The tasks that wait for the task are queued.
LEMMA ReleasedGraph ==
  ASSUME MInv, NEW t \in Task, NEW G, NEW last, Finishes(t, G, "queued", last),
         outcome[t] \notin {"failed", "cancelled"}, \A x \in Task : x \in G <=> t \in after[x]
  PROVE  \A x \in Task : Graph(x)'
<1>1. Working(t) /\ task_state[t] = "processing" /\ t \notin lost /\ t \notin G
  BY DEF MInv, Tasks, Finishes, Working, Place
<1>2. /\ after' = after /\ late' = late /\ following_tasks' = following_tasks
      /\ Made' = Made /\ outcome' = outcome
  BY DEF Finishes, created, Made
<1>3. /\ task_state'[t] = last /\ last \in {"last callback queued", "processing"}
      /\ t \in lost' <=> last = "processing"
      /\ \A x \in Task \ {t} : x \in lost' <=> x \in lost
      /\ lost \subseteq lost'
  BY <1>1 DEF Finishes
<1>4. \A x \in G : /\ x \in Task \ {t} /\ task_state[x] = "created" /\ x \notin lost
                   /\ task_state'[x] = "queued" /\ dependent_tasks'[x] = {}
  BY DEF Finishes
<1>5. \A x \in Task \ (G \cup {t}) :
        task_state'[x] = task_state[x] /\ dependent_tasks'[x] = dependent_tasks[x]
  BY DEF Finishes
<1>6. \A x \in Task : Waits(x) /\ after[x] \subseteq Task /\ \A d \in after[x] : Edge(x, d)
  BY DEF MInv, ManagerType, Tasks
<1>7. ~Failing(t)' /\ \A x \in G : ~Failing(x)'
  BY <1>2, <1>3, <1>4 DEF Failing, Unsuccessful
<1>8. ASSUME NEW x \in Task, x \notin G, x # t PROVE Graph(x)'
  <2>1. Waits(x) /\ t \notin after[x]
    BY <1>6, <1>8
  <2>2. task_state'[x] = task_state[x] /\ dependent_tasks'[x] = dependent_tasks[x]
        /\ (x \in lost' <=> x \in lost)
    BY <1>3, <1>5, <1>8
  <2>3. ASSUME NEW d \in after[x]
        PROVE  /\ d \in Task /\ d # t /\ Edge(x, d)
               /\ d \in lost' <=> d \in lost
               /\ task_state[d] \in Unfinished <=> task_state'[d] \in Unfinished
               /\ Failing(d)' => Failing(d)
    <3>1. d \in Task /\ d # t /\ Edge(x, d) /\ (d \in lost' <=> d \in lost)
      BY <1>3, <1>6, <2>1, <2>3
    <3>2. CASE d \in G
      BY <1>4, <1>7, <3>1, <3>2 DEF Unfinished
    <3>3. CASE d \notin G
      BY <1>2, <1>5, <3>1, <3>3 DEF Failing
    <3>4. QED
      BY <3>1, <3>2, <3>3
  <2>4. Behind(x) => Behind(x)'
    BY <1>2, <2>1, <2>2, <2>3 DEF Behind, Waits
  <2>5. Waits(x)'
    BY <1>2, <2>1, <2>2, <2>4 DEF Waits
  <2>6. ASSUME NEW d \in after[x] PROVE Edge(x, d)'
    BY <1>2, <2>2, <2>3, <2>6 DEF Edge
  <2>7. QED
    BY <1>2, <2>5, <2>6 DEF Graph
<1>9. ASSUME NEW x \in G PROVE Graph(x)'
  <2>1. Waits(x)'
    BY <1>2, <1>4, <1>6, <1>9 DEF Waits
  <2>2. ASSUME NEW d \in after[x] PROVE Edge(x, d)'
    <3>1. Edge(x, d) /\ d = t
      BY <1>4, <1>6, <1>9, <2>2, ZenonT(60) DEF Edge
    <3>2. task_state'[t] \notin Unfinished \/ t \in lost'
      BY <1>3 DEF Unfinished
    <3>3. QED
      BY <1>2, <1>4, <1>7, <1>9, <3>1, <3>2 DEF Edge
  <2>3. QED
    BY <1>2, <2>1, <2>2 DEF Graph
<1>10. Graph(t)'
  <2>1. Waits(t)'
    <3>1. dependent_tasks'[t] = dependent_tasks[t]
      BY <1>1 DEF Finishes
    <3>2. QED
      BY <1>2, <1>3, <1>6, <3>1 DEF Waits
  <2>2. ASSUME NEW d \in after[t] PROVE Edge(t, d)'
    <3>1. Edge(t, d) /\ d \in Task
      BY <1>6, <2>2
    <3>2. task_state[d] \notin Unfinished \/ d \in lost
      BY <1>1, <3>1 DEF Edge
    <3>3. d # t /\ d \notin G
      BY <1>1, <1>4, <3>2 DEF Unfinished
    <3>4. task_state'[d] = task_state[d] /\ (d \in lost' <=> d \in lost)
      BY <1>3, <1>5, <3>1, <3>3
    <3>5. Failing(d)' => t \in late
      BY <1>1, <1>2, <3>1, <3>4 DEF Failing, Edge
    <3>6. QED
      BY <1>2, <3>1, <3>2, <3>4, <3>5 DEF Edge
  <2>3. QED
    BY <1>2, <2>1, <2>2 DEF Graph
<1>11. QED
  BY <1>8, <1>9, <1>10

\* The tasks that wait for the task, those that wait for these, and so on, end.
LEMMA DroppedGraph ==
  ASSUME MInv, NEW t \in Task, NEW G, NEW st, NEW last, Finishes(t, G, st, last),
         st \in {"dependent failed", "dependent cancelled"},
         \A x \in Task : \A d \in after[x] : d \in G \cup {t} <=> x \in G
  PROVE  \A x \in Task : Graph(x)'
<1>1. Working(t) /\ task_state[t] = "processing" /\ t \notin lost /\ t \notin G
  BY DEF MInv, Tasks, Finishes, Working, Place
<1>2. /\ after' = after /\ late' = late /\ following_tasks' = following_tasks
      /\ Made' = Made /\ outcome' = outcome
  BY DEF Finishes, created, Made
<1>3. /\ task_state'[t] = last /\ last \in {"last callback queued", "processing"}
      /\ t \in lost' <=> last = "processing"
      /\ \A x \in Task \ {t} : x \in lost' <=> x \in lost
      /\ lost \subseteq lost'
  BY <1>1 DEF Finishes
<1>4. \A x \in G : x \in Task \ {t} /\ task_state'[x] = st /\ dependent_tasks'[x] = {}
  BY DEF Finishes
<1>5. /\ \A x \in Task \ (G \cup {t}) : task_state'[x] = task_state[x]
      /\ \A x \in Task \ G : dependent_tasks'[x] = dependent_tasks[x]
  BY DEF Finishes
<1>6. \A x \in Task : Waits(x) /\ after[x] \subseteq Task /\ \A d \in after[x] : Edge(x, d)
  BY DEF MInv, ManagerType, Tasks
<1>7. ASSUME NEW x \in Task, NEW d \in after[x], x \notin G
      PROVE  /\ d \in Task \ {t} /\ Edge(x, d) /\ task_state'[d] = task_state[d]
             /\ d \in lost' <=> d \in lost
             /\ Failing(d)' <=> Failing(d)
  <2>1. d \in Task /\ d \notin G \cup {t} /\ Edge(x, d)
    BY <1>6, <1>7
  <2>2. task_state'[d] = task_state[d] /\ (d \in lost' <=> d \in lost)
    BY <1>3, <1>5, <2>1
  <2>3. QED
    BY <1>2, <2>1, <2>2 DEF Failing
<1>8. ASSUME NEW x \in Task, x \notin G, x # t PROVE Graph(x)'
  <2>1. Waits(x)
    BY <1>6
  <2>2. task_state'[x] = task_state[x] /\ dependent_tasks'[x] = dependent_tasks[x]
        /\ (x \in lost' <=> x \in lost)
    BY <1>3, <1>5, <1>8
  <2>3. Behind(x) => Behind(x)'
    BY <1>2, <1>7, <1>8, <2>1, <2>2 DEF Behind, Waits
  <2>4. Waits(x)'
    BY <1>2, <2>1, <2>2, <2>3 DEF Waits
  <2>5. ASSUME NEW d \in after[x] PROVE Edge(x, d)'
    BY <1>2, <1>7, <1>8, <2>2, <2>5 DEF Edge
  <2>6. QED
    BY <1>2, <2>4, <2>5 DEF Graph
<1>9. ASSUME NEW x \in G PROVE Graph(x)'
  <2>1. st \notin Unfinished \cup {"queued", "processing", "last callback queued"}
    BY DEF Unfinished
  <2>2. Waits(x)'
    BY <1>2, <1>4, <1>6, <1>9, <2>1 DEF Waits, Unfinished
  <2>3. ASSUME NEW d \in after[x] PROVE Edge(x, d)'
    <3>1. Edge(x, d) /\ d \in G \cup {t}
      BY <1>4, <1>6, <1>9, <2>3
    <3>2. task_state'[d] \notin Unfinished \/ d \in lost'
      BY <1>3, <1>4, <2>1, <3>1 DEF Unfinished
    <3>3. task_state'[x] = st
      BY <1>4
    <3>4. QED
      BY <1>2, <2>1, <3>1, <3>2, <3>3 DEF Edge
  <2>4. QED
    BY <1>2, <2>2, <2>3 DEF Graph
<1>10. Graph(t)'
  <2>1. Waits(t)'
    BY <1>1, <1>2, <1>3, <1>5, <1>6 DEF Waits
  <2>2. ASSUME NEW d \in after[t] PROVE Edge(t, d)'
    <3>1. /\ d \in Task \ {t} /\ Edge(t, d) /\ task_state'[d] = task_state[d]
          /\ (d \in lost' <=> d \in lost) /\ (Failing(d)' <=> Failing(d))
      BY <1>1, <1>7
    <3>2. task_state[d] \notin Unfinished \/ d \in lost
      BY <1>1, <3>1 DEF Edge
    <3>3. Failing(d) => t \in late
      BY <1>1, <3>1 DEF Edge
    <3>4. QED
      BY <1>2, <3>1, <3>2, <3>3 DEF Edge
  <2>3. QED
    BY <1>2, <2>1, <2>2 DEF Graph
<1>11. QED
  BY <1>8, <1>9, <1>10

LEMMA FinishesKeeps ==
  ASSUME MInv, NEW t \in Task, NEW G, NEW st, NEW last, Finishes(t, G, st, last), FinishType',
         \A x \in Task : Graph(x)'
  PROVE  MInv' /\ NoneRevived
<1>1. Place(t) /\ Working(t) /\ task_state[t] = "processing" /\ t \notin Holds(callback_tasks)
  BY DEF MInv, Tasks, Finishes, Working, Place
<1>2. ManagerType /\ Threads
  BY DEF MInv
<1>3. /\ execution_running' = execution_running /\ callback_running' = callback_running
      /\ callback_tasks' \in Seq(Task) /\ callback_threads' \in 0..1 /\ Once(callback_tasks)'
  <2>1. CASE Callback!Schedule(t)
    BY <1>1, <1>2, <2>1, CallbackScheduled DEF Finishes
  <2>2. CASE UNCHANGED callbacks
    BY <1>2, <2>2 DEF Finishes, callbacks, ManagerType, Threads, Once
  <2>3. QED
    BY <2>1, <2>2 DEF Finishes
<1>4. lost' \subseteq Task /\ step' \in {"wait", "return"}
  BY <1>2 DEF Finishes, ManagerType
<1>5. ManagerType'
  BY <1>2, <1>3, <1>4 DEF Finishes, FinishType, ManagerType, created
<1>6. Threads'
  BY <1>2, <1>3, <1>4 DEF Finishes, FinishType, Threads
<1>7. NoneRevived
  <2>1. ASSUME NEW x \in Task, x \in G \cup {t} PROVE Alive(x)
    BY <1>1, <2>1 DEF Finishes, Alive, Unfinished
  <2>2. ASSUME NEW x \in Task, x \notin G \cup {t} PROVE Alive(x)' <=> Alive(x)
    BY <2>2 DEF Finishes, Alive
  <2>3. QED
    BY <2>1, <2>2 DEF NoneRevived
<1>8. QED
  BY <1>5, <1>6, <1>7, FinishPlaces, Assembled

\* A task that another was created to depend on, which has not done its work, has
\* the other as follower.
LEMMA Followers ==
  ASSUME MInv, NEW d \in Task, task_state[d] \in Unfinished, d \notin lost, NEW x \in Task
  PROVE  /\ d \in after[x] <=> x \in following_tasks[d]
         /\ d \in after[x] => /\ task_state[x] = "created" /\ x \notin lost /\ Alive(x)
                              /\ after[x] = {d} /\ dependent_tasks[x] = {d}
<1>1. Waits(d) /\ \A e \in after[x] : Edge(x, e)
  BY DEF MInv, Tasks
<1>2. x \in following_tasks[d] => d \in after[x]
  BY <1>1 DEF Waits
<1>3. ASSUME d \in after[x]
      PROVE  /\ x \in following_tasks[d] /\ task_state[x] = "created" /\ x \notin lost
             /\ after[x] = {d} /\ dependent_tasks[x] = {d}
  BY <1>1, <1>3 DEF Edge
<1>4. QED
  BY <1>2, <1>3 DEF Alive, Unfinished

LEMMA DroppedTasks ==
  ASSUME MInv, NEW t \in Task, Working(t), NEW G, G = FollowingWaitingTasks(t)
  PROVE  /\ G \subseteq Task /\ t \notin G
         /\ \A x \in G : task_state[x] = "created" /\ x \notin lost
         /\ \A x \in Task : \A d \in after[x] : d \in G \cup {t} <=> x \in G
<1> DEFINE Closed(S) == \A u \in S \cup {t} : \A f \in following_tasks[u] : Alive(f) => f \in S
<1>1. G = {u \in Task : \A S \in SUBSET Task : Closed(S) => u \in S}
  BY DEF FollowingWaitingTasks
<1>2. task_state[t] = "processing" /\ t \notin lost
  BY DEF MInv, Tasks, Place
<1>3. G \subseteq Task
  BY <1>1
<1>4. \A u \in Task : following_tasks[u] \subseteq Task
  BY DEF MInv, ManagerType
<1>5. Closed(G)
  <2>1. ASSUME NEW u \in G \cup {t}, NEW f \in following_tasks[u], Alive(f) PROVE f \in G
    <3>1. f \in Task
      BY <1>3, <1>4
    <3>2. ASSUME NEW S \in SUBSET Task, Closed(S) PROVE f \in S
      <4>1. u \in S \cup {t}
        BY <1>1, <3>2
      <4>2. QED
        BY <2>1, <3>2, <4>1
    <3>3. QED
      BY <1>1, <3>1, <3>2
  <2>2. QED
    BY <2>1
<1>6. PICK R \in SUBSET Task :
        R = {x \in G : /\ task_state[x] = "created" /\ x \notin lost
                       /\ \E d \in after[x] : d \in G \cup {t}}
  BY <1>3
<1>7. Closed(R)
  <2>1. ASSUME NEW u \in R \cup {t}, NEW f \in following_tasks[u], Alive(f) PROVE f \in R
    <3>1. u \in Task /\ u \in G \cup {t} /\ task_state[u] \in Unfinished /\ u \notin lost
      BY <1>2, <1>6 DEF Unfinished
    <3>2. f \in Task /\ f \in G
      BY <1>4, <1>5, <2>1, <3>1
    <3>3. u \in after[f] /\ task_state[f] = "created" /\ f \notin lost
      BY <3>1, <3>2, Followers
    <3>4. QED
      BY <1>6, <3>1, <3>2, <3>3
  <2>2. QED
    BY <2>1
<1>8. \A x \in G : x \in R
  BY <1>1, <1>7
<1>9. \A x \in G : task_state[x] = "created" /\ x \notin lost
  BY <1>6, <1>8
<1>10. ASSUME NEW x \in Task, NEW d \in after[x] PROVE d \in G \cup {t} <=> x \in G
  <2>1. ASSUME d \in G \cup {t} PROVE x \in G
    <3>1. d \in Task /\ task_state[d] \in Unfinished /\ d \notin lost
      BY <1>2, <1>3, <1>9, <2>1 DEF Unfinished
    <3>2. x \in following_tasks[d] /\ Alive(x)
      BY <3>1, Followers
    <3>3. QED
      BY <1>5, <2>1, <3>2
  <2>2. ASSUME x \in G PROVE d \in G \cup {t}
    <3>1. PICK e \in after[x] : e \in G \cup {t}
      BY <1>6, <1>8, <2>2
    <3>2. Edge(x, d)
      BY DEF MInv, Tasks
    <3>3. QED
      BY <3>1, <3>2 DEF Edge
  <2>3. QED
    BY <2>1, <2>2
<1>11. QED
  BY <1>2, <1>3, <1>9, <1>10

\* What FinishTask does besides the states of tasks.
Ends(t, last) ==
  /\ step = "finish" /\ t \in execution_running
  /\ UNCHANGED <<created, sessions, cancelled, following_tasks, outcome, executor_held, callback_step>>
  /\ \/ /\ last = "last callback queued" /\ Callback!Schedule(t)
        /\ step' = "wait" /\ lost' = lost
     \/ /\ last = "processing" /\ UNCHANGED callbacks
        /\ step' = "return" /\ lost' = lost \cup {t}

LEMMA OneMore ==
  ASSUME heard \in [Task -> Nat], NEW G \in SUBSET Task, \A x \in G : heard[x] = 0,
         heard' = [f \in Task |-> IF f \in G THEN heard[f] + 1 ELSE heard[f]]
  PROVE  /\ heard' \in [Task -> Nat] /\ \A x \in G : heard'[x] = 1
         /\ \A x \in Task \ G : heard'[x] = heard[x]
<1>1. ASSUME NEW x \in G PROVE heard'[x] = 1
  OBVIOUS
<1>2. \A x \in Task \ G : heard'[x] = heard[x]
  OBVIOUS
<1>3. \A x \in Task : heard'[x] \in Nat
  BY <1>1, <1>2
<1>4. QED
  BY <1>1, <1>2, <1>3

LEMMA DropKeeps ==
  ASSUME MInv, NEW t \in Task, NEW last, Ends(t, last),
         NEW st \in {"dependent failed", "dependent cancelled"}, Drop(t, st, last)
  PROVE  MInv' /\ NoneRevived
<1>1. PICK G : G = FollowingWaitingTasks(t)
  OBVIOUS
<1>2. Working(t)
  BY DEF Ends, Working
<1>3. /\ G \subseteq Task /\ t \notin G
      /\ \A x \in G : task_state[x] = "created" /\ x \notin lost
      /\ \A x \in Task : \A d \in after[x] : d \in G \cup {t} <=> x \in G
  BY <1>1, <1>2, DroppedTasks
<1>4. /\ dependent_tasks' = [f \in Task |-> IF f \in G THEN {} ELSE dependent_tasks[f]]
      /\ task_state' = [f \in Task |->
           IF f = t THEN last ELSE IF f \in G THEN st ELSE task_state[f]]
      /\ heard' = [f \in Task |-> IF f \in G THEN heard[f] + 1 ELSE heard[f]]
      /\ execution_tasks' = execution_tasks /\ execution_running' = execution_running
      /\ execution_threads' = execution_threads
  BY <1>1 DEF Drop, execution
<1>5. /\ heard' \in [Task -> Nat] /\ \A x \in G : heard'[x] = 1
      /\ \A x \in Task \ G : heard'[x] = heard[x]
  <2>1. heard \in [Task -> Nat]
    BY DEF MInv, ManagerType
  <2>2. \A x \in G : heard[x] = 0
    BY <1>3 DEF MInv, Tasks, Told
  <2>3. heard' = [f \in Task |-> IF f \in G THEN heard[f] + 1 ELSE heard[f]]
    BY <1>4
  <2>4. G \in SUBSET Task
    BY <1>3
  <2>5. QED
    BY <2>1, <2>2, <2>3, <2>4, OneMore
<1>6. /\ dependent_tasks' \in [Task -> SUBSET Task] /\ \A x \in G : dependent_tasks'[x] = {}
      /\ \A x \in Task \ G : dependent_tasks'[x] = dependent_tasks[x]
  BY <1>3, <1>4 DEF MInv, ManagerType
<1>7. /\ task_state' \in [Task -> EndStates \cup States]
      /\ task_state'[t] = last /\ \A x \in G : task_state'[x] = st
      /\ \A x \in Task \ (G \cup {t}) : task_state'[x] = task_state[x]
  <2>1. last \in EndStates \cup States /\ st \in EndStates \cup States
    BY DEF Ends, EndStates, States
  <2>2. task_state \in [Task -> EndStates \cup States]
    BY DEF MInv, ManagerType
  <2>3. QED
    BY <1>3, <1>4, <2>1, <2>2
<1>8. Finishes(t, G, st, last)
  <2>1. Holds(execution_tasks)' = Holds(execution_tasks)
    BY <1>4 DEF Holds
  <2>2. QED
    BY <1>3, <1>4, <1>5, <1>6, <1>7, <2>1 DEF Finishes, Ends
<1>9. FinishType'
  <2>1. execution_tasks \in Seq(Task) /\ execution_threads \in 0..1 /\ Once(execution_tasks)
    BY DEF MInv, ManagerType, Threads
  <2>2. execution_tasks' \in Seq(Task) /\ execution_threads' \in 0..1 /\ Once(execution_tasks)'
    BY <1>4, <2>1 DEF Once
  <2>3. QED
    BY <1>5, <1>6, <1>7, <2>2 DEF FinishType
<1>10. \A x \in Task : Graph(x)'
  BY <1>3, <1>8, DroppedGraph
<1>11. QED
  BY <1>8, <1>9, <1>10, FinishesKeeps

LEMMA ReleaseKeeps ==
  ASSUME MInv, NEW t \in Task, NEW last, Ends(t, last),
         outcome[t] \notin {"failed", "cancelled"}, Release(t, last)
  PROVE  MInv' /\ NoneRevived
<1>1. PICK G \in SUBSET Task : \A x \in Task : x \in G <=> t \in after[x]
  <2>1. {x \in Task : t \in after[x]} \in SUBSET Task
    OBVIOUS
  <2>2. QED
    BY <2>1
<1>2. Working(t) /\ task_state[t] = "processing" /\ t \notin lost
  BY DEF Ends, Working, MInv, Tasks, Place
<1>3. \A x \in Task : /\ x \in G <=> x \in following_tasks[t]
                      /\ x \in G => /\ task_state[x] = "created" /\ x \notin lost /\ Alive(x)
                                    /\ dependent_tasks[x] = {t}
  BY <1>1, <1>2, Followers DEF Unfinished
<1>4. t \notin G
  BY <1>2, <1>3
<1>5. {f \in following_tasks[t] : Alive(f)} = G
  BY <1>3 DEF MInv, ManagerType
<1>6. {f \in G : dependent_tasks[f] = {t}} = G
  BY <1>3
<1>7. /\ dependent_tasks' = [f \in Task |->
           IF f \in G THEN dependent_tasks[f] \ {t} ELSE dependent_tasks[f]]
      /\ task_state' = [f \in Task |->
           IF f = t THEN last ELSE IF f \in G THEN "queued" ELSE task_state[f]]
      /\ heard' = heard
  BY <1>5, <1>6 DEF Release
<1>8. PICK order \in [1..Cardinality(G) -> G] :
        {order[n] : n \in DOMAIN order} = G /\ Execution!ScheduleAll(order)
  BY <1>5, <1>6 DEF Release
<1>9. order \in Seq(Task) /\ Once(order) /\ Holds(order) = G
  BY <1>8, OrderHolds, TasksFinite
<1>10. /\ execution_tasks' = execution_tasks \o order
       /\ execution_running' = execution_running /\ execution_threads' = execution_threads
  BY <1>8 DEF Execution!ScheduleAll
<1>11. /\ execution_tasks' \in Seq(Task) /\ Once(execution_tasks)'
       /\ Holds(execution_tasks)' = Holds(execution_tasks) \cup G
  <2>1. execution_tasks \in Seq(Task) /\ Once(execution_tasks)
    BY DEF MInv, ManagerType, Threads
  <2>2. Holds(execution_tasks) \cap Holds(order) = {}
    BY <1>3, <1>9 DEF MInv, Tasks, Place
  <2>3. PICK q : q = execution_tasks \o order
    OBVIOUS
  <2>4. q \in Seq(Task) /\ Once(q) /\ Holds(q) = Holds(execution_tasks) \cup G
    BY <1>9, <2>1, <2>2, <2>3, ConcatHolds
  <2>5. execution_tasks' = q
    BY <1>10, <2>3
  <2>6. Once(execution_tasks)' /\ Holds(execution_tasks)' = Holds(q)
    BY <2>4, <2>5 DEF Once, Holds
  <2>7. QED
    BY <2>4, <2>5, <2>6
<1>12. /\ dependent_tasks' \in [Task -> SUBSET Task] /\ \A x \in G : dependent_tasks'[x] = {}
       /\ \A x \in Task \ G : dependent_tasks'[x] = dependent_tasks[x]
  BY <1>3, <1>7 DEF MInv, ManagerType
<1>13. /\ task_state' \in [Task -> EndStates \cup States]
       /\ task_state'[t] = last /\ \A x \in G : task_state'[x] = "queued"
       /\ \A x \in Task \ (G \cup {t}) : task_state'[x] = task_state[x]
  <2>1. last \in EndStates \cup States /\ "queued" \in EndStates \cup States
    BY DEF Ends, EndStates, States
  <2>2. task_state \in [Task -> EndStates \cup States]
    BY DEF MInv, ManagerType
  <2>3. QED
    BY <1>4, <1>7, <2>1, <2>2
<1>14. Finishes(t, G, "queued", last)
  BY <1>3, <1>4, <1>7, <1>10, <1>11, <1>12, <1>13 DEF Finishes, Ends
<1>15. FinishType'
  BY <1>7, <1>10, <1>11, <1>12, <1>13 DEF FinishType, MInv, ManagerType
<1>16. \A x \in Task : Graph(x)'
  BY <1>1, <1>14, ReleasedGraph
<1>17. QED
  BY <1>14, <1>15, <1>16, FinishesKeeps

LEMMA FinishKeeps ==
  ASSUME MInv, NEW t \in Task, FinishTask(t)
  PROVE  MInv' /\ NoneRevived
<1>1. PICK last : Finish(t, last) /\ Ends(t, last)
  BY DEF FinishTask, Ends
<1>2. CASE outcome[t] = "failed"
  BY <1>1, <1>2, DropKeeps DEF Finish
<1>3. CASE outcome[t] = "cancelled"
  BY <1>1, <1>3, DropKeeps DEF Finish
<1>4. CASE outcome[t] \notin {"failed", "cancelled"}
  <2>1. Release(t, last)
    BY <1>1, <1>4 DEF Finish
  <2>2. QED
    BY <1>1, <1>4, <2>1, ReleaseKeeps
<1>5. QED
  BY <1>2, <1>3, <1>4

-----------------------------------------------------------------------------
(* Sessions *)

\* A step that leaves the tasks and the threads' places alone.
LEMMA ManagerStays ==
  ASSUME MInv, UNCHANGED <<created, graph, execution, callbacks, thread, heard, lost>>,
         sessions' \subseteq Session, cancelled' \subseteq Task,
         callback_step' \in {callback_step, "update"}
  PROVE  MInv' /\ NoneRevived
<1>1. ManagerType /\ Threads
  BY DEF MInv
<1>2. ManagerType'
  BY <1>1 DEF ManagerType, created, graph, execution, callbacks, thread
<1>3. Threads'
  BY <1>1 DEF Threads, execution, callbacks, thread, Once
<1>4. (\A x \in Task : Graph(x)') /\ NoneRevived
  <2>1. \A x \in Task : Failing(x)' => Failing(x)
    BY DEF Failing, graph, thread
  <2>2. QED
    BY <2>1, SameGraph
<1>5. ASSUME NEW x \in Task PROVE Place(x)' /\ Told(x)'
  <2>1. Place(x) /\ Told(x)
    BY DEF MInv, Tasks
  <2>2. Working(x)' <=> Working(x)
    BY DEF Working, execution, thread
  <2>3. QED
    BY <2>1, <2>2 DEF Place, Told, created, graph, execution, callbacks, Holds, Made
<1>6. QED
  BY <1>2, <1>3, <1>4, <1>5, Assembled

\* A step in no session.
LEMMA SessionStays ==
  ASSUME IInv, UNCHANGED <<created, sessions, session>>, NoneRevived
  PROVE  SInv'
<1>1. SInv
  BY DEF IInv
<1>2. SessionType'
  BY <1>1 DEF SInv, SessionType, session
<1>3. ASSUME NEW s \in Session PROVE Ordered(s)'
  BY <1>1 DEF SInv, Ordered, InUse, Made, created, session
<1>4. \A t \in Task : Alive(t)' => session_id'[t] \in sessions'
  BY <1>1 DEF SInv, NoneRevived, created
<1>5. QED
  BY <1>2, <1>3, <1>4 DEF SInv

LEMMA ThreadKeeps ==
  ASSUME IInv, ExecutionThread
  PROVE  IInv'
<1>1. PICK t \in Task : StartTask(t) \/ RunTask(t) \/ RunTaskGivesUp(t) \/ FinishTask(t)
                          \/ Resume(t) \/ TimeOut(t)
  BY DEF ExecutionThread
<1>2. MInv /\ UNCHANGED session
  BY DEF IInv, ExecutionThread
<1>3. MInv' /\ NoneRevived
  BY <1>1, <1>2, StartKeeps, RunKeeps, GivesUpKeeps, FinishKeeps, ReturnKeeps
<1>4. UNCHANGED <<created, sessions>>
  BY <1>1 DEF StartTask, RunTask, RunTaskGivesUp, FinishTask, Resume, TimeOut, Return
<1>5. QED
  BY <1>2, <1>3, <1>4, SessionStays DEF IInv

LEMMA CallbacksKeep ==
  ASSUME IInv, NEW t \in Task, CallBack(t) \/ EndTask(t), UNCHANGED session
  PROVE  IInv'
<1>1. MInv' /\ NoneRevived
  BY CallBackKeeps, EndTaskKeeps DEF IInv
<1>2. UNCHANGED <<created, sessions>>
  BY DEF CallBack, EndTask
<1>3. QED
  BY <1>1, <1>2, SessionStays DEF IInv

LEMMA CancelKeeps ==
  ASSUME IInv, \/ \E t \in Task : Cancel(t)
               \/ \E s \in Session : CancelAllTasksInSession(s),
         UNCHANGED session
  PROVE  IInv'
<1>1. cancelled' \subseteq Task
  <2>1. cancelled \subseteq Task /\ flag \in [Task -> Task]
    BY DEF IInv, MInv, ManagerType
  <2>2. CASE \E t \in Task : Cancel(t)
    BY <2>1, <2>2 DEF Cancel
  <2>3. CASE \E s \in Session : CancelAllTasksInSession(s)
    BY <2>1, <2>3 DEF CancelAllTasksInSession, Active
  <2>4. QED
    BY <2>2, <2>3
<1>2. UNCHANGED <<created, sessions, graph, execution, callbacks, thread,
                 callback_step, heard, lost>>
  BY DEF Cancel, CancelAllTasksInSession
<1>3. MInv' /\ NoneRevived
  <2>1. sessions' \subseteq Session
    BY <1>2 DEF IInv, MInv, ManagerType
  <2>2. QED
    BY <1>1, <1>2, <2>1, ManagerStays DEF IInv
<1>4. QED
  BY <1>2, <1>3, SessionStays DEF IInv

\* What a call that adds a task to a session leaves true of the sessions.
LEMMA Added ==
  ASSUME IInv, NEW s \in Session, s \in sessions', sessions \subseteq sessions',
         next_task_id_ \in Made', Made \subseteq Made',
         \A x \in Task : session_id'[x] = IF x = next_task_id_ THEN s ELSE session_id[x],
         \A x \in Task \ {next_task_id_} : task_state'[x] = task_state[x],
         SessionType',
         \A x \in Session : last_task_ids_'[x] \in {last_task_ids_[x], {next_task_id_}},
         \A x \in Session : InUse(x)' => InUse(x) \/ x \in sessions',
         \A x \in Session : mutex_'[x] # Free => InUse(x)'
  PROVE  SInv'
<1>1. SInv
  BY DEF IInv
<1>2. ASSUME NEW x \in Session PROVE Ordered(x)'
  BY <1>1 DEF SInv, Ordered
<1>3. ASSUME NEW x \in Task, Alive(x)' PROVE session_id'[x] \in sessions'
  <2>1. CASE x = next_task_id_
    BY <2>1
  <2>2. CASE x # next_task_id_
    <3>1. Alive(x)
      BY <1>3, <2>2 DEF Alive
    <3>2. session_id[x] \in sessions
      BY <1>1, <3>1 DEF SInv
    <3>3. QED
      BY <2>2, <3>2
  <2>3. QED
    BY <2>1, <2>2
<1>4. QED
  BY <1>2, <1>3 DEF SInv

LEMMA Dependencies ==
  ASSUME IInv, NEW s \in Session, InUse(s)
  PROVE  /\ s \in sessions /\ Depends(s) \in SUBSET Task
         /\ \A d \in Depends(s) : Depends(s) = {d} /\ d \in Made
BY DEF IInv, SInv, SessionType, Ordered, Depends

LEMMA NewIsTask ==
  ASSUME NEW s, NEW o, NEW D, NEW f, AddTask(s, o, D, f) \/ AddTaskFails(s, o, D, f)
  PROVE  next_task_id_ \in Task
BY DEF AddTask, AddTaskFails, Created

LEMMA SessionsKnown ==
  ASSUME IInv
  PROVE  sessions \subseteq Session /\ SessionType /\ \A s \in Session : Ordered(s)
BY DEF IInv, MInv, ManagerType, SInv

LEMMA PrefillKeeps ==
  ASSUME IInv, NEW s \in Session, NEW kind, RunPrefillAsync(s, kind)
  PROVE  IInv'
<1>1. PICK t : t = next_task_id_
  OBVIOUS
<1>2. PICK o, D : o = Op(kind, s) /\ D = Depends(s)
  OBVIOUS
<1>3. /\ InUse(s) /\ UNCHANGED <<sessions, callback_step, mutex_, checkpoint, silent>>
      /\ AddTask(s, o, D, t) \/ AddTaskFails(s, o, D, t)
      /\ session_state_' \in {session_state_, [session_state_ EXCEPT ![s] = "prefilled"]}
      /\ last_task_ids_' \in {last_task_ids_, [last_task_ids_ EXCEPT ![s] = {t}]}
  BY <1>1, <1>2 DEF RunPrefillAsync, Enter, Becomes
<1>4. SessionType /\ sessions' \subseteq Session
  BY <1>3, SessionsKnown
<1>5. t \in Task
  BY <1>1, <1>3, NewIsTask
<1>6. /\ MInv' /\ t \in Made' /\ Made \subseteq Made'
      /\ \A x \in Task : session_id'[x] = IF x = next_task_id_ THEN s ELSE session_id[x]
      /\ \A x \in Task \ {next_task_id_} : task_state'[x] = task_state[x]
  BY <1>1, <1>2, <1>3, <1>4, <1>5, Dependencies, AddKeeps DEF IInv
<1>7. SessionType'
  BY <1>3, <1>4, <1>5 DEF SessionType
<1>8. \A x \in Session : last_task_ids_'[x] \in {last_task_ids_[x], {t}}
  BY <1>3, <1>4 DEF SessionType
<1>9. \A x \in Session : InUse(x)' <=> InUse(x)
  BY <1>3, <1>4 DEF SessionType, InUse
<1>10. \A x \in Session : mutex_'[x] # Free => InUse(x)'
  BY <1>3, <1>9, SessionsKnown DEF Ordered
<1>11. s \in sessions'
  BY <1>3, Dependencies
<1>12. SInv'
  BY <1>1, <1>3, <1>6, <1>7, <1>8, <1>9, <1>10, <1>11, Added
<1>13. QED
  BY <1>6, <1>12 DEF IInv

LEMMA ScoringKeeps ==
  ASSUME IInv, NEW s \in Session, RunTextScoringAsync(s)
  PROVE  IInv'
<1>1. PICK t : t = next_task_id_
  OBVIOUS
<1>2. PICK o, D : o = Op("score", s) /\ D = Depends(s)
  OBVIOUS
<1>3. /\ InUse(s) /\ UNCHANGED <<sessions, callback_step, session>>
      /\ AddTask(s, o, D, t) \/ AddTaskFails(s, o, D, t)
  BY <1>1, <1>2 DEF RunTextScoringAsync, Enter
<1>4. SessionType /\ sessions' \subseteq Session
  BY <1>3, SessionsKnown
<1>5. t \in Task
  BY <1>1, <1>3, NewIsTask
<1>6. /\ MInv' /\ t \in Made' /\ Made \subseteq Made'
      /\ \A x \in Task : session_id'[x] = IF x = next_task_id_ THEN s ELSE session_id[x]
      /\ \A x \in Task \ {next_task_id_} : task_state'[x] = task_state[x]
  BY <1>1, <1>2, <1>3, <1>4, <1>5, Dependencies, AddKeeps DEF IInv
<1>7. SessionType' /\ last_task_ids_' = last_task_ids_
  BY <1>3, <1>4 DEF SessionType, session
<1>8. \A x \in Session : InUse(x)' <=> InUse(x)
  BY <1>3 DEF InUse, session
<1>9. \A x \in Session : mutex_'[x] # Free => InUse(x)'
  BY <1>3, <1>8, SessionsKnown DEF Ordered, session
<1>10. s \in sessions'
  BY <1>3, Dependencies
<1>11. SInv'
  BY <1>1, <1>3, <1>6, <1>7, <1>8, <1>9, <1>10, Added
<1>12. QED
  BY <1>6, <1>11 DEF IInv

LEMMA StartDecodeKeeps ==
  ASSUME IInv, NEW s \in Session, NEW who \in {"user", "callback"}, StartDecode(s, who)
  PROVE  IInv'
<1>1. PICK t : t = next_task_id_
  OBVIOUS
<1>2. PICK o, D : o = Op("template", s) /\ D = Depends(s)
  OBVIOUS
<1>3. /\ session_state_[s] = "prefilled" /\ session_state_' = [session_state_ EXCEPT ![s] = "decoded"]
      /\ UNCHANGED <<sessions, callback_step, checkpoint, silent>>
  BY DEF StartDecode
<1>4. SessionType /\ sessions' \subseteq Session /\ InUse(s)
  BY <1>3, SessionsKnown DEF InUse
<1>5. \A x \in Session : InUse(x)' <=> InUse(x)
  BY <1>3, <1>4 DEF SessionType, InUse
<1>6. session_state_' \in [Session -> {"none", "fresh", "prefilled", "decoded", "destroyed"}]
  BY <1>3, <1>4 DEF SessionType
<1>7. CASE /\ AddTask(s, o, D, t) /\ Becomes(s)
           /\ mutex_' = [mutex_ EXCEPT ![s] = <<who, t>>]
  <2>1. t \in Task
    BY <1>1, <1>7, NewIsTask
  <2>2. /\ MInv' /\ t \in Made' /\ Made \subseteq Made'
        /\ \A x \in Task : session_id'[x] = IF x = next_task_id_ THEN s ELSE session_id[x]
        /\ \A x \in Task \ {next_task_id_} : task_state'[x] = task_state[x]
    BY <1>1, <1>2, <1>3, <1>4, <1>7, <2>1, Dependencies, AddKeeps DEF IInv
  <2>3. last_task_ids_' = [last_task_ids_ EXCEPT ![s] = {t}]
    BY <1>1, <1>7 DEF Becomes
  <2>4. <<who, t>> \in Halves \X (0..MaxTasks)
    <3>1. t \in 0..MaxTasks
      BY <2>1, BoundsAssumption DEF Task
    <3>2. who \in Halves
      BY DEF Halves
    <3>3. QED
      BY <3>1, <3>2
  <2>5. SessionType'
    BY <1>3, <1>4, <1>6, <1>7, <2>1, <2>3, <2>4 DEF SessionType
  <2>6. \A x \in Session : last_task_ids_'[x] \in {last_task_ids_[x], {t}}
    BY <1>4, <2>3 DEF SessionType
  <2>7. \A x \in Session : mutex_'[x] # Free => InUse(x)'
    BY <1>4, <1>5, <1>7, SessionsKnown DEF SessionType, Ordered
  <2>8. s \in sessions'
    BY <1>3, <1>4, Dependencies
  <2>9. SInv'
    BY <1>1, <1>3, <1>5, <2>2, <2>5, <2>6, <2>7, <2>8, Added
  <2>10. QED
    BY <2>2, <2>9 DEF IInv
<1>8. CASE /\ mutex_' = [mutex_ EXCEPT ![s] = <<who, 0>>]
           /\ UNCHANGED <<created, cancelled, graph, execution, callbacks, thread,
                          heard, lost, last_task_ids_>>
  <2>1. MInv' /\ NoneRevived
    <3>1. cancelled' \subseteq Task
      BY <1>8 DEF IInv, MInv, ManagerType
    <3>2. QED
      BY <1>3, <1>4, <1>8, <3>1, ManagerStays DEF IInv
  <2>2. <<who, 0>> \in Halves \X (0..MaxTasks)
    <3>1. 0 \in 0..MaxTasks
      BY BoundsAssumption
    <3>2. who \in Halves
      BY DEF Halves
    <3>3. QED
      BY <3>1, <3>2
  <2>3. SessionType'
    BY <1>3, <1>4, <1>6, <1>8, <2>2 DEF SessionType
  <2>4. ASSUME NEW x \in Session PROVE Ordered(x)'
    <3>1. Ordered(x) /\ Ordered(s)
      BY SessionsKnown
    <3>2. mutex_'[x] # Free => InUse(x)
      BY <1>4, <1>8, <3>1 DEF SessionType, Ordered
    <3>3. QED
      BY <1>3, <1>5, <1>8, <3>1, <3>2 DEF Ordered, Made, created
  <2>5. \A x \in Task : Alive(x)' => session_id'[x] \in sessions'
    BY <1>3, <1>8, <2>1 DEF IInv, SInv, NoneRevived, created
  <2>6. QED
    BY <2>1, <2>3, <2>4, <2>5 DEF IInv, SInv
<1>9. QED
  BY <1>1, <1>2, <1>7, <1>8 DEF StartDecode

LEMMA AddDecodeKeeps ==
  ASSUME IInv, NEW s \in Session, AddDecode(s)
  PROVE  IInv'
<1>1. PICK t : t = next_task_id_
  OBVIOUS
<1>2. PICK f : f = IF mutex_[s][2] = 0 THEN next_task_id_ ELSE mutex_[s][2]
  OBVIOUS
<1>3. PICK o, D : o = Op("decode", s) /\ D = Depends(s)
  OBVIOUS
<1>4. /\ mutex_[s][1] \in {"user", "callback"} /\ AddTask(s, o, D, f) /\ Becomes(s)
      /\ mutex_' = [mutex_ EXCEPT ![s] = Free]
      /\ callback_step' \in {callback_step, "update"}
      /\ UNCHANGED <<sessions, session_state_, checkpoint, silent>>
  BY <1>2, <1>3 DEF AddDecode
<1>5. SessionType /\ sessions' \subseteq Session /\ Ordered(s)
  BY <1>4, SessionsKnown
<1>6. InUse(s)
  BY <1>4, <1>5 DEF Ordered, Free
<1>7. t \in Task
  BY <1>1, <1>4, NewIsTask
<1>8. f \in Task
  <2>1. mutex_[s][2] \in 0..MaxTasks
    BY <1>5 DEF SessionType
  <2>2. mutex_[s][2] # 0 => mutex_[s][2] \in Task
    BY <2>1, BoundsAssumption DEF Task
  <2>3. QED
    BY <1>1, <1>2, <1>7, <2>2
<1>9. /\ MInv' /\ t \in Made' /\ Made \subseteq Made'
      /\ \A x \in Task : session_id'[x] = IF x = next_task_id_ THEN s ELSE session_id[x]
      /\ \A x \in Task \ {next_task_id_} : task_state'[x] = task_state[x]
  BY <1>1, <1>3, <1>4, <1>5, <1>6, <1>8, Dependencies, AddKeeps DEF IInv
<1>10. last_task_ids_' = [last_task_ids_ EXCEPT ![s] = {t}]
  BY <1>1, <1>4 DEF Becomes
<1>11. Free \in Halves \X (0..MaxTasks)
  <2>1. 0 \in 0..MaxTasks
    BY BoundsAssumption
  <2>2. QED
    BY <2>1 DEF Free, Halves
<1>12. SessionType'
  BY <1>4, <1>5, <1>7, <1>10, <1>11 DEF SessionType
<1>13. \A x \in Session : last_task_ids_'[x] \in {last_task_ids_[x], {t}}
  BY <1>5, <1>10 DEF SessionType
<1>14. \A x \in Session : InUse(x)' <=> InUse(x)
  BY <1>4 DEF InUse
<1>15. \A x \in Session : mutex_'[x] # Free => InUse(x)'
  BY <1>4, <1>5, <1>14, SessionsKnown DEF SessionType, Ordered
<1>16. s \in sessions'
  BY <1>4, <1>6, Dependencies
<1>17. SInv'
  BY <1>1, <1>4, <1>9, <1>12, <1>13, <1>14, <1>15, <1>16, Added
<1>18. QED
  BY <1>9, <1>17 DEF IInv

LEMMA CloneKeeps ==
  ASSUME IInv, NEW s \in Session, NEW c \in Session, CloneAsync(s, c)
  PROVE  IInv'
<1>1. PICK t : t = next_task_id_
  OBVIOUS
<1>2. PICK o, D : o = Op("clone", c) /\ D = Depends(s)
  OBVIOUS
<1>3. /\ InUse(s) /\ session_state_[c] = "none" /\ sessions' = sessions \cup {c}
      /\ AddTask(s, o, D, t) \/ AddTaskFails(s, o, D, t)
      /\ session_state_' \in {session_state_, [session_state_ EXCEPT ![c] = session_state_[s]]}
      /\ last_task_ids_' \in {last_task_ids_, [last_task_ids_ EXCEPT ![s] = {t}, ![c] = {t}]}
      /\ UNCHANGED <<callback_step, mutex_, checkpoint, silent>>
  BY <1>1, <1>2 DEF CloneAsync, Enter
<1>4. SessionType /\ sessions' \subseteq Session
  BY <1>3, SessionsKnown
<1>5. t \in Task
  BY <1>1, <1>3, NewIsTask
<1>6. /\ MInv' /\ t \in Made' /\ Made \subseteq Made'
      /\ \A x \in Task : session_id'[x] = IF x = next_task_id_ THEN s ELSE session_id[x]
      /\ \A x \in Task \ {next_task_id_} : task_state'[x] = task_state[x]
  BY <1>1, <1>2, <1>3, <1>4, <1>5, Dependencies, AddKeeps DEF IInv
<1>7. SessionType'
  <2>1. last_task_ids_' \in [Session -> SUBSET Task]
    BY <1>3, <1>4, <1>5 DEF SessionType
  <2>2. session_state_' \in [Session -> {"none", "fresh", "prefilled", "decoded", "destroyed"}]
    <3>1. session_state_[s] \in {"none", "fresh", "prefilled", "decoded", "destroyed"}
      BY <1>4 DEF SessionType
    <3>2. QED
      BY <1>3, <1>4, <3>1 DEF SessionType
  <2>3. QED
    BY <1>3, <1>4, <2>1, <2>2 DEF SessionType
<1>8. \A x \in Session : last_task_ids_'[x] \in {last_task_ids_[x], {t}}
  BY <1>3, <1>4 DEF SessionType
<1>9. \A x \in Session \ {c} : InUse(x)' <=> InUse(x)
  BY <1>3, <1>4 DEF SessionType, InUse
<1>10. \A x \in Session : mutex_'[x] # Free => InUse(x)'
  <2>1. ~InUse(c)
    BY <1>3 DEF InUse
  <2>2. mutex_[c] = Free
    BY <2>1, SessionsKnown DEF Ordered
  <2>3. QED
    BY <1>3, <1>9, <2>2, SessionsKnown DEF Ordered
<1>11. s \in sessions' /\ sessions \subseteq sessions' /\ c \in sessions'
  BY <1>3, Dependencies
<1>12. \A x \in Session : InUse(x)' => InUse(x) \/ x \in sessions'
  BY <1>9, <1>11
<1>13. SInv'
  BY <1>1, <1>6, <1>7, <1>8, <1>10, <1>11, <1>12, Added
<1>14. QED
  BY <1>6, <1>13 DEF IInv

\* The steps that change a session alone.
LEMMA CheckpointKeeps ==
  ASSUME IInv, NEW s \in Session, SaveCheckpoint(s) \/ RewindToCheckpoint(s) \/ HaveExecutor(s)
  PROVE  IInv'
<1>1. /\ UNCHANGED <<manager, last_task_ids_, silent>>
      /\ mutex_' \in {[mutex_ EXCEPT ![s] = Free], [mutex_ EXCEPT ![s] = <<"save", 0>>],
                      [mutex_ EXCEPT ![s] = <<"rewind", 0>>]}
  BY DEF SaveCheckpoint, RewindToCheckpoint, HaveExecutor
<1>2. SessionType /\ sessions \subseteq Session /\ \A x \in Session : Ordered(x)
  BY SessionsKnown
<1>3. InUse(s)
  BY <1>2 DEF SaveCheckpoint, RewindToCheckpoint, HaveExecutor, Enter, Ordered, Free
<1>4. \/ session_state_' = session_state_
      \/ /\ session_state_' = [session_state_ EXCEPT ![s] = checkpoint[s]]
         /\ checkpoint[s] # "none" /\ checkpoint[s] \in {"fresh", "prefilled", "decoded"}
  BY <1>2 DEF SaveCheckpoint, RewindToCheckpoint, HaveExecutor, SessionType
<1>5. /\ session_state_' \in [Session -> {"none", "fresh", "prefilled", "decoded", "destroyed"}]
      /\ \A x \in Session : InUse(x)' <=> InUse(x)
  BY <1>2, <1>3, <1>4 DEF SessionType, InUse
<1>6. checkpoint' \in [Session -> {"none", "fresh", "prefilled", "decoded"}]
  <2>1. session_state_[s] \in {"fresh", "prefilled", "decoded"}
    BY <1>3 DEF InUse
  <2>2. checkpoint' \in {checkpoint, [checkpoint EXCEPT ![s] = session_state_[s]]}
    BY DEF SaveCheckpoint, RewindToCheckpoint, HaveExecutor
  <2>3. QED
    BY <1>2, <2>1, <2>2 DEF SessionType
<1>7. mutex_' \in [Session -> Halves \X (0..MaxTasks)]
  <2>1. 0 \in 0..MaxTasks
    BY BoundsAssumption
  <2>2. <<"save", 0>> \in Halves \X (0..MaxTasks) /\ <<"rewind", 0>> \in Halves \X (0..MaxTasks)
        /\ Free \in Halves \X (0..MaxTasks)
    BY <2>1 DEF Halves, Free
  <2>3. QED
    BY <1>1, <1>2, <2>2 DEF SessionType
<1>8. MInv' /\ NoneRevived
  <2>1. /\ UNCHANGED <<created, graph, execution, callbacks, thread, heard, lost>>
        /\ sessions' = sessions /\ cancelled' = cancelled /\ callback_step' = callback_step
    BY <1>1 DEF manager
  <2>2. cancelled' \subseteq Task
    BY <2>1 DEF IInv, MInv, ManagerType
  <2>3. QED
    BY <1>2, <2>1, <2>2, ManagerStays DEF IInv
<1>9. SessionType'
  BY <1>1, <1>2, <1>5, <1>6, <1>7 DEF SessionType
<1>10. ASSUME NEW x \in Session PROVE Ordered(x)'
  <2>1. Ordered(x)
    BY <1>2
  <2>2. mutex_'[x] # Free => InUse(x)
    BY <1>1, <1>2, <1>3, <2>1 DEF SessionType, Ordered
  <2>3. QED
    BY <1>1, <1>5, <2>1, <2>2 DEF Ordered, Made, created, manager
<1>11. \A x \in Task : Alive(x)' => session_id'[x] \in sessions'
  BY <1>1, <1>8 DEF IInv, SInv, NoneRevived, created, manager
<1>12. QED
  BY <1>8, <1>9, <1>10, <1>11 DEF IInv, SInv

LEMMA DestroyKeeps ==
  ASSUME IInv, NEW s \in Session, Destroy(s)
  PROVE  IInv'
<1>1. /\ mutex_[s] = Free /\ Active(s) = {} /\ sessions' = sessions \ {s}
      /\ session_state_' = [session_state_ EXCEPT ![s] = "destroyed"]
      /\ UNCHANGED <<created, cancelled, graph, execution, callbacks, thread,
                     callback_step, heard, lost, last_task_ids_, mutex_, checkpoint, silent>>
  BY DEF Destroy, Enter
<1>2. SessionType /\ sessions \subseteq Session /\ \A x \in Session : Ordered(x)
  BY SessionsKnown
<1>3. MInv' /\ NoneRevived
  <2>1. sessions' \subseteq Session /\ cancelled' \subseteq Task
    BY <1>1, <1>2 DEF IInv, MInv, ManagerType
  <2>2. QED
    BY <1>1, <2>1, ManagerStays DEF IInv
<1>4. SessionType'
  BY <1>1, <1>2 DEF SessionType
<1>5. ASSUME NEW x \in Session PROVE Ordered(x)'
  <2>1. Ordered(x)
    BY <1>2
  <2>2. CASE x = s
    <3>1. ~InUse(s)' /\ mutex_'[s] = Free
      BY <1>1, <1>2 DEF SessionType, InUse
    <3>2. QED
      BY <1>1, <2>1, <2>2, <3>1 DEF Ordered, Made, created
  <2>3. CASE x # s
    <3>1. InUse(x)' <=> InUse(x)
      BY <1>1, <1>2, <2>3 DEF SessionType, InUse
    <3>2. QED
      BY <1>1, <2>1, <2>3, <3>1 DEF Ordered, Made, created
  <2>4. QED
    BY <2>2, <2>3
<1>6. ASSUME NEW x \in Task, Alive(x)' PROVE session_id'[x] \in sessions'
  <2>1. Alive(x) /\ session_id'[x] = session_id[x]
    BY <1>1, <1>3, <1>6 DEF NoneRevived, created
  <2>2. session_id[x] \in sessions
    BY <2>1 DEF IInv, SInv
  <2>3. session_id[x] # s
    BY <1>1, <2>1 DEF Active
  <2>4. QED
    BY <1>1, <2>1, <2>2, <2>3
<1>7. QED
  BY <1>3, <1>4, <1>5, <1>6 DEF IInv, SInv

LEMMA StreamDecodeKeeps ==
  ASSUME IInv, NEW t \in Task, StreamDecode(t)
  PROVE  IInv'
<1>1. PICK s \in Session : s = session_id[t]
  BY DEF IInv, MInv, ManagerType
<1>2. CASE StartDecode(s, "callback")
  BY <1>2, StartDecodeKeeps
<1>3. CASE /\ callback_step' = "update" /\ silent' = silent \cup {t}
           /\ UNCHANGED <<created, sessions, cancelled, graph, execution, callbacks, thread,
                          heard, lost, session_state_, last_task_ids_, mutex_, checkpoint>>
  <2>1. SessionType /\ \A x \in Session : Ordered(x)
    BY SessionsKnown
  <2>2. MInv' /\ NoneRevived
    <3>1. sessions' \subseteq Session /\ cancelled' \subseteq Task
      BY <1>3 DEF IInv, MInv, ManagerType
    <3>2. QED
      BY <1>3, <3>1, ManagerStays DEF IInv
  <2>3. SessionType'
    BY <1>3, <2>1 DEF SessionType
  <2>4. \A x \in Session : Ordered(x)'
    BY <1>3, <2>1 DEF Ordered, InUse, Made, created
  <2>5. \A x \in Task : Alive(x)' => session_id'[x] \in sessions'
    BY <1>3, <2>2 DEF IInv, SInv, NoneRevived, created
  <2>6. QED
    BY <2>2, <2>3, <2>4, <2>5 DEF IInv, SInv
<1>4. QED
  BY <1>1, <1>2, <1>3 DEF StreamDecode

-----------------------------------------------------------------------------
(* The theorems *)

LEMMA InitHolds == Init => IInv
<1> SUFFICES ASSUME Init PROVE IInv
  OBVIOUS
<1>1. AnySession \in Session
  BY SessionsAssumption DEF AnySession
<1>2. /\ next_task_id_ = 1 /\ sessions = Roots /\ step = "idle" /\ callback_step = "idle"
      /\ executor_held = FALSE /\ cancelled = {} /\ late = {} /\ lost = {}
      /\ session_id = [t \in Task |-> AnySession] /\ flag = [t \in Task |-> t]
      /\ task_state = [t \in Task |-> "none"] /\ outcome = [t \in Task |-> "none"]
      /\ heard = [t \in Task |-> 0] /\ after = [t \in Task |-> {}]
      /\ dependent_tasks = [t \in Task |-> {}] /\ following_tasks = [t \in Task |-> {}]
  BY DEF Init, ManagerInit
<1>3. /\ execution_tasks = <<>> /\ execution_running = {} /\ execution_threads = 0
      /\ callback_tasks = <<>> /\ callback_running = {} /\ callback_threads = 0
  BY DEF Init, ManagerInit, Execution!Init, Callback!Init
<1>4. /\ session_state_ = [s \in Session |-> IF s \in Roots THEN "fresh" ELSE "none"]
      /\ last_task_ids_ = [s \in Session |-> {}] /\ mutex_ = [s \in Session |-> Free]
      /\ checkpoint = [s \in Session |-> "none"] /\ silent = {}
  BY DEF Init
<1>5. 1 \in 1..(MaxTasks + 1) /\ 0 \in 0..MaxTasks
  BY BoundsAssumption
<1>6. ManagerType
  <2>1. /\ sessions \subseteq Session /\ session_id \in [Task -> Session] /\ flag \in [Task -> Task]
        /\ heard \in [Task -> Nat] /\ after \in [Task -> SUBSET Task]
        /\ dependent_tasks \in [Task -> SUBSET Task] /\ following_tasks \in [Task -> SUBSET Task]
    BY <1>1, <1>2, SessionsAssumption
  <2>2. /\ task_state \in [Task -> EndStates \cup States]
        /\ outcome \in [Task -> {"none", "done", "max tokens", "failed", "cancelled"}]
    BY <1>2 DEF States
  <2>3. execution_threads \in 0..1 /\ callback_threads \in 0..1
    BY <1>3
  <2>4. execution_tasks \in Seq(Task) /\ callback_tasks \in Seq(Task)
    BY <1>3
  <2>5. QED
    BY <1>2, <1>3, <1>5, <2>1, <2>2, <2>3, <2>4 DEF ManagerType
<1>7. /\ Holds(execution_tasks) = {} /\ Once(execution_tasks)
      /\ Holds(callback_tasks) = {} /\ Once(callback_tasks)
  BY <1>3, EmptyHolds
<1>8. Threads
  BY <1>2, <1>3, <1>7 DEF Threads
<1>9. ASSUME NEW t \in Task
      PROVE  /\ Place(t) /\ Told(t) /\ Waits(t)
             /\ \A d \in after[t] : Edge(t, d)
  <2>1. ~Working(t) /\ t \notin lost /\ t \notin callback_running
    BY <1>2, <1>3 DEF Working
  <2>2. Place(t)
    BY <1>2, <1>7, <2>1 DEF Place
  <2>3. Told(t)
    BY <1>2, <1>7, <2>1 DEF Told, EndStates
  <2>4. Waits(t)
    BY <1>2 DEF Waits
  <2>5. after[t] = {}
    BY <1>2
  <2>6. QED
    BY <2>2, <2>3, <2>4, <2>5
<1>10. SessionType
  <2>1. Free \in Halves \X (0..MaxTasks)
    BY <1>5 DEF Free, Halves
  <2>2. mutex_ \in [Session -> Halves \X (0..MaxTasks)]
    BY <1>4, <2>1
  <2>3. QED
    BY <1>4, <2>2 DEF SessionType
<1>11. ASSUME NEW s \in Session PROVE Ordered(s)
  BY <1>2, <1>4 DEF Ordered, InUse
<1>12. \A t \in Task : ~Alive(t)
  BY <1>2 DEF Alive, Unfinished
<1>13. QED
  BY <1>6, <1>8, <1>9, <1>10, <1>11, <1>12 DEF IInv, MInv, Tasks, SInv

LEMMA SameKeeps == IInv /\ UNCHANGED vars => IInv'
<1> SUFFICES ASSUME IInv, UNCHANGED vars PROVE IInv'
  OBVIOUS
<1>1. UNCHANGED manager /\ UNCHANGED session
  BY DEF vars
<1>2. /\ UNCHANGED <<created, graph, execution, callbacks, thread, heard, lost>>
      /\ sessions' = sessions /\ cancelled' = cancelled /\ callback_step' = callback_step
  BY <1>1 DEF manager
<1>3. MInv' /\ NoneRevived
  <2>1. sessions' \subseteq Session /\ cancelled' \subseteq Task
    BY <1>2 DEF IInv, MInv, ManagerType
  <2>2. QED
    BY <1>2, <2>1, ManagerStays DEF IInv
<1>4. QED
  BY <1>1, <1>2, <1>3, SessionStays DEF IInv

LEMMA NextKeeps == IInv /\ [Next]_vars => IInv'
<1> SUFFICES ASSUME IInv, [Next]_vars PROVE IInv'
  OBVIOUS
<1>1. ASSUME NEW s \in Session, NEW kind, RunPrefillAsync(s, kind) PROVE IInv'
  BY <1>1, PrefillKeeps
<1>2. ASSUME NEW s \in Session, RunDecodeAsync(s) PROVE IInv'
  BY <1>2, StartDecodeKeeps DEF RunDecodeAsync
<1>3. ASSUME NEW s \in Session, RunTextScoringAsync(s) PROVE IInv'
  BY <1>3, ScoringKeeps
<1>4. ASSUME NEW s \in Session, SaveCheckpoint(s) \/ RewindToCheckpoint(s) \/ HaveExecutor(s)
      PROVE  IInv'
  BY <1>4, CheckpointKeeps
<1>5. ASSUME NEW s \in Session, CancelProcess(s) PROVE IInv'
  BY <1>5, CancelKeeps DEF CancelProcess
<1>6. ASSUME NEW t \in Task, CancelTask(t) PROVE IInv'
  BY <1>6, CancelKeeps DEF CancelTask
<1>7. ASSUME NEW s \in Session, Destroy(s) PROVE IInv'
  BY <1>7, DestroyKeeps
<1>8. ASSUME NEW s \in Session, NEW c \in Session, CloneAsync(s, c) PROVE IInv'
  BY <1>8, CloneKeeps
<1>9. ASSUME Calls PROVE IInv'
  BY <1>1, <1>2, <1>3, <1>4, <1>5, <1>6, <1>7, <1>8, <1>9 DEF Calls
<1>10. ASSUME ExecutionThread PROVE IInv'
  BY <1>10, ThreadKeeps
<1>11. ASSUME CallbackThread PROVE IInv'
  BY <1>11, CallbacksKeep, StreamDecodeKeeps DEF CallbackThread
<1>12. ASSUME NEW s \in Session, AddDecode(s) PROVE IInv'
  BY <1>12, AddDecodeKeeps
<1>13. ASSUME UNCHANGED vars PROVE IInv'
  BY <1>13, SameKeeps
<1>14. QED
  BY <1>4, <1>9, <1>10, <1>11, <1>12, <1>13 DEF Next

LEMMA IInvAlways == Spec => []IInv
<1>1. QED
  BY InitHolds, NextKeeps, PTL DEF Spec

\* Every variable has its type in every reachable state, whatever the calls and
\* whichever of them fail.
THEOREM TypeCorrect == Spec => []TypeOK
<1>1. IInv => TypeOK
  BY DEF IInv, MInv, ManagerType, SInv, SessionType, TypeOK
<1>2. QED
  BY IInvAlways, <1>1, PTL

\* A task that has not ended, and was not lost for want of a thread or a buffer, is
\* in exactly one place: behind a task that has not done its work and will come back
\* for it, once in the queue, in the hands of the execution thread, or once with the
\* callback pool.  FinishTask moves it under the lock from one to the next.
THEOREM AlwaysOnePlace == Spec => []OnePlace
<1>1. ASSUME IInv PROVE OnePlace
  <2> SUFFICES ASSUME NEW t \in Task, Alive(t), t \notin lost
               PROVE  /\ task_state[t] = "created" <=> Behind(t)
                      /\ task_state[t] = "queued" <=> Times(t, execution_tasks) = 1
                      /\ task_state[t] = "processing" <=> Working(t)
                      /\ task_state[t] = "last callback queued" <=>
                           Times(t, callback_tasks) + Cardinality({t} \cap callback_running) = 1
    BY DEF OnePlace
  <2>1. Place(t) /\ Waits(t) /\ ManagerType /\ Threads
    BY <1>1 DEF IInv, MInv, Tasks
  <2>2. task_state[t] = "created" <=> Behind(t)
    BY <2>1 DEF Waits, Behind
  <2>3. Times(t, execution_tasks) = IF t \in Holds(execution_tasks) THEN 1 ELSE 0
    BY <2>1, TimesOnce DEF ManagerType, Threads
  <2>4. task_state[t] = "queued" <=> Times(t, execution_tasks) = 1
    <3>1. t \in Holds(execution_tasks) <=> Times(t, execution_tasks) = 1
      BY <2>3
    <3>2. QED
      BY <2>1, <3>1 DEF Place
  <2>5. task_state[t] = "processing" <=> Working(t)
    BY <2>1 DEF Place
  <2>6. Times(t, callback_tasks) = IF t \in Holds(callback_tasks) THEN 1 ELSE 0
    BY <2>1, TimesOnce DEF ManagerType, Threads
  <2>7. Cardinality({t} \cap callback_running) = IF t \in callback_running THEN 1 ELSE 0
    <3>1. CASE t \in callback_running
      <4>1. {t} \cap callback_running = {t}
        BY <3>1
      <4>2. QED
        BY <3>1, <4>1, FS_Singleton
    <3>2. CASE t \notin callback_running
      <4>1. {t} \cap callback_running = {}
        BY <3>2
      <4>2. QED
        BY <3>2, <4>1, FS_EmptySet
    <3>3. QED
      BY <3>1, <3>2
  <2>8. /\ t \in Holds(callback_tasks) => t \notin callback_running
        /\ task_state[t] = "last callback queued" <=> t \in Holds(callback_tasks) \cup callback_running
    BY <2>1 DEF Place
  <2>9. t \in Holds(callback_tasks) \cup callback_running <=>
          Times(t, callback_tasks) + Cardinality({t} \cap callback_running) = 1
    <3>1. CASE t \in Holds(callback_tasks)
      <4>1. t \notin callback_running
        BY <2>8, <3>1
      <4>2. QED
        BY <2>6, <2>7, <3>1, <4>1
    <3>2. CASE t \notin Holds(callback_tasks)
      BY <2>6, <2>7, <3>2
    <3>3. QED
      BY <3>1, <3>2
  <2>10. QED
    BY <2>2, <2>4, <2>5, <2>8, <2>9
<1>2. QED
  BY IInvAlways, <1>1, PTL

\* The callback of a task hears once how it ended, and has by the time the task is
\* marked as ended: it is called by whoever ends the task, and nobody else can by
\* then.
THEOREM AlwaysHeardOnce == Spec => []EndsHeardOnce
<1>1. ASSUME IInv PROVE EndsHeardOnce
  <2>1. ASSUME NEW t \in Task
        PROVE  heard[t] <= 1 /\ (task_state[t] \in EndStates => heard[t] = 1)
    <3>1. Told(t)
      BY <1>1 DEF IInv, MInv, Tasks
    <3>2. heard[t] \in {0, 1}
      BY <3>1 DEF Told
    <3>3. heard[t] <= 1
      BY <3>2
    <3>4. QED
      BY <3>1, <3>3 DEF Told
  <2>2. QED
    BY <2>1 DEF EndsHeardOnce
<1>2. QED
  BY IInvAlways, <1>1, PTL

\* What is queued, runs or has run did not overtake a task it was created to depend
\* on: that one has done its work, unless it is lost.
THEOREM DependenciesAlwaysFirst == Spec => []DependenciesFirst
<1>1. ASSUME IInv PROVE DependenciesFirst
  <2>1. ASSUME NEW t \in Task, NEW d \in after[t],
               task_state[t] \in {"queued", "processing", "last callback queued"},
               task_state[d] \in {"created", "queued", "processing"}
        PROVE  d \in lost
    <3>1. Edge(t, d)
      BY <1>1 DEF IInv, MInv, Tasks
    <3>2. QED
      BY <2>1, <3>1 DEF Edge, Unfinished
  <2>2. QED
    BY <2>1 DEF DependenciesFirst
<1>2. QED
  BY IInvAlways, <1>1, PTL

\* What depends on a task that failed or was cancelled has ended with it, whether it
\* was created before or after -- but for what was created between the task's last
\* callback and its end.
THEOREM FailureAlwaysEndsDependents == Spec => []FailureStops
<1>1. ASSUME IInv PROVE FailureStops
  <2>1. ASSUME NEW t \in Task \ late, NEW d \in after[t], task_state[d] \in Unsuccessful
        PROVE  task_state[t] \in {"dependent failed", "dependent cancelled"}
    <3>1. Edge(t, d)
      BY <1>1 DEF IInv, MInv, Tasks
    <3>2. QED
      BY <2>1, <3>1 DEF Edge, Failing
  <2>2. QED
    BY <2>1 DEF FailureStops
<1>2. QED
  BY IInvAlways, <1>1, PTL

\* A session is registered while a task of it has not ended: it is destroyed only
\* when it has none, and a call that is halfway keeps its mutex.
THEOREM SessionAlwaysOutlivesTasks == Spec => []SessionOutlivesTasks
<1>1. IInv => SessionOutlivesTasks
  BY DEF IInv, SInv, SessionOutlivesTasks
<1>2. QED
  BY IInvAlways, <1>1, PTL
=============================================================================
