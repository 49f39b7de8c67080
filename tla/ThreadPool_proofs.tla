-------------------------- MODULE ThreadPool_proofs ---------------------------
(***************************************************************************)
(* Proofs about ThreadPool, for any number of workers, tasks, adders and   *)
(* waiters: no task is stranded, lost or run twice, and a wait that        *)
(* returns has waited for every task pushed before it.                     *)
(***************************************************************************)
EXTENDS ThreadPool, FiniteSetTheorems, SequenceTheorems, TLAPS

PoolType ==
    /\ queue \in [Worker -> Seq(Task)]
    /\ v \in [Worker -> {0, 1}]
    /\ pc \in [Worker -> {"start", "test", "wait", "woken", "count", "pull", "run", "uncount",
                          "last", "signal", "exit", "gone"}]
    /\ task_p \in [Worker -> Task \cup {None}]
    /\ \A w \in Worker : pc[w] = "run" => task_p[w] \in Task
    /\ threads_keepalive \in BOOLEAN
    /\ num_threads_working \in Int
    /\ his_task_num \in Worker
    /\ adding \in [Adder -> Task \cup {None}]
    /\ wait_pc \in [Waiter -> {"out", "len", "working", "sleep", "asleep", "awake", "returned"}]
    /\ wait_i \in [Waiter -> Worker]
    /\ deinit_pc \in {"out", "grace", "poll", "returned"}
    /\ pushed \subseteq Task /\ done \subseteq Task
    /\ due \in [Waiter -> SUBSET Task]

LEMMA PoolTypeInit == Init => PoolType
  BY EmptySeq, PoolAssumption DEF Init, PoolType, Worker

LEMMA PoolTypeStep == PoolType /\ [Next]_vars => PoolType'
  <1>. SUFFICES ASSUME PoolType, [Next]_vars PROVE PoolType'
    OBVIOUS
  <1>. USE PoolAssumption DEF PoolType
  <1>1. CASE UNCHANGED vars
    BY <1>1 DEF vars, workerVars, waitVars, addVars, deinitVars
  <1>2. ASSUME NEW w \in Worker, WorkerStep(w) PROVE PoolType'
    <2>. USE DEF Goto, waitVars, addVars, deinitVars
    <2>1. CASE WorkerStart(w) \/ WorkerExit(w) \/ WorkerTest(w) \/ WorkerWoken(w) \/ WorkerLast(w)
      <3>1. PICK to \in {"test", "wait", "count", "signal", "exit", "gone"} :
               pc' = [pc EXCEPT ![w] = to]
        BY <2>1 DEF WorkerStart, WorkerExit, WorkerTest, WorkerWoken, WorkerLast
      <3>2. UNCHANGED <<queue, v, task_p, num_threads_working, done, waitVars, addVars, deinitVars>>
        BY <2>1 DEF WorkerStart, WorkerExit, WorkerTest, WorkerWoken, WorkerLast
      <3>. QED  BY <3>1, <3>2
    <2>2. CASE WorkerWait(w)
      BY <2>2 DEF WorkerWait
    <2>6. CASE WorkerCount(w) \/ WorkerUncount(w)
      <3>1. PICK to \in {"pull", "last"} : pc' = [pc EXCEPT ![w] = to]
        BY <2>6 DEF WorkerCount, WorkerUncount
      <3>2. /\ UNCHANGED <<queue, v, task_p, done, waitVars, addVars, deinitVars>>
            /\ num_threads_working' \in Int
        BY <2>6 DEF WorkerCount, WorkerUncount
      <3>. QED  BY <3>1, <3>2
    <2>3. CASE WorkerPull(w)
      <3>1. /\ queue[w] \in Seq(Task)
            /\ queue[w] # << >> => Head(queue[w]) \in Task /\ Tail(queue[w]) \in Seq(Task)
        BY HeadTailProperties
      <3>. QED  BY <2>3, <3>1 DEF WorkerPull
    <2>4. CASE WorkerRun(w)
      BY <2>4 DEF WorkerRun
    <2>5. CASE WorkerSignal(w)
      BY <2>5 DEF WorkerSignal
    <2>. QED  BY <1>2, <2>1, <2>2, <2>3, <2>4, <2>5, <2>6 DEF WorkerStep
  <1>3. ASSUME NEW a \in Adder, NEW t \in Task, AddCount(a, t) PROVE PoolType'
    <2>1. (his_task_num + 1) % NumThreads \in Worker
      BY DEF Worker
    <2>. QED  BY <1>3, <2>1 DEF AddCount, workerVars, waitVars, deinitVars
  <1>4. ASSUME NEW a \in Adder, AddPush(a) PROVE PoolType'
    <2>1. adding[a] \in Task /\ Append(queue[his_task_num], adding[a]) \in Seq(Task)
      BY <1>4, AppendProperties DEF AddPush
    <2>. QED  BY <1>4, <2>1 DEF AddPush, workerVars, waitVars, deinitVars
  <1>5. ASSUME NEW x \in Waiter, WaitLock(x) \/ WaitStep(x) \/ WaitSpurious(x) PROVE PoolType'
    <2>. USE DEF workerVars, addVars, deinitVars
    <2>1. CASE WaitLock(x)
      BY <2>1 DEF WaitLock
    <2>3. CASE WaitLen(x)
      <3>1. PICK to \in {"sleep", "working"} : wait_pc' = [wait_pc EXCEPT ![x] = to]
        BY <2>3 DEF WaitLen
      <3>. QED  BY <2>3, <3>1 DEF WaitLen
    <2>4. CASE WaitSleep(x) \/ WaitRelock(x) \/ WaitSpurious(x)
      BY <2>4 DEF WaitSleep, WaitRelock, WaitSpurious
    <2>2. CASE WaitWorking(x)
      <3>1. PICK to \in {"sleep", "len", "returned"} : wait_pc' = [wait_pc EXCEPT ![x] = to]
        BY <2>2 DEF WaitWorking
      <3>2. wait_i' = wait_i \/ (wait_i[x] + 1 \in Worker /\ wait_i' = [wait_i EXCEPT ![x] = @ + 1])
        BY <2>2 DEF WaitWorking
      <3>3. UNCHANGED <<queue, v, crashed, due, workerVars, addVars, deinitVars>>
        BY <2>2 DEF WaitWorking
      <3>. QED  BY <3>1, <3>2, <3>3
    <2>. QED  BY <1>5, <2>1, <2>2, <2>3, <2>4 DEF WaitStep
  <1>6. CASE Deinit \/ DeinitStep \/ Alarm
    <2>. USE DEF workerVars, waitVars, addVars
    <2>1. CASE Deinit \/ DeinitPost \/ Alarm
      BY <2>1 DEF Deinit, DeinitPost, Alarm, deinitVars
    <2>2. CASE DeinitFree
      BY <2>2, EmptySeq DEF DeinitFree
    <2>. QED  BY <1>6, <2>1, <2>2 DEF DeinitStep
  <1>. QED  BY <1>1, <1>2, <1>3, <1>4, <1>5, <1>6 DEF Next

\* The structures of stl_thread_pool.c keep their shape, and a worker that runs has a task.
THEOREM PoolTypeCorrect == Spec => []PoolType
  BY PoolTypeInit, PoolTypeStep, PTL DEF Spec

-----------------------------------------------------------------------------
(* No task is stranded. *)

LEMMA NotStrandedStep == PoolType /\ NotStranded /\ [Next]_vars => NotStranded'
  <1>. SUFFICES ASSUME PoolType, NotStranded, [Next]_vars PROVE NotStranded'
    OBVIOUS
  <1>. DEFINE Woken(w) == v[w] = 1 \/ pc[w] \in {"woken", "count", "pull"}
  <1>0. /\ queue \in [Worker -> Seq(Task)] /\ v \in [Worker -> {0, 1}]
        /\ DOMAIN pc = Worker
    BY DEF PoolType
  <1>1. CASE UNCHANGED <<queue, v, pc, threads_keepalive>>
    BY <1>1 DEF NotStranded
  <1>2. ASSUME NEW w \in Worker, WorkerStep(w) PROVE NotStranded'
    <2>1. CASE WorkerPull(w)
      <3>1. queue[w] \in Seq(Task) /\ Len(queue[w]) \in Nat
        BY <1>0, LenProperties
      <3>2. queue'[w] # << >> => v'[w] = 1
        <4>. SUFFICES ASSUME queue'[w] # << >> PROVE v'[w] = 1
          OBVIOUS
        <4>1. queue[w] # << >> /\ queue'[w] = Tail(queue[w])
          BY <1>0, <2>1 DEF WorkerPull
        <4>2. Len(Tail(queue[w])) = Len(queue[w]) - 1 /\ Tail(queue[w]) \in Seq(Task)
          BY <3>1, <4>1, HeadTailProperties
        <4>3. Len(Tail(queue[w])) \in Nat \ {0}
          BY <4>1, <4>2, EmptySeq
        <4>. DEFINE a == Len(queue[w])
                    b == Len(Tail(queue[w]))
        <4>4. a \in Nat /\ b \in Nat /\ b # 0 /\ b = a - 1
          BY <3>1, <4>2, <4>3
        <4>. HIDE DEF a, b
        <4>5. a > 1
          BY <4>4
        <4>. QED  BY <1>0, <2>1, <4>5 DEF WorkerPull, a
      <3>3. /\ \A u \in Worker \ {w} : queue'[u] = queue[u] /\ v'[u] = v[u] /\ pc'[u] = pc[u]
            /\ UNCHANGED threads_keepalive
        BY <1>0, <2>1 DEF WorkerPull, Goto, deinitVars
      <3>. QED  BY <3>2, <3>3 DEF NotStranded
    <2>2. CASE ~WorkerPull(w)
      <3>1. /\ UNCHANGED <<queue, threads_keepalive>>
            /\ \A u \in Worker \ {w} : v'[u] = v[u] /\ pc'[u] = pc[u]
        BY <1>0, <1>2, <2>2 DEF WorkerStep, WorkerStart, WorkerTest, WorkerWait, WorkerWoken,
              WorkerCount, WorkerRun, WorkerUncount, WorkerLast, WorkerSignal, WorkerExit, Goto,
              deinitVars
      <3>2. threads_keepalive /\ Woken(w) =>
               v'[w] = 1 \/ pc'[w] \in {"woken", "count", "pull"}
        <4>1. CASE WorkerWait(w)
          BY <1>0, <4>1 DEF WorkerWait, Goto
        <4>2. CASE WorkerWoken(w) \/ WorkerCount(w)
          BY <1>0, <4>2 DEF WorkerWoken, WorkerCount, Goto
        <4>3. CASE ~WorkerWait(w) /\ ~WorkerWoken(w) /\ ~WorkerCount(w)
          <5>1. UNCHANGED v /\ pc[w] \notin {"woken", "count", "pull"}
            BY <1>2, <2>2, <4>3 DEF WorkerStep, WorkerStart, WorkerTest, WorkerRun, WorkerUncount,
                  WorkerLast, WorkerSignal, WorkerExit, Goto
          <5>. QED  BY <5>1
        <4>. QED  BY <4>1, <4>2, <4>3
      <3>. QED  BY <3>1, <3>2 DEF NotStranded
    <2>. QED  BY <2>1, <2>2
  <1>3. ASSUME NEW a \in Adder, AddPush(a) PROVE NotStranded'
    BY <1>0, <1>3 DEF AddPush, NotStranded, workerVars, deinitVars
  <1>4. ASSUME NEW a \in Adder, NEW t \in Task, AddCount(a, t) PROVE NotStranded'
    BY <1>1, <1>4 DEF AddCount, workerVars, deinitVars
  <1>5. ASSUME NEW x \in Waiter, WaitLock(x) \/ WaitStep(x) \/ WaitSpurious(x) PROVE NotStranded'
    BY <1>1, <1>5 DEF WaitStep, WaitLock, WaitLen, WaitWorking, WaitSleep, WaitRelock, WaitSpurious,
                      workerVars, deinitVars
  <1>6. CASE Deinit \/ DeinitPost \/ Alarm
    BY <1>1, <1>6 DEF Deinit, DeinitPost, Alarm, NotStranded, workerVars, deinitVars
  <1>7. CASE DeinitFree
    BY <1>7 DEF DeinitFree, NotStranded
  <1>8. CASE UNCHANGED vars
    BY <1>1, <1>8 DEF vars, workerVars, deinitVars
  <1>. QED  BY <1>2, <1>3, <1>4, <1>5, <1>6, <1>7, <1>8 DEF Next, DeinitStep

\* No queue with tasks is left without a posted semaphore or a worker on its way to it, for
\* any number of workers and pushes: one post may stand for several tasks, but
\* task_queue_pull posts again as long as one is left.
THEOREM NobodyStranded == Spec => []NotStranded
  <1>1. Init => NotStranded
    BY DEF Init, NotStranded
  <1>. QED  BY <1>1, NotStrandedStep, PoolTypeCorrect, PTL DEF Spec

-----------------------------------------------------------------------------
(* No task is lost or run twice. *)

Elements(q) == {q[i] : i \in DOMAIN q}
Distinct(q) == \A i, j \in DOMAIN q : q[i] = q[j] => i = j
Running == {w \in Worker : pc[w] = "run"}

\* What makes TaskOnce inductive: a task is added once, and only what was pushed is anywhere.
TaskInv ==
    /\ \A w \in Worker : Distinct(queue[w]) /\ Elements(queue[w]) \subseteq pushed
    /\ \A w \in Worker : pc[w] = "run" => task_p[w] \in pushed \ done
    /\ \A w, u \in Worker : pc[w] = "run" => task_p[w] \notin Elements(queue[u])
    /\ \A w, u \in Worker : w # u /\ pc[w] = "run" /\ pc[u] = "run" => task_p[w] # task_p[u]
    /\ \A w, u \in Worker : w # u => Elements(queue[w]) \cap Elements(queue[u]) = {}
    /\ \A w \in Worker : Elements(queue[w]) \cap done = {}
    /\ done \subseteq pushed
    /\ deinit_pc # "returned" =>
          \A t \in pushed : \/ t \in done
                            \/ \E w \in Worker : t \in Elements(queue[w])
                            \/ \E w \in Worker : pc[w] = "run" /\ t = task_p[w]
    /\ \A a \in Adder : adding[a] # None => adding[a] \notin pushed
    /\ \A a, b \in Adder : adding[a] # None /\ adding[a] = adding[b] => a = b

\* Taking the first of a queue of distinct tasks, and putting one in at the end.
LEMMA TailElements ==
    ASSUME NEW q \in Seq(Task), q # << >>, Distinct(q)
    PROVE  /\ Elements(Tail(q)) = Elements(q) \ {Head(q)} /\ Head(q) \in Elements(q)
           /\ Distinct(Tail(q))
  <1>1. Len(q) \in Nat \ {0} /\ DOMAIN q = 1 .. Len(q)
    BY EmptySeq, LenProperties
  <1>2. /\ Tail(q) \in Seq(Task) /\ Len(Tail(q)) = Len(q) - 1
        /\ \A i \in 1 .. Len(q) - 1 : Tail(q)[i] = q[i + 1]
    BY HeadTailProperties
  <1>3. DOMAIN Tail(q) = 1 .. Len(q) - 1
    BY <1>2, LenProperties
  <1>4. Head(q) = q[1] /\ 1 \in DOMAIN q
    BY <1>1
  <1>. DEFINE t == Tail(q)
  <1>5. DOMAIN t = 1 .. Len(q) - 1 /\ \A i \in DOMAIN t : t[i] = q[i + 1] /\ i + 1 \in DOMAIN q /\ i + 1 # 1
    BY <1>1, <1>2, <1>3
  <1>. HIDE DEF t
  <1>6. Distinct(t)
    <2>. SUFFICES ASSUME NEW i \in DOMAIN t, NEW j \in DOMAIN t, t[i] = t[j] PROVE i = j
      BY DEF Distinct
    <2>1. i + 1 = j + 1
      BY <1>5 DEF Distinct
    <2>. QED  BY <1>1, <1>5, <2>1
  <1>7. Elements(t) \subseteq Elements(q) \ {q[1]}
    BY <1>4, <1>5 DEF Elements, Distinct
  <1>8. ASSUME NEW e \in Elements(q), e # q[1] PROVE e \in Elements(t)
    <2>1. PICK i \in DOMAIN q : e = q[i]
      BY DEF Elements
    <2>2. i # 1 /\ i - 1 \in DOMAIN t /\ (i - 1) + 1 = i
      BY <1>1, <1>5, <1>8, <2>1
    <2>3. t[i - 1] = q[i]
      BY <1>5, <2>2
    <2>. QED  BY <2>1, <2>2, <2>3 DEF Elements
  <1>9. Elements(t) = Elements(q) \ {q[1]} /\ q[1] \in Elements(q)
    BY <1>4, <1>7, <1>8 DEF Elements
  <1>. QED  BY <1>4, <1>6, <1>9 DEF t

LEMMA AppendElements ==
    ASSUME NEW q \in Seq(Task), NEW t \in Task
    PROVE  /\ Elements(Append(q, t)) = Elements(q) \cup {t}
           /\ Distinct(q) /\ t \notin Elements(q) => Distinct(Append(q, t))
  <1>. DEFINE r == Append(q, t)
  <1>1. Len(q) \in Nat /\ DOMAIN q = 1 .. Len(q)
    BY LenProperties
  <1>2. /\ r \in Seq(Task) /\ Len(r) = Len(q) + 1
        /\ \A i \in 1 .. Len(q) : r[i] = q[i]
        /\ r[Len(q) + 1] = t
    BY AppendProperties
  <1>3. DOMAIN r = 1 .. Len(q) + 1
    BY <1>2, LenProperties
  <1>. HIDE DEF r
  <1>4. Elements(r) = Elements(q) \cup {t}
    BY <1>1, <1>2, <1>3 DEF Elements
  <1>5. ASSUME Distinct(q), t \notin Elements(q) PROVE Distinct(r)
    BY <1>1, <1>2, <1>3, <1>5 DEF Elements, Distinct
  <1>. QED  BY <1>4, <1>5 DEF r

LEMMA TaskInvGivesOnce == TaskInv => TaskOnce
  <1>. SUFFICES ASSUME TaskInv PROVE TaskOnce
    OBVIOUS
  <1>0. \A w : Queued(w) = Elements(queue[w])
    BY DEF Queued, Elements
  <1>1. \A w \in Worker : \A i, j \in DOMAIN queue[w] : queue[w][i] = queue[w][j] => i = j
    BY DEF TaskInv, Distinct
  <1>2. \A w \in Worker : pc[w] = "run" =>
          task_p[w] \notin done \cup UNION {Queued(u) : u \in Worker}
    BY <1>0 DEF TaskInv
  <1>3. \A w, u \in Worker : w # u =>
          /\ Queued(w) \cap Queued(u) = {}
          /\ pc[w] = "run" /\ pc[u] = "run" => task_p[w] # task_p[u]
    BY <1>0 DEF TaskInv
  <1>4. \A w \in Worker : Queued(w) \cap done = {}
    BY <1>0 DEF TaskInv
  <1>5. ASSUME deinit_pc # "returned"
        PROVE  pushed = done \cup (UNION {Queued(w) : w \in Worker})
                             \cup {task_p[w] : w \in {u \in Worker : pc[u] = "run"}}
    BY <1>0, <1>5 DEF TaskInv
  <1>. QED  BY <1>1, <1>2, <1>3, <1>4, <1>5 DEF TaskOnce

\* A step that moves no task keeps TaskInv.
LEMMA TaskInvQuiet ==
    ASSUME TaskInv, UNCHANGED <<queue, done, pushed, adding>>,
           \A w \in Worker : (pc'[w] = "run") = (pc[w] = "run") /\ (pc[w] = "run" => task_p'[w] = task_p[w]),
           deinit_pc' # "returned" => deinit_pc # "returned"
    PROVE  TaskInv'
  <1>. DEFINE E(w) == Elements(queue[w])
              D(w) == Distinct(queue[w])
  <1>1. \A w : Elements(queue[w])' = E(w) /\ Distinct(queue[w])' = D(w)
    BY DEF Elements, Distinct
  <1>2. /\ \A w \in Worker : D(w) /\ E(w) \subseteq pushed
        /\ \A w, u \in Worker : w # u => E(w) \cap E(u) = {}
        /\ \A w \in Worker : E(w) \cap done = {}
    BY DEF TaskInv
  <1>3. /\ \A w, u \in Worker : pc[w] = "run" => task_p[w] \notin E(u)
        /\ deinit_pc # "returned" =>
              \A t \in pushed : \/ t \in done
                                \/ \E w \in Worker : t \in E(w)
                                \/ \E w \in Worker : pc[w] = "run" /\ t = task_p[w]
    BY DEF TaskInv
  <1>. HIDE DEF E, D
  <1>. QED  BY <1>1, <1>2, <1>3 DEF TaskInv

LEMMA TaskInvPull ==
    ASSUME PoolType, TaskInv, NEW w \in Worker, WorkerPull(w), queue[w] # << >>
    PROVE  TaskInv'
  <1>. DEFINE E(u) == Elements(queue[u])
              F(u) == Elements(queue'[u])
              t == Head(queue[w])
  <1>1. /\ DOMAIN queue = Worker /\ queue[w] \in Seq(Task)
        /\ DOMAIN pc = Worker /\ DOMAIN task_p = Worker
    BY DEF PoolType
  <1>2. /\ pc'[w] = "run" /\ pc[w] = "pull" /\ task_p'[w] = t /\ queue'[w] = Tail(queue[w])
        /\ \A u \in Worker \ {w} : pc'[u] = pc[u] /\ task_p'[u] = task_p[u] /\ queue'[u] = queue[u]
        /\ UNCHANGED <<done, pushed, adding, deinit_pc>>
    BY <1>1 DEF WorkerPull, Goto, addVars, deinitVars
  <1>3. F(w) = E(w) \ {t} /\ t \in E(w) /\ Distinct(queue'[w])
    BY <1>1, <1>2, TailElements DEF TaskInv
  <1>4. \A u \in Worker \ {w} : F(u) = E(u) /\ Distinct(queue'[u])
    BY <1>2 DEF TaskInv
  <1>5. /\ \A u \in Worker : E(u) \subseteq pushed
        /\ \A u \in Worker : pc[u] = "run" => task_p[u] \in pushed \ done
        /\ \A u, x \in Worker : pc[u] = "run" => task_p[u] \notin E(x)
        /\ \A u, x \in Worker : u # x /\ pc[u] = "run" /\ pc[x] = "run" => task_p[u] # task_p[x]
        /\ \A u, x \in Worker : u # x => E(u) \cap E(x) = {}
        /\ \A u \in Worker : E(u) \cap done = {}
        /\ deinit_pc # "returned" =>
              \A s \in pushed : \/ s \in done
                                \/ \E u \in Worker : s \in E(u)
                                \/ \E u \in Worker : pc[u] = "run" /\ s = task_p[u]
    BY DEF TaskInv
  <1>. HIDE DEF E, F, t
  <1>6. \A u \in Worker : Distinct(queue'[u]) /\ F(u) \subseteq pushed'
    BY <1>2, <1>3, <1>4, <1>5
  <1>7. \A u \in Worker : pc'[u] = "run" => task_p'[u] \in pushed' \ done'
    BY <1>2, <1>3, <1>4, <1>5
  <1>8. \A u, x \in Worker : pc'[u] = "run" => task_p'[u] \notin F(x)
    BY <1>2, <1>3, <1>4, <1>5
  <1>9. \A u, x \in Worker : u # x /\ pc'[u] = "run" /\ pc'[x] = "run" => task_p'[u] # task_p'[x]
    BY <1>2, <1>3, <1>4, <1>5
  <1>10. /\ \A u, x \in Worker : u # x => F(u) \cap F(x) = {}
         /\ \A u \in Worker : F(u) \cap done' = {}
    BY <1>2, <1>3, <1>4, <1>5
  <1>11. deinit_pc' # "returned" =>
              \A s \in pushed' : \/ s \in done'
                                 \/ \E u \in Worker : s \in F(u)
                                 \/ \E u \in Worker : pc'[u] = "run" /\ s = task_p'[u]
    BY <1>2, <1>3, <1>4, <1>5
  <1>12. /\ done' \subseteq pushed'
         /\ \A a \in Adder : adding'[a] # None => adding'[a] \notin pushed'
         /\ \A a, b \in Adder : adding'[a] # None /\ adding'[a] = adding'[b] => a = b
    BY <1>2 DEF TaskInv
  <1>. QED  BY <1>6, <1>7, <1>8, <1>9, <1>10, <1>11, <1>12 DEF TaskInv, F

LEMMA TaskInvRun ==
    ASSUME PoolType, TaskInv, NEW w \in Worker, WorkerRun(w)
    PROVE  TaskInv'
  <1>. DEFINE E(u) == Elements(queue[u])
              D(u) == Distinct(queue[u])
  <1>1. /\ DOMAIN pc = Worker /\ DOMAIN task_p = Worker
    BY DEF PoolType
  <1>2. /\ pc'[w] = "uncount" /\ pc[w] = "run" /\ done' = done \cup {task_p[w]}
        /\ \A u \in Worker \ {w} : pc'[u] = pc[u] /\ task_p'[u] = task_p[u]
        /\ UNCHANGED <<queue, pushed, adding, deinit_pc>>
    BY <1>1 DEF WorkerRun, Goto, addVars, deinitVars
  <1>3. \A u : Elements(queue'[u]) = E(u) /\ Distinct(queue'[u]) = D(u)
    BY <1>2 DEF Elements, Distinct
  <1>5. /\ \A u \in Worker : D(u) /\ E(u) \subseteq pushed
        /\ \A u \in Worker : pc[u] = "run" => task_p[u] \in pushed \ done
        /\ \A u, x \in Worker : pc[u] = "run" => task_p[u] \notin E(x)
        /\ \A u, x \in Worker : u # x /\ pc[u] = "run" /\ pc[x] = "run" => task_p[u] # task_p[x]
        /\ \A u, x \in Worker : u # x => E(u) \cap E(x) = {}
        /\ \A u \in Worker : E(u) \cap done = {}
        /\ done \subseteq pushed
        /\ deinit_pc # "returned" =>
              \A s \in pushed : \/ s \in done
                                \/ \E u \in Worker : s \in E(u)
                                \/ \E u \in Worker : pc[u] = "run" /\ s = task_p[u]
    BY DEF TaskInv
  <1>. HIDE DEF E, D
  <1>6. /\ \A u \in Worker : pc'[u] = "run" => task_p'[u] \in pushed' \ done'
        /\ \A u, x \in Worker : pc'[u] = "run" => task_p'[u] \notin E(x)
        /\ \A u, x \in Worker : u # x /\ pc'[u] = "run" /\ pc'[x] = "run" => task_p'[u] # task_p'[x]
    BY <1>2, <1>5
  <1>7. /\ \A u \in Worker : D(u) /\ E(u) \subseteq pushed'
        /\ \A u, x \in Worker : u # x => E(u) \cap E(x) = {}
        /\ \A u \in Worker : E(u) \cap done' = {}
        /\ done' \subseteq pushed'
    BY <1>2, <1>5
  <1>8. deinit_pc' # "returned" =>
              \A s \in pushed' : \/ s \in done'
                                 \/ \E u \in Worker : s \in E(u)
                                 \/ \E u \in Worker : pc'[u] = "run" /\ s = task_p'[u]
    BY <1>2, <1>5
  <1>9. /\ \A a \in Adder : adding'[a] # None => adding'[a] \notin pushed'
        /\ \A a, b \in Adder : adding'[a] # None /\ adding'[a] = adding'[b] => a = b
    BY <1>2 DEF TaskInv
  <1>. QED  BY <1>3, <1>6, <1>7, <1>8, <1>9 DEF TaskInv

LEMMA TaskInvPush ==
    ASSUME PoolType, TaskInv, NEW a \in Adder, AddPush(a)
    PROVE  TaskInv'
  <1>. DEFINE E(u) == Elements(queue[u])
              F(u) == Elements(queue'[u])
              t == adding[a]
              w == his_task_num
  <1>1. /\ DOMAIN queue = Worker /\ w \in Worker /\ queue[w] \in Seq(Task)
        /\ DOMAIN adding = Adder /\ t \in Task /\ t # None /\ t \notin pushed
    BY DEF PoolType, AddPush, TaskInv
  <1>2. /\ queue'[w] = Append(queue[w], t) /\ pushed' = pushed \cup {t}
        /\ adding'[a] = None /\ \A b \in Adder \ {a} : adding'[b] = adding[b]
        /\ \A u \in Worker \ {w} : queue'[u] = queue[u]
        /\ UNCHANGED <<done, pc, task_p, deinit_pc>>
    BY <1>1 DEF AddPush, workerVars, deinitVars
  <1>3. F(w) = E(w) \cup {t} /\ Distinct(queue'[w])
    BY <1>1, <1>2, AppendElements DEF TaskInv
  <1>4. \A u \in Worker \ {w} : F(u) = E(u) /\ Distinct(queue'[u])
    BY <1>2 DEF TaskInv
  <1>5. /\ \A u \in Worker : E(u) \subseteq pushed
        /\ \A u \in Worker : pc[u] = "run" => task_p[u] \in pushed \ done
        /\ \A u, x \in Worker : pc[u] = "run" => task_p[u] \notin E(x)
        /\ \A u, x \in Worker : u # x /\ pc[u] = "run" /\ pc[x] = "run" => task_p[u] # task_p[x]
        /\ \A u, x \in Worker : u # x => E(u) \cap E(x) = {}
        /\ \A u \in Worker : E(u) \cap done = {}
        /\ done \subseteq pushed
        /\ deinit_pc # "returned" =>
              \A s \in pushed : \/ s \in done
                                \/ \E u \in Worker : s \in E(u)
                                \/ \E u \in Worker : pc[u] = "run" /\ s = task_p[u]
        /\ \A b \in Adder : adding[b] # None => adding[b] \notin pushed
        /\ \A b, c \in Adder : adding[b] # None /\ adding[b] = adding[c] => b = c
    BY DEF TaskInv
  <1>6. \A b \in Adder \ {a} : adding[b] # t
    BY <1>1, <1>5
  <1>. HIDE DEF E, F, w
  <1>7. \A u \in Worker : Distinct(queue'[u])
    BY <1>3, <1>4, Zenon
  <1>12. \A u \in Worker : F(u) \subseteq pushed'
    BY <1>2, <1>3, <1>4, <1>5
  <1>8. /\ \A u \in Worker : pc'[u] = "run" => task_p'[u] \in pushed' \ done'
        /\ \A u, x \in Worker : pc'[u] = "run" => task_p'[u] \notin F(x)
        /\ \A u, x \in Worker : u # x /\ pc'[u] = "run" /\ pc'[x] = "run" => task_p'[u] # task_p'[x]
    BY <1>1, <1>2, <1>3, <1>4, <1>5
  <1>9. /\ \A u, x \in Worker : u # x => F(u) \cap F(x) = {}
        /\ \A u \in Worker : F(u) \cap done' = {}
        /\ done' \subseteq pushed'
    BY <1>1, <1>2, <1>3, <1>4, <1>5
  <1>10. deinit_pc' # "returned" =>
              \A s \in pushed' : \/ s \in done'
                                 \/ \E u \in Worker : s \in F(u)
                                 \/ \E u \in Worker : pc'[u] = "run" /\ s = task_p'[u]
    BY <1>1, <1>2, <1>3, <1>4, <1>5
  <1>11. /\ \A b \in Adder : adding'[b] # None => adding'[b] \notin pushed'
         /\ \A b, c \in Adder : adding'[b] # None /\ adding'[b] = adding'[c] => b = c
    BY <1>2, <1>5, <1>6
  <1>. QED  BY <1>7, <1>8, <1>9, <1>10, <1>11, <1>12 DEF TaskInv, F

LEMMA TaskInvStep == PoolType /\ TaskInv /\ [Next]_vars => TaskInv'
  <1>. SUFFICES ASSUME PoolType, TaskInv, [Next]_vars PROVE TaskInv'
    OBVIOUS
  <1>0. DOMAIN pc = Worker /\ DOMAIN task_p = Worker
    BY DEF PoolType
  <1>1. CASE UNCHANGED <<queue, done, pushed, adding, pc, task_p>> /\ deinit_pc' # "returned"
             /\ deinit_pc # "returned"
    BY <1>1, TaskInvQuiet
  <1>9. CASE UNCHANGED <<queue, done, pushed, adding, pc, task_p, deinit_pc>>
    BY <1>9, TaskInvQuiet
  <1>2. ASSUME NEW w \in Worker, WorkerStep(w) PROVE TaskInv'
    <2>1. CASE WorkerPull(w) /\ queue[w] # << >>
      BY <2>1, TaskInvPull
    <2>2. CASE WorkerRun(w)
      BY <2>2, TaskInvRun
    <2>3. CASE WorkerPull(w) /\ queue[w] = << >>
      <3>1. queue' = queue /\ pc[w] = "pull" /\ pc' = [pc EXCEPT ![w] = "uncount"]
            /\ task_p' = [task_p EXCEPT ![w] = None]
            /\ UNCHANGED <<done, pushed, adding, deinit_pc>>
        <4>1. queue \in [Worker -> Seq(Task)]
          BY DEF PoolType
        <4>. QED  BY <2>3, <4>1 DEF WorkerPull, Goto, addVars, deinitVars
      <3>. QED  BY <1>0, <3>1, TaskInvQuiet
    <2>4. CASE ~WorkerPull(w) /\ ~WorkerRun(w)
      <3>1. /\ UNCHANGED <<queue, done, pushed, adding, task_p, deinit_pc>>
            /\ pc[w] # "run" /\ \E to \in {"test", "wait", "woken", "count", "pull", "last", "signal", "exit", "gone"} :
                  pc' = [pc EXCEPT ![w] = to]
        BY <1>2, <2>4 DEF WorkerStep, WorkerStart, WorkerTest, WorkerWait, WorkerWoken,
              WorkerCount, WorkerUncount, WorkerLast, WorkerSignal, WorkerExit, Goto,
              deinitVars, addVars
      <3>2. \A u \in Worker : (pc'[u] = "run") = (pc[u] = "run")
        BY <1>0, <3>1
      <3>. QED  BY <3>1, <3>2, TaskInvQuiet
    <2>. QED  BY <2>1, <2>2, <2>3, <2>4
  <1>3. ASSUME NEW a \in Adder, AddPush(a) PROVE TaskInv'
    BY <1>3, TaskInvPush
  <1>4. ASSUME NEW a \in Adder, NEW t \in Task, AddCount(a, t) PROVE TaskInv'
    <2>1. /\ UNCHANGED <<queue, done, pushed, pc, task_p, deinit_pc>>
          /\ DOMAIN adding = Adder /\ adding' = [adding EXCEPT ![a] = t]
          /\ t \notin pushed /\ \A b \in Adder : adding[b] # t
      BY <1>4 DEF AddCount, workerVars, deinitVars, PoolType
    <2>2. /\ \A b \in Adder : adding'[b] # None => adding'[b] \notin pushed'
          /\ \A b, c \in Adder : adding'[b] # None /\ adding'[b] = adding'[c] => b = c
      BY <2>1 DEF TaskInv
    <2>3. \A w : Elements(queue'[w]) = Elements(queue[w]) /\ Distinct(queue'[w]) = Distinct(queue[w])
      BY <2>1
    <2>. QED  BY <2>1, <2>2, <2>3 DEF TaskInv
  <1>5. ASSUME NEW x \in Waiter, WaitLock(x) \/ WaitStep(x) \/ WaitSpurious(x) PROVE TaskInv'
    BY <1>9, <1>5 DEF WaitStep, WaitLock, WaitLen, WaitWorking, WaitSleep, WaitRelock, WaitSpurious,
                      workerVars, addVars, deinitVars
  <1>6. CASE Deinit \/ DeinitPost \/ Alarm
    BY <1>1, <1>9, <1>6 DEF Deinit, DeinitPost, Alarm, InUse, workerVars, addVars, deinitVars
  <1>7. CASE DeinitFree
    <2>1. /\ \A w \in Worker : queue'[w] = << >>
          /\ deinit_pc' = "returned" /\ UNCHANGED <<done, pushed, adding, pc, task_p>>
      BY <1>7 DEF DeinitFree, workerVars, addVars
    <2>2. Elements(<< >>) = {} /\ Distinct(<< >>)
      BY DEF Elements, Distinct
    <2>. QED  BY <2>1, <2>2 DEF TaskInv
  <1>8. CASE UNCHANGED vars
    BY <1>9, <1>8 DEF vars, workerVars, addVars, deinitVars
  <1>. QED  BY <1>2, <1>3, <1>4, <1>5, <1>6, <1>7, <1>8 DEF Next, DeinitStep

\* The inductive invariant of the tasks.
THEOREM TaskInvariant == Spec => []TaskInv
  <1>1. Init => TaskInv
    <2>. SUFFICES ASSUME Init PROVE TaskInv
      OBVIOUS
    <2>1. /\ \A w \in Worker : queue[w] = << >> /\ pc[w] = "start"
          /\ done = {} /\ pushed = {} /\ \A a \in Adder : adding[a] = None
      BY DEF Init
    <2>2. Elements(<< >>) = {} /\ Distinct(<< >>)
      BY DEF Elements, Distinct
    <2>. QED  BY <2>1, <2>2 DEF TaskInv
  <1>. QED  BY <1>1, TaskInvStep, PoolTypeCorrect, PTL DEF Spec

\* What was pushed is in one place of one queue, in the hands of one worker, or done, and never
\* in two of these, however task_queue_push, task_queue_pull and the deinit interleave.
THEOREM TasksOnce == Spec => []TaskOnce
  BY TaskInvariant, TaskInvGivesOnce, PTL

-----------------------------------------------------------------------------
(* A wait that returns has waited for every task pushed before it. *)

Busy == {w \in Worker : pc[w] \in {"pull", "run", "uncount"}}

\* Worker w has none of the tasks in ts, in its queue or in its hands.
Free(w, ts) == ts \cap Elements(queue[w]) = {} /\ (pc[w] = "run" => task_p[w] \notin ts)

\* The counter is right.
CountInv == num_threads_working = Cardinality(Busy)

\* The workers a wait has looked at stay free of what it waits for, for what is pushed later is
\* something else; the queue it looked at last is free of it too.
WaitInv ==
    /\ \A x \in Waiter : due[x] \subseteq pushed
    /\ \A x \in Waiter : wait_pc[x] = "out" => wait_i[x] = 0
    /\ \A x \in Waiter : wait_pc[x] \notin {"out", "returned"} =>
          /\ deinit_pc = "out"
          /\ \A w \in Worker : w < wait_i[x] => Free(w, due[x])
    /\ \A x \in Waiter : wait_pc[x] = "working" => due[x] \cap Elements(queue[wait_i[x]]) = {}
    /\ WaitMeansDone

LEMMA BusyFinite == IsFiniteSet(Busy)
  <1>1. IsFiniteSet(Worker)
    BY FS_Interval, PoolAssumption DEF Worker
  <1>2. Busy \subseteq Worker
    BY DEF Busy
  <1>. QED  BY <1>1, <1>2, FS_Subset

LEMMA CountStep == PoolType /\ CountInv /\ [Next]_vars => CountInv'
  <1>. SUFFICES ASSUME PoolType, CountInv, [Next]_vars PROVE CountInv'
    OBVIOUS
  <1>0. DOMAIN pc = Worker /\ num_threads_working = Cardinality(Busy)
    BY DEF PoolType, CountInv
  <1>1. CASE Busy' = Busy /\ UNCHANGED num_threads_working
    BY <1>0, <1>1 DEF CountInv
  <1>2. CASE UNCHANGED <<pc, num_threads_working>>
    BY <1>1, <1>2 DEF Busy
  <1>3. ASSUME NEW w \in Worker, WorkerStep(w) PROVE CountInv'
    <2>1. CASE WorkerCount(w)
      <3>1. /\ num_threads_working' = num_threads_working + 1
            /\ pc[w] = "count" /\ pc' = [pc EXCEPT ![w] = "pull"]
        BY <2>1 DEF WorkerCount, Goto
      <3>2. w \notin Busy /\ Busy' = Busy \cup {w}
        BY <1>0, <3>1 DEF Busy
      <3>3. Cardinality(Busy \cup {w}) = Cardinality(Busy) + 1
        BY <3>2, BusyFinite, FS_AddElement
      <3>. QED  BY <1>0, <3>1, <3>2, <3>3 DEF CountInv
    <2>2. CASE WorkerUncount(w)
      <3>1. /\ num_threads_working' = num_threads_working - 1
            /\ pc[w] = "uncount" /\ pc' = [pc EXCEPT ![w] = "last"]
        BY <2>2 DEF WorkerUncount, Goto
      <3>2. w \in Busy /\ Busy' = Busy \ {w}
        BY <1>0, <3>1 DEF Busy
      <3>3. Cardinality(Busy \ {w}) = Cardinality(Busy) - 1
        BY <3>2, BusyFinite, FS_RemoveElement
      <3>. QED  BY <1>0, <3>1, <3>2, <3>3 DEF CountInv
    <2>3. CASE WorkerPull(w) \/ WorkerRun(w)
      <3>1. /\ UNCHANGED num_threads_working /\ pc[w] \in {"pull", "run"}
            /\ \E to \in {"run", "uncount"} : pc' = [pc EXCEPT ![w] = to]
        BY <2>3 DEF WorkerPull, WorkerRun, Goto
      <3>2. Busy' = Busy
        BY <1>0, <3>1 DEF Busy
      <3>. QED  BY <1>1, <3>1, <3>2
    <2>4. CASE ~(WorkerPull(w) \/ WorkerRun(w) \/ WorkerCount(w) \/ WorkerUncount(w))
      <3>1. /\ UNCHANGED num_threads_working
            /\ pc[w] \notin {"pull", "run", "uncount"}
            /\ \E to \in {"test", "wait", "woken", "count", "signal", "exit", "gone"} :
                  pc' = [pc EXCEPT ![w] = to]
        BY <1>3, <2>4 DEF WorkerStep, WorkerStart, WorkerTest, WorkerWait, WorkerWoken,
              WorkerLast, WorkerSignal, WorkerExit, Goto
      <3>2. Busy' = Busy
        BY <1>0, <3>1 DEF Busy
      <3>. QED  BY <1>1, <3>1, <3>2
    <2>. QED  BY <2>1, <2>2, <2>3, <2>4
  <1>4. ASSUME NEW a \in Adder, AddPush(a) \/ \E t \in Task : AddCount(a, t) PROVE CountInv'
    BY <1>2, <1>4 DEF AddPush, AddCount, workerVars
  <1>5. ASSUME NEW x \in Waiter, WaitLock(x) \/ WaitStep(x) \/ WaitSpurious(x) PROVE CountInv'
    BY <1>2, <1>5 DEF WaitStep, WaitLock, WaitLen, WaitWorking, WaitSleep, WaitRelock, WaitSpurious,
                      workerVars
  <1>6. CASE Deinit \/ DeinitStep \/ Alarm
    BY <1>2, <1>6 DEF Deinit, DeinitStep, DeinitPost, DeinitFree, Alarm, workerVars
  <1>7. CASE UNCHANGED vars
    BY <1>2, <1>7 DEF vars, workerVars
  <1>. QED  BY <1>3, <1>4, <1>5, <1>6, <1>7 DEF Next

\* num_threads_working is the number of workers between its increment and its decrement.
THEOREM CountCorrect == Spec => []CountInv
  <1>1. Init => CountInv
    <2>1. Init => Busy = {} /\ num_threads_working = 0
      BY DEF Init, Busy
    <2>. QED  BY <2>1, FS_EmptySet DEF CountInv
  <1>. QED  BY <1>1, CountStep, PoolTypeCorrect, PTL DEF Spec

\* A step in which nobody waiting moves: no task is done away with, and a worker that was free
\* of the tasks of a wait, stays so.
LEMMA WaitInvQuiet ==
    ASSUME WaitInv, UNCHANGED <<wait_pc, wait_i, due>>,
           pushed \subseteq pushed', done \subseteq done',
           deinit_pc = "out" => deinit_pc' = "out" \/ \A x \in Waiter : wait_pc[x] \in {"out", "returned"},
           \A w \in Worker, ts \in SUBSET pushed :
              ts \cap Elements(queue[w]) = {} => ts \cap Elements(queue'[w]) = {},
           \A w \in Worker : pc'[w] = "run" =>
              \/ pc[w] = "run" /\ task_p'[w] = task_p[w]
              \/ task_p'[w] \in Elements(queue[w]),
           wait_i \in [Waiter -> Worker]
    PROVE  WaitInv'
  <1>1. \A w \in Worker, x \in Waiter : Free(w, due[x]) =>
           /\ due'[x] \cap Elements(queue'[w]) = {}
           /\ pc'[w] = "run" => task_p'[w] \notin due'[x]
    <2>. SUFFICES ASSUME NEW w \in Worker, NEW x \in Waiter, Free(w, due[x])
                  PROVE  /\ due'[x] \cap Elements(queue'[w]) = {}
                         /\ pc'[w] = "run" => task_p'[w] \notin due'[x]
      OBVIOUS
    <2>. DEFINE E == Elements(queue[w])
                F == Elements(queue'[w])
    <2>1. due[x] \subseteq pushed /\ due'[x] = due[x]
      BY DEF WaitInv
    <2>2. due[x] \cap E = {} /\ (pc[w] = "run" => task_p[w] \notin due[x])
      BY DEF Free
    <2>3. due[x] \cap F = {}
      BY <2>1, <2>2
    <2>4. pc'[w] = "run" => \/ pc[w] = "run" /\ task_p'[w] = task_p[w]
                            \/ task_p'[w] \in E
      OBVIOUS
    <2>. HIDE DEF E, F
    <2>5. pc'[w] = "run" => task_p'[w] \notin due[x]
      BY <2>2, <2>4
    <2>. QED  BY <2>1, <2>3, <2>5 DEF F
  <1>2. \A x \in Waiter : due'[x] \subseteq pushed'
    BY DEF WaitInv
  <1>3. \A x \in Waiter : wait_pc'[x] = "out" => wait_i'[x] = 0
    BY DEF WaitInv
  <1>4. \A x \in Waiter : wait_pc'[x] \notin {"out", "returned"} => deinit_pc' = "out"
    BY DEF WaitInv
  <1>5. \A x \in Waiter : wait_pc'[x] \notin {"out", "returned"} =>
           \A w \in Worker : w < wait_i'[x] => Free(w, due[x])'
    <2>1. \A x \in Waiter : wait_pc[x] \notin {"out", "returned"} =>
             \A w \in Worker : w < wait_i[x] => Free(w, due[x])
      BY DEF WaitInv
    <2>. QED  BY <1>1, <2>1 DEF Free
  <1>6. \A x \in Waiter : wait_pc'[x] = "working" => due'[x] \cap Elements(queue'[wait_i'[x]]) = {}
    <2>. SUFFICES ASSUME NEW x \in Waiter, wait_pc'[x] = "working"
                  PROVE  due'[x] \cap Elements(queue'[wait_i'[x]]) = {}
      OBVIOUS
    <2>1. due[x] \cap Elements(queue[wait_i[x]]) = {} /\ due[x] \subseteq pushed /\ wait_i[x] \in Worker
      BY DEF WaitInv
    <2>2. due[x] \cap Elements(queue'[wait_i[x]]) = {}
      BY <2>1
    <2>. QED  BY <2>2
  <1>7. WaitMeansDone'
    BY DEF WaitInv, WaitMeansDone
  <1>. QED  BY <1>2, <1>3, <1>4, <1>5, <1>6, <1>7 DEF WaitInv

\* A step of waiter x, to a place where it may be.
LEMMA WaitInvMove ==
    ASSUME WaitInv, PoolType, NEW x \in Waiter, NEW to, NEW i, NEW ts \in SUBSET pushed,
           UNCHANGED <<queue, task_p, pushed, done, deinit_pc>>,
           \A w \in Worker : (pc'[w] = "run") = (pc[w] = "run"),
           wait_pc' = [wait_pc EXCEPT ![x] = to],
           wait_i' = [wait_i EXCEPT ![x] = i],
           due' = [due EXCEPT ![x] = ts],
           to # "out",
           to # "returned" => deinit_pc = "out" /\ \A w \in Worker : w < i => Free(w, ts),
           to = "working" => ts \cap Elements(queue[i]) = {},
           to = "returned" => ts \subseteq done
    PROVE  WaitInv'
  <1>1. DOMAIN wait_pc = Waiter /\ DOMAIN wait_i = Waiter /\ DOMAIN due = Waiter
    BY DEF PoolType
  <1>2. /\ wait_pc'[x] = to /\ wait_i'[x] = i /\ due'[x] = ts
        /\ \A y \in Waiter : y # x => wait_pc'[y] = wait_pc[y] /\ wait_i'[y] = wait_i[y] /\ due'[y] = due[y]
    BY <1>1
  <1>3. \A w : Elements(queue'[w]) = Elements(queue[w])
    OBVIOUS
  <1>4. \A w \in Worker : \A s : (s \cap Elements(queue'[w]) = {} /\ (pc'[w] = "run" => task_p'[w] \notin s)) = Free(w, s)
    BY <1>3 DEF Free
  <1>5. \A y \in Waiter : due'[y] \subseteq pushed'
    BY <1>2 DEF WaitInv
  <1>6. \A y \in Waiter : wait_pc'[y] = "out" => wait_i'[y] = 0
    BY <1>2 DEF WaitInv
  <1>7. \A y \in Waiter : wait_pc'[y] \notin {"out", "returned"} => deinit_pc' = "out"
    BY <1>2 DEF WaitInv
  <1>8. ASSUME NEW y \in Waiter, wait_pc'[y] \notin {"out", "returned"}, NEW w \in Worker, w < wait_i'[y]
        PROVE  Free(w, due[y])'
    <2>1. Free(w, due'[y])
      BY <1>2, <1>8 DEF WaitInv
    <2>. QED  BY <1>4, <2>1 DEF Free
  <1>9. \A y \in Waiter : wait_pc'[y] = "working" => due'[y] \cap Elements(queue'[wait_i'[y]]) = {}
    BY <1>2, <1>3 DEF WaitInv
  <1>10. \A y \in Waiter : wait_pc'[y] = "returned" => due'[y] \subseteq done'
    BY <1>2 DEF WaitInv, WaitMeansDone
  <1>. QED  BY <1>5, <1>6, <1>7, <1>8, <1>9, <1>10 DEF WaitInv, WaitMeansDone

LEMMA WaitInvWaiter ==
    ASSUME PoolType, TaskInv, CountInv, WaitInv, NEW x \in Waiter,
           WaitLock(x) \/ WaitStep(x) \/ WaitSpurious(x)
    PROVE  WaitInv'
  <1>0. /\ wait_pc \in [Waiter -> {"out", "len", "working", "sleep", "asleep", "awake", "returned"}]
        /\ wait_i \in [Waiter -> Worker] /\ due \in [Waiter -> SUBSET Task]
        /\ due[x] \subseteq pushed
    BY DEF PoolType, WaitInv
  <1>1. UNCHANGED <<queue, pc, task_p, pushed, done, deinit_pc>>
    BY DEF WaitLock, WaitStep, WaitLen, WaitWorking, WaitSleep, WaitRelock, WaitSpurious,
           workerVars, addVars, deinitVars
  <1>2. CASE WaitLock(x)
    <2>1. /\ wait_pc[x] = "out" /\ deinit_pc = "out"
          /\ wait_pc' = [wait_pc EXCEPT ![x] = "len"] /\ wait_i' = [wait_i EXCEPT ![x] = wait_i[x]]
          /\ due' = [due EXCEPT ![x] = pushed]
      BY <1>0, <1>2 DEF WaitLock, InUse
    <2>2. wait_i[x] = 0 /\ \A w \in Worker : ~(w < 0)
      BY <2>1 DEF WaitInv, Worker
    <2>. QED  BY <1>1, <2>1, <2>2, WaitInvMove
  <1>3. CASE WaitLen(x)
    <2>1. /\ wait_pc[x] = "len"
          /\ wait_i' = [wait_i EXCEPT ![x] = wait_i[x]] /\ due' = [due EXCEPT ![x] = due[x]]
      BY <1>0, <1>3 DEF WaitLen
    <2>2. PICK to \in {"sleep", "working"} :
            wait_pc' = [wait_pc EXCEPT ![x] = to] /\ (to = "working" => queue[wait_i[x]] = << >>)
      BY <1>3 DEF WaitLen
    <2>3. deinit_pc = "out" /\ \A w \in Worker : w < wait_i[x] => Free(w, due[x])
      BY <2>1 DEF WaitInv
    <2>4. to = "working" => due[x] \cap Elements(queue[wait_i[x]]) = {}
      BY <2>2 DEF Elements
    <2>. QED  BY <1>0, <1>1, <2>1, <2>2, <2>3, <2>4, WaitInvMove
  <1>4. CASE WaitWorking(x)
    <2>1. /\ wait_pc[x] = "working" /\ due' = [due EXCEPT ![x] = due[x]]
      BY <1>0, <1>4 DEF WaitWorking
    <2>2. /\ deinit_pc = "out" /\ \A w \in Worker : w < wait_i[x] => Free(w, due[x])
          /\ due[x] \cap Elements(queue[wait_i[x]]) = {}
      BY <2>1 DEF WaitInv
    <2>3. CASE num_threads_working # 0
      <3>1. wait_pc' = [wait_pc EXCEPT ![x] = "sleep"] /\ wait_i' = [wait_i EXCEPT ![x] = wait_i[x]]
        BY <1>0, <1>4, <2>3 DEF WaitWorking
      <3>. QED  BY <1>0, <1>1, <2>1, <2>2, <3>1, WaitInvMove
    <2>4. CASE num_threads_working = 0
      <3>1. \A w \in Worker : pc[w] # "run"
        BY <2>4, BusyFinite, FS_EmptySet DEF CountInv, Busy
      <3>2. \A w \in Worker : w < wait_i[x] + 1 => Free(w, due[x])
        <4>. SUFFICES ASSUME NEW w \in Worker, w < wait_i[x] + 1 PROVE Free(w, due[x])
          OBVIOUS
        <4>1. w < wait_i[x] \/ w = wait_i[x]
          BY <1>0 DEF Worker
        <4>. QED  BY <2>2, <3>1, <4>1 DEF Free
      <3>3. CASE wait_i[x] + 1 \in Worker
        <4>1. /\ wait_pc' = [wait_pc EXCEPT ![x] = "len"]
              /\ wait_i' = [wait_i EXCEPT ![x] = wait_i[x] + 1]
          BY <1>0, <1>4, <2>4, <3>3 DEF WaitWorking
        <4>. QED  BY <1>0, <1>1, <2>1, <2>2, <3>2, <4>1, WaitInvMove
      <3>4. CASE wait_i[x] + 1 \notin Worker
        <4>1. /\ wait_pc' = [wait_pc EXCEPT ![x] = "returned"]
              /\ wait_i' = [wait_i EXCEPT ![x] = wait_i[x]]
          BY <1>0, <1>4, <2>4, <3>4 DEF WaitWorking
        <4>2. \A w \in Worker : w < wait_i[x] + 1
          BY <1>0, <3>4, PoolAssumption DEF Worker
        <4>3. due[x] \subseteq done
          BY <1>0, <2>2, <3>1, <3>2, <4>2 DEF TaskInv, Free
        <4>. QED  BY <1>0, <1>1, <2>1, <4>1, <4>3, WaitInvMove
      <3>. QED  BY <3>3, <3>4
    <2>. QED  BY <2>3, <2>4
  <1>5. CASE WaitSleep(x) \/ WaitRelock(x) \/ WaitSpurious(x)
    <2>1. /\ wait_pc[x] \in {"sleep", "awake", "asleep"}
          /\ wait_i' = [wait_i EXCEPT ![x] = wait_i[x]] /\ due' = [due EXCEPT ![x] = due[x]]
      BY <1>0, <1>5 DEF WaitSleep, WaitRelock, WaitSpurious
    <2>2. PICK to \in {"asleep", "len", "awake"} : wait_pc' = [wait_pc EXCEPT ![x] = to]
      BY <1>5 DEF WaitSleep, WaitRelock, WaitSpurious
    <2>3. deinit_pc = "out" /\ \A w \in Worker : w < wait_i[x] => Free(w, due[x])
      BY <2>1 DEF WaitInv
    <2>. QED  BY <1>0, <1>1, <2>1, <2>2, <2>3, WaitInvMove
  <1>. QED  BY <1>2, <1>3, <1>4, <1>5 DEF WaitStep

LEMMA WaitInvStep == PoolType /\ TaskInv /\ CountInv /\ WaitInv /\ [Next]_vars => WaitInv'
  <1>. SUFFICES ASSUME PoolType, TaskInv, CountInv, WaitInv, [Next]_vars PROVE WaitInv'
    OBVIOUS
  <1>0. /\ DOMAIN pc = Worker /\ DOMAIN task_p = Worker /\ queue \in [Worker -> Seq(Task)]
        /\ wait_i \in [Waiter -> Worker]
    BY DEF PoolType
  <1>1. CASE /\ UNCHANGED <<queue, pc, task_p, wait_pc, wait_i, due, pushed, done>>
             /\ deinit_pc = "out" => deinit_pc' = "out" \/ \A x \in Waiter : wait_pc[x] \in {"out", "returned"}
    BY <1>0, <1>1, WaitInvQuiet
  <1>2. ASSUME NEW w \in Worker, WorkerStep(w) PROVE WaitInv'
    <2>1. CASE WorkerPull(w)
      <3>1. /\ UNCHANGED <<wait_pc, wait_i, due, pushed, done, deinit_pc>>
            /\ \A u \in Worker \ {w} : queue'[u] = queue[u] /\ pc'[u] = pc[u] /\ task_p'[u] = task_p[u]
        BY <1>0, <2>1 DEF WorkerPull, Goto, waitVars, addVars, deinitVars
      <3>2. CASE queue[w] = << >>
        <4>1. queue'[w] = queue[w] /\ pc'[w] = "uncount"
          BY <1>0, <2>1, <3>2 DEF WorkerPull, Goto
        <4>2. \A u \in Worker : queue'[u] = queue[u]
          BY <3>1, <4>1
        <4>. QED  BY <1>0, <3>1, <4>1, <4>2, WaitInvQuiet
      <3>3. CASE queue[w] # << >>
        <4>1. queue'[w] = Tail(queue[w]) /\ task_p'[w] = Head(queue[w])
          BY <1>0, <2>1, <3>3 DEF WorkerPull
        <4>2. /\ Elements(Tail(queue[w])) = Elements(queue[w]) \ {Head(queue[w])}
              /\ Head(queue[w]) \in Elements(queue[w])
          BY <1>0, <3>3, TailElements DEF TaskInv
        <4>3. \A u \in Worker : Elements(queue'[u]) \subseteq Elements(queue[u])
          BY <3>1, <4>1, <4>2
        <4>4. \A u \in Worker : pc'[u] = "run" =>
                 \/ pc[u] = "run" /\ task_p'[u] = task_p[u]
                 \/ task_p'[u] \in Elements(queue[u])
          BY <3>1, <4>1, <4>2
        <4>5. \A u \in Worker, ts \in SUBSET pushed :
                 ts \cap Elements(queue[u]) = {} => ts \cap Elements(queue'[u]) = {}
          BY <4>3
        <4>. QED  BY <1>0, <3>1, <4>4, <4>5, WaitInvQuiet
      <3>. QED  BY <3>2, <3>3
    <2>2. CASE WorkerRun(w)
      <3>1. /\ UNCHANGED <<queue, wait_pc, wait_i, due, pushed, deinit_pc>> /\ done \subseteq done'
            /\ pc'[w] = "uncount"
            /\ \A u \in Worker \ {w} : pc'[u] = pc[u] /\ task_p'[u] = task_p[u]
        BY <1>0, <2>2 DEF WorkerRun, Goto, waitVars, addVars, deinitVars
      <3>2. \A u \in Worker : pc'[u] = "run" => pc[u] = "run" /\ task_p'[u] = task_p[u]
        BY <3>1
      <3>. QED  BY <1>0, <3>1, <3>2, WaitInvQuiet
    <2>3. CASE ~WorkerPull(w) /\ ~WorkerRun(w)
      <3>1. /\ UNCHANGED <<queue, done, pushed, task_p, deinit_pc, wait_i, due>>
            /\ pc[w] # "run" /\ \E to \in {"test", "wait", "woken", "count", "pull", "last", "signal", "exit", "gone"} :
                  pc' = [pc EXCEPT ![w] = to]
        BY <1>2, <2>3 DEF WorkerStep, WorkerStart, WorkerTest, WorkerWait, WorkerWoken,
              WorkerCount, WorkerUncount, WorkerLast, WorkerSignal, WorkerExit, Goto,
              deinitVars, addVars, waitVars
      <3>2. \A u \in Worker : (pc'[u] = "run") = (pc[u] = "run")
        BY <1>0, <3>1
      <3>3. CASE UNCHANGED wait_pc
        BY <1>0, <3>1, <3>2, <3>3, WaitInvQuiet
      <3>4. CASE ~UNCHANGED wait_pc
        <4>1. PICK x \in Waiter : wait_pc[x] = "asleep" /\ wait_pc' = [wait_pc EXCEPT ![x] = "awake"]
          BY <1>2, <2>3, <3>4 DEF WorkerStep, WorkerStart, WorkerTest, WorkerWait, WorkerWoken,
              WorkerCount, WorkerUncount, WorkerLast, WorkerSignal, WorkerExit, waitVars
        <4>2. /\ wait_i' = [wait_i EXCEPT ![x] = wait_i[x]] /\ due' = [due EXCEPT ![x] = due[x]]
              /\ due[x] \subseteq pushed
          BY <3>1 DEF PoolType, WaitInv
        <4>3. deinit_pc = "out" /\ \A u \in Worker : u < wait_i[x] => Free(u, due[x])
          BY <4>1 DEF WaitInv
        <4>. QED  BY <3>1, <3>2, <4>1, <4>2, <4>3, WaitInvMove
      <3>. QED  BY <3>3, <3>4
    <2>. QED  BY <2>1, <2>2, <2>3
  <1>3. ASSUME NEW a \in Adder, AddPush(a) PROVE WaitInv'
    <2>. DEFINE w == his_task_num
                t == adding[a]
    <2>1. /\ w \in Worker /\ t \in Task /\ t \notin pushed /\ queue[w] \in Seq(Task)
      BY <1>3 DEF AddPush, PoolType, TaskInv
    <2>2. /\ UNCHANGED <<pc, task_p, done, deinit_pc, wait_pc, wait_i, due>> /\ pushed \subseteq pushed'
          /\ queue'[w] = Append(queue[w], t) /\ \A u \in Worker \ {w} : queue'[u] = queue[u]
      BY <1>0, <1>3, <2>1 DEF AddPush, workerVars, waitVars, deinitVars
    <2>3. Elements(queue'[w]) = Elements(queue[w]) \cup {t}
      BY <2>1, <2>2, AppendElements
    <2>. HIDE DEF w, t
    <2>4. \A u \in Worker : Elements(queue'[u]) \subseteq Elements(queue[u]) \cup {t}
      BY <2>2, <2>3
    <2>5. \A u \in Worker, ts \in SUBSET pushed :
             ts \cap Elements(queue[u]) = {} => ts \cap Elements(queue'[u]) = {}
      BY <2>1, <2>4
    <2>. QED  BY <1>0, <2>2, <2>5, WaitInvQuiet
  <1>4. ASSUME NEW a \in Adder, NEW t \in Task, AddCount(a, t) PROVE WaitInv'
    BY <1>1, <1>4 DEF AddCount, workerVars, waitVars, deinitVars
  <1>5. ASSUME NEW x \in Waiter, WaitLock(x) \/ WaitStep(x) \/ WaitSpurious(x) PROVE WaitInv'
    BY <1>5, WaitInvWaiter
  <1>6. CASE Deinit \/ DeinitPost \/ Alarm
    BY <1>1, <1>6 DEF Deinit, DeinitPost, Alarm, workerVars, waitVars, addVars, deinitVars
  <1>7. CASE DeinitFree
    <2>1. /\ \A w \in Worker : queue'[w] = << >>
          /\ deinit_pc # "out" /\ UNCHANGED <<done, pushed, pc, task_p, wait_pc, wait_i, due>>
      BY <1>7 DEF DeinitFree, workerVars, addVars, waitVars
    <2>2. \A u \in Worker : Elements(queue'[u]) = {}
      BY <2>1 DEF Elements
    <2>. QED  BY <1>0, <2>1, <2>2, WaitInvQuiet
  <1>8. CASE UNCHANGED vars
    BY <1>1, <1>8 DEF vars, workerVars, waitVars, addVars, deinitVars
  <1>. QED  BY <1>2, <1>3, <1>4, <1>5, <1>6, <1>7, <1>8 DEF Next, DeinitStep

\* A call of stl_thread_pool_wait that returns has waited for every task pushed before it, for
\* any number of workers, adders and waiters, although it looks at one queue at a time and at
\* num_threads_working without a lock that the workers take.
THEOREM WaitsMeanDone == Spec => []WaitMeansDone
  <1>1. Init => WaitInv
    BY PoolAssumption DEF Init, WaitInv, WaitMeansDone
  <1>2. Spec => []WaitInv
    BY <1>1, WaitInvStep, PoolTypeCorrect, TaskInvariant, CountCorrect, PTL DEF Spec
  <1>3. WaitInv => WaitMeansDone
    BY DEF WaitInv
  <1>. QED  BY <1>2, <1>3, PTL
=============================================================================
