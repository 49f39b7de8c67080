----------------------------- MODULE ThreadPool -----------------------------
(***************************************************************************)
(* The thread pool of the stl module (stl_thread_pool.c): num_threads      *)
(* workers, each with a task queue and a binary semaphore of its own,      *)
(* callers of stl_thread_pool_add_task and stl_thread_pool_wait, and one   *)
(* call of stl_thread_pool_deinit.                                         *)
(*                                                                         *)
(* One action is one access to what threads share: an atomic counter, a    *)
(* plain read of threads_keepalive or of a queue's len, a condition        *)
(* variable, or a critical section (the queue's rwmutex, and inside it the *)
(* semaphore's mutex; bsem_wait is one step that needs v = 1).             *)
(***************************************************************************)
EXTENDS Integers, Sequences, FiniteSets

CONSTANTS
    NumThreads,   \* num_threads of stl_thread_pool_init
    Task,         \* the tasks to add, each with a function and an argument
    Adder,        \* the threads that add tasks
    Waiter,       \* the threads that call stl_thread_pool_wait, once each
    MayDeinit,    \* whether the pool is taken down
    None

ASSUME PoolAssumption ==
    /\ NumThreads \in Nat \ {0}
    /\ MayDeinit \in BOOLEAN
    /\ None \notin Task \cup Waiter

VARIABLES
    queue, v,             \* of each worker: the tasks, and has_jobs->v
    pc, task_p,           \* where each worker is in stl_thread_do, and the task it has pulled
    threads_keepalive, num_threads_alive, num_threads_working,
    his_task_num,         \* modulo num_threads
    adding,               \* the task each adder has counted and not pushed yet
    wait_pc, wait_i,      \* where each waiter is in stl_thread_pool_wait, and its i
    thcount_lock,         \* the waiter that holds the lock
    deinit_pc, threads_total, freed, alarmed,
    crashed,              \* the process is gone: undefined behaviour, or SIGALRM
    pushed, done, due     \* history: tasks pushed, tasks run, what each wait has to wait for

workerVars == <<pc, task_p, num_threads_alive, num_threads_working, done>>
waitVars == <<wait_pc, wait_i, thcount_lock, due>>
addVars == <<his_task_num, adding, pushed>>
deinitVars == <<threads_keepalive, deinit_pc, threads_total, freed, alarmed>>
vars == <<queue, v, crashed, workerVars, waitVars, addVars, deinitVars>>

Worker == 0 .. NumThreads - 1

\* stl_thread_pool_init, which leaves his_task_num as it found it.
Init ==
    /\ queue = [w \in Worker |-> << >>]
    /\ v = [w \in Worker |-> 0]
    /\ pc = [w \in Worker |-> "start"]
    /\ task_p = [w \in Worker |-> None]
    /\ threads_keepalive = TRUE
    /\ num_threads_alive = 0
    /\ num_threads_working = 0
    /\ his_task_num \in Worker
    /\ adding = [a \in Adder |-> None]
    /\ wait_pc = [x \in Waiter |-> "out"]
    /\ wait_i = [x \in Waiter |-> 0]
    /\ thcount_lock = None
    /\ deinit_pc = "out"
    /\ threads_total = 0
    /\ freed = {}
    /\ alarmed = FALSE
    /\ crashed = FALSE
    /\ pushed = {}
    /\ done = {}
    /\ due = [x \in Waiter |-> {}]

(***************************************************************************)
(* stl_thread_do, the life of a worker.                                    *)
(***************************************************************************)
Goto(w, from, to) ==
    /\ ~crashed
    /\ pc[w] = from
    /\ pc' = [pc EXCEPT ![w] = to]

\* Reads its record, which deinit may have freed by now, and counts itself alive.
WorkerStart(w) ==
    /\ Goto(w, "start", "test")
    /\ num_threads_alive' = num_threads_alive + 1
    /\ crashed' \in IF w \in freed THEN BOOLEAN ELSE {FALSE}
    /\ UNCHANGED <<queue, v, task_p, num_threads_working, done, waitVars, addVars, deinitVars>>

WorkerTest(w) ==
    /\ Goto(w, "test", IF threads_keepalive THEN "wait" ELSE "exit")
    /\ UNCHANGED <<queue, v, task_p, num_threads_alive, num_threads_working, done, crashed,
                   waitVars, addVars, deinitVars>>

\* bsem_wait
WorkerWait(w) ==
    /\ Goto(w, "wait", "woken")
    /\ v[w] = 1
    /\ v' = [v EXCEPT ![w] = 0]
    /\ UNCHANGED <<queue, task_p, num_threads_alive, num_threads_working, done, crashed,
                   waitVars, addVars, deinitVars>>

WorkerWoken(w) ==
    /\ Goto(w, "woken", IF threads_keepalive THEN "count" ELSE "test")
    /\ UNCHANGED <<queue, v, task_p, num_threads_alive, num_threads_working, done, crashed,
                   waitVars, addVars, deinitVars>>

WorkerCount(w) ==
    /\ Goto(w, "count", "pull")
    /\ num_threads_working' = num_threads_working + 1
    /\ UNCHANGED <<queue, v, task_p, num_threads_alive, done, crashed,
                   waitVars, addVars, deinitVars>>

\* Mutant: the semaphore is not posted again for the last task.
PullNoPost(w) ==
    /\ Goto(w, "pull", IF queue[w] = << >> THEN "uncount" ELSE "run")
    /\ task_p' = [task_p EXCEPT ![w] = IF queue[w] = << >> THEN None ELSE Head(queue[w])]
    /\ queue' = [queue EXCEPT ![w] = IF @ = << >> THEN @ ELSE Tail(@)]
    /\ v' = [v EXCEPT ![w] = IF Len(queue[w]) > 2 THEN 1 ELSE @]
    /\ UNCHANGED <<num_threads_alive, num_threads_working, done, crashed,
                   waitVars, addVars, deinitVars>>

\* Mutant: the only task of a queue is pulled and stays in it.
PullKeepsLast(w) ==
    /\ Goto(w, "pull", IF queue[w] = << >> THEN "uncount" ELSE "run")
    /\ task_p' = [task_p EXCEPT ![w] = IF queue[w] = << >> THEN None ELSE Head(queue[w])]
    /\ queue' = [queue EXCEPT ![w] = IF Len(@) <= 1 THEN @ ELSE Tail(@)]
    /\ v' = [v EXCEPT ![w] = IF Len(queue[w]) > 1 THEN 1 ELSE @]
    /\ UNCHANGED <<num_threads_alive, num_threads_working, done, crashed,
                   waitVars, addVars, deinitVars>>

\* task_queue_pull
WorkerPull(w) ==
    /\ Goto(w, "pull", IF queue[w] = << >> THEN "uncount" ELSE "run")
    /\ task_p' = [task_p EXCEPT ![w] = IF queue[w] = << >> THEN None ELSE Head(queue[w])]
    /\ queue' = [queue EXCEPT ![w] = IF @ = << >> THEN @ ELSE Tail(@)]
    /\ v' = [v EXCEPT ![w] = IF Len(queue[w]) > 1 THEN 1 ELSE @]
    /\ UNCHANGED <<num_threads_alive, num_threads_working, done, crashed,
                   waitVars, addVars, deinitVars>>

WorkerRun(w) ==
    /\ Goto(w, "run", "uncount")
    /\ done' = done \cup {task_p[w]}
    /\ task_p' = [task_p EXCEPT ![w] = None]
    /\ UNCHANGED <<queue, v, num_threads_alive, num_threads_working, crashed,
                   waitVars, addVars, deinitVars>>

WorkerUncount(w) ==
    /\ Goto(w, "uncount", "last")
    /\ num_threads_working' = num_threads_working - 1
    /\ UNCHANGED <<queue, v, task_p, num_threads_alive, done, crashed,
                   waitVars, addVars, deinitVars>>

WorkerLast(w) ==
    /\ Goto(w, "last", IF num_threads_working = 0 THEN "signal" ELSE "test")
    /\ UNCHANGED <<queue, v, task_p, num_threads_alive, num_threads_working, done, crashed,
                   waitVars, addVars, deinitVars>>

\* pthread_cond_signal, without thcount_lock: wakes one of those asleep by now, if any.
WorkerSignal(w) ==
    LET asleep == {x \in Waiter : wait_pc[x] = "asleep"} IN
    /\ Goto(w, "signal", "test")
    /\ \/ asleep = {} /\ UNCHANGED wait_pc
       \/ \E x \in asleep : wait_pc' = [wait_pc EXCEPT ![x] = "awake"]
    /\ UNCHANGED <<queue, v, task_p, num_threads_alive, num_threads_working, done, crashed,
                   wait_i, thcount_lock, due, addVars, deinitVars>>

WorkerExit(w) ==
    /\ Goto(w, "exit", "gone")
    /\ num_threads_alive' = num_threads_alive - 1
    /\ UNCHANGED <<queue, v, task_p, num_threads_working, done, crashed,
                   waitVars, addVars, deinitVars>>

WorkerStep(w) ==
    \/ WorkerStart(w) \/ WorkerTest(w) \/ WorkerWait(w) \/ WorkerWoken(w) \/ WorkerCount(w)
    \/ WorkerPull(w) \/ WorkerRun(w) \/ WorkerUncount(w) \/ WorkerLast(w) \/ WorkerSignal(w)
    \/ WorkerExit(w)

(***************************************************************************)
(* stl_thread_pool_add_task.  The pool is in use until deinit is called.   *)
(***************************************************************************)
InUse == deinit_pc = "out" /\ ~crashed

AddCount(a, t) ==
    /\ InUse
    /\ adding[a] = None
    /\ t \notin pushed /\ \A b \in Adder : adding[b] # t
    /\ his_task_num' = (his_task_num + 1) % NumThreads
    /\ adding' = [adding EXCEPT ![a] = t]
    /\ UNCHANGED <<queue, v, crashed, pushed, workerVars, waitVars, deinitVars>>

\* Reads his_task_num again, and task_queue_push: at the rear, with the semaphore posted.
AddPush(a) ==
    LET w == his_task_num IN
    /\ adding[a] # None
    /\ queue' = [queue EXCEPT ![w] = Append(@, adding[a])]
    /\ v' = [v EXCEPT ![w] = 1]
    /\ pushed' = pushed \cup {adding[a]}
    /\ adding' = [adding EXCEPT ![a] = None]
    /\ UNCHANGED <<crashed, his_task_num, workerVars, waitVars, deinitVars>>

(***************************************************************************)
(* stl_thread_pool_wait                                                    *)
(***************************************************************************)
WaitLock(x) ==
    /\ InUse
    /\ wait_pc[x] = "out"
    /\ thcount_lock = None
    /\ thcount_lock' = x
    /\ wait_pc' = [wait_pc EXCEPT ![x] = "len"]
    /\ due' = [due EXCEPT ![x] = pushed]
    /\ UNCHANGED <<queue, v, crashed, wait_i, workerVars, addVars, deinitVars>>

WaitLen(x) ==
    /\ wait_pc[x] = "len"
    /\ wait_pc' = [wait_pc EXCEPT ![x] = IF queue[wait_i[x]] # << >> THEN "sleep" ELSE "working"]
    /\ UNCHANGED <<queue, v, crashed, wait_i, thcount_lock, due, workerVars, addVars, deinitVars>>

\* Mutant: the workers that are busy are not looked at.
WaitLenOnly(x) ==
    /\ wait_pc[x] = "working"
    /\ IF wait_i[x] + 1 \in Worker
       THEN /\ wait_pc' = [wait_pc EXCEPT ![x] = "len"]
            /\ wait_i' = [wait_i EXCEPT ![x] = @ + 1]
            /\ UNCHANGED thcount_lock
       ELSE /\ wait_pc' = [wait_pc EXCEPT ![x] = "returned"]
            /\ thcount_lock' = None
            /\ UNCHANGED wait_i
    /\ UNCHANGED <<queue, v, crashed, due, workerVars, addVars, deinitVars>>

WaitWorking(x) ==
    /\ wait_pc[x] = "working"
    /\ IF num_threads_working # 0
       THEN /\ wait_pc' = [wait_pc EXCEPT ![x] = "sleep"]
            /\ UNCHANGED <<wait_i, thcount_lock>>
       ELSE IF wait_i[x] + 1 \in Worker
       THEN /\ wait_pc' = [wait_pc EXCEPT ![x] = "len"]
            /\ wait_i' = [wait_i EXCEPT ![x] = @ + 1]
            /\ UNCHANGED thcount_lock
       ELSE /\ wait_pc' = [wait_pc EXCEPT ![x] = "returned"]
            /\ thcount_lock' = None
            /\ UNCHANGED wait_i
    /\ UNCHANGED <<queue, v, crashed, due, workerVars, addVars, deinitVars>>

\* pthread_cond_wait: gives up the lock and sleeps in one step, ...
WaitSleep(x) ==
    /\ wait_pc[x] = "sleep"
    /\ wait_pc' = [wait_pc EXCEPT ![x] = "asleep"]
    /\ thcount_lock' = None
    /\ UNCHANGED <<queue, v, crashed, wait_i, due, workerVars, addVars, deinitVars>>

\* ... and takes the lock again once it is awake.
WaitRelock(x) ==
    /\ wait_pc[x] = "awake"
    /\ thcount_lock = None
    /\ thcount_lock' = x
    /\ wait_pc' = [wait_pc EXCEPT ![x] = "len"]
    /\ UNCHANGED <<queue, v, crashed, wait_i, due, workerVars, addVars, deinitVars>>

\* A condition variable may wake a thread for no reason.
WaitSpurious(x) ==
    /\ wait_pc[x] = "asleep"
    /\ wait_pc' = [wait_pc EXCEPT ![x] = "awake"]
    /\ UNCHANGED <<queue, v, crashed, wait_i, thcount_lock, due, workerVars, addVars, deinitVars>>

WaitStep(x) == WaitLen(x) \/ WaitWorking(x) \/ WaitSleep(x) \/ WaitRelock(x)

(***************************************************************************)
(* stl_thread_pool_deinit, when no other call is under way.                *)
(***************************************************************************)
Deinit ==
    /\ MayDeinit
    /\ InUse
    /\ \A a \in Adder : adding[a] = None
    /\ \A x \in Waiter : wait_pc[x] \in {"out", "returned"}
    /\ threads_total' = num_threads_alive
    /\ threads_keepalive' = FALSE
    /\ deinit_pc' = "grace"
    /\ UNCHANGED <<queue, v, crashed, freed, alarmed, workerVars, waitVars, addVars>>

\* bsem_post_all(queue->has_jobs), where queue is the array of queues cast to a queue: no
\* semaphore of the pool is at that address.  Once the second is over, every turn of the
\* second loop puts off the alarm it has set.
DeinitPost ==
    /\ deinit_pc \in {"grace", "poll"} /\ ~crashed
    /\ num_threads_alive # 0
    /\ crashed' \in BOOLEAN
    /\ \/ deinit_pc = "grace" /\ deinit_pc' \in {"grace", "poll"} /\ UNCHANGED alarmed
       \/ deinit_pc = "poll" /\ alarmed' = TRUE /\ UNCHANGED deinit_pc
    /\ UNCHANGED <<queue, v, threads_keepalive, threads_total, freed, workerVars, waitVars, addVars>>

\* Both loops are over: task_queue_clear, and the first threads_total records are freed.
DeinitFree ==
    /\ deinit_pc \in {"grace", "poll"} /\ ~crashed
    /\ num_threads_alive = 0
    /\ queue' = [w \in Worker |-> << >>]
    /\ v' = [w \in Worker |-> 0]
    /\ freed' = 0 .. threads_total - 1
    /\ deinit_pc' = "returned"
    /\ UNCHANGED <<crashed, threads_keepalive, threads_total, alarmed, workerVars, waitVars, addVars>>

\* The alarm of the second loop goes off after its last turn; nothing handles SIGALRM.
Alarm ==
    /\ deinit_pc = "returned" /\ alarmed /\ ~crashed
    /\ crashed' = TRUE
    /\ UNCHANGED <<queue, v, workerVars, waitVars, addVars, deinitVars>>

DeinitStep == DeinitPost \/ DeinitFree

Next ==
    \/ \E w \in Worker : WorkerStep(w)
    \/ \E a \in Adder : AddPush(a) \/ \E t \in Task : AddCount(a, t)
    \/ \E x \in Waiter : WaitLock(x) \/ WaitStep(x) \/ WaitSpurious(x)
    \/ Deinit \/ DeinitStep \/ Alarm

\* The scheduler runs every thread that can run, and every task ends.
Fairness ==
    /\ \A w \in Worker : WF_vars(WorkerStep(w))
    /\ \A a \in Adder : WF_vars(AddPush(a))
    /\ \A x \in Waiter : SF_vars(WaitStep(x))
    /\ WF_vars(DeinitStep)

Spec == Init /\ [][Next]_vars
FairSpec == Spec /\ Fairness

(***************************************************************************)
(*                              Properties                                 *)
(***************************************************************************)
Queued(w) == {queue[w][i] : i \in DOMAIN queue[w]}

\* While the pool is up, no task is left in a queue with nobody to pull it: its semaphore is
\* posted, or its worker has taken the post and will pull.  The semaphore is binary, so two
\* pushes may leave one post; task_queue_pull has to make up for it (stl_thread_pool.c:301).
NotStranded ==
    threads_keepalive =>
        \A w \in Worker : queue[w] # << >> => v[w] = 1 \/ pc[w] \in {"woken", "count", "pull"}

\* A task is never lost and never run twice while the pool is up: what was pushed is in one
\* place of one queue, in the hands of one worker, or done.
TaskOnce ==
    /\ \A w \in Worker : \A i, j \in DOMAIN queue[w] : queue[w][i] = queue[w][j] => i = j
    /\ \A w \in Worker : pc[w] = "run" =>
          task_p[w] \notin done \cup UNION {Queued(u) : u \in Worker}
    /\ \A w, u \in Worker : w # u =>
          /\ Queued(w) \cap Queued(u) = {}
          /\ pc[w] = "run" /\ pc[u] = "run" => task_p[w] # task_p[u]
    /\ \A w \in Worker : Queued(w) \cap done = {}
    /\ deinit_pc # "returned" =>
          pushed = done \cup (UNION {Queued(w) : w \in Worker})
                        \cup {task_p[w] : w \in {u \in Worker : pc[u] = "run"}}

\* stl_thread_pool_wait returns only when every task pushed before the call has run, although
\* it reads the queues one by one, and num_threads_working after each, with no lock that a
\* worker or an adder would take.
WaitMeansDone == \A x \in Waiter : wait_pc[x] = "returned" => due[x] \subseteq done

\* Every task that was pushed runs in the end, unless the pool is taken down before.
TasksDone == \A t \in Task : t \in pushed ~> t \in done \/ ~threads_keepalive

\* A call of stl_thread_pool_wait returns: the test program (test_stl_thread_pool.c:34)
\* waits for its tasks before it dumps the counters and ends.
WaitReturns == \A x \in Waiter : wait_pc[x] = "len" ~> wait_pc[x] = "returned"

\* stl_thread_pool_deinit returns: "Give one second to kill idle threads" and "Poll remaining
\* threads" (stl_thread_pool.c:411 and 424) say that it gets rid of them all.
DeinitReturns == deinit_pc = "grace" ~> deinit_pc = "returned"
=============================================================================
