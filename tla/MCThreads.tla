----------------------------- MODULE MCThreads ------------------------------
(* Instances for TLC of the parts that have threads, each on its own. *)
EXTENDS ThreadPool, RWLock, Epoll

VARIABLE subject  \* the part that runs

\* The epoll sets of the workers: the number of the second may become a connection's.
SetNumbers == [w \in EpollWorker |-> 6 + 2 * w]

\* What io_func returns: go on, or close the connection.
GoOnOrClose == {0, -1}

ThreadsInit ==
    /\ Init /\ RwInit /\ EpollInit
    /\ subject \in {"pool", "rwlock", "epoll"}
    /\ subject # "pool" => his_task_num = 0

ThreadsNext ==
    /\ UNCHANGED subject
    /\ \/ subject = "pool" /\ Next /\ UNCHANGED <<rwVars, epollVars>>
       \/ subject = "rwlock" /\ RwNext /\ UNCHANGED <<vars, epollVars>>
       \/ subject = "epoll" /\ EpollNext /\ UNCHANGED <<vars, rwVars>>

\* Fairness of ThreadPool, where the pool is what runs.
PoolFairness ==
    /\ \A w \in Worker : WF_vars(subject = "pool" /\ WorkerStep(w))
    /\ \A a \in Adder : WF_vars(subject = "pool" /\ AddPush(a))
    /\ \A x \in Waiter : SF_vars(subject = "pool" /\ WaitStep(x))
    /\ WF_vars(subject = "pool" /\ DeinitStep)

\* Without a call from outside nothing can be done in the other two.
ThreadsSpec ==
    /\ ThreadsInit /\ [][ThreadsNext]_<<subject, vars, rwVars, epollVars>>
    /\ PoolFairness /\ RwFairness /\ EpollFairness
=============================================================================
