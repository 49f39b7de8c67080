-------------------------------- MODULE Cond --------------------------------
(***************************************************************************)
(* The one-slot mailbox of module/stl/src/stl_cond.c: threads that signal  *)
(* a datum and threads that wait for one, over a pthread mutex and         *)
(* condition variable (external; a wait may end without a signal).  A      *)
(* signaller's datum is its own name.                                      *)
(***************************************************************************)
CONSTANTS
    Signaller, Waiter,  \* threads
    NULL                \* no datum, and no thread

VARIABLES
    mtx,         \* the thread that holds the mutex
    done, data,  \* the fields
    pc           \* what each thread does next

condVars == <<mtx, done, data, pc>>

CondInit ==
    /\ mtx = NULL
    /\ done = FALSE /\ data = NULL
    /\ pc = [t \in Signaller \cup Waiter |-> "lock"]

\* pthread_mutex_lock, also at the end of pthread_cond_wait.
Lock(t) ==
    /\ pc[t] \in {"lock", "woken"}
    /\ mtx = NULL /\ mtx' = t
    /\ pc' = [pc EXCEPT ![t] = "locked"]
    /\ UNCHANGED <<done, data>>

Asleep == {w \in Waiter : pc[w] = "asleep"}

\* Mutant: pthread_cond_signal is left out.
SignalNobody(t) ==
    /\ pc[t] = "locked"
    /\ data' = t /\ done' = TRUE
    /\ mtx' = NULL
    /\ pc' = [pc EXCEPT ![t] = "end"]

\* stl_cond_signal with the mutex: one of the threads that sleep is woken.
Signal(t) ==
    /\ pc[t] = "locked"
    /\ data' = t /\ done' = TRUE
    /\ mtx' = NULL
    /\ IF Asleep = {} THEN pc' = [pc EXCEPT ![t] = "end"]
       ELSE \E w \in Asleep : pc' = [pc EXCEPT ![t] = "end", ![w] = "woken"]

\* stl_cond_wait with the mutex: pthread_cond_wait, which lets the mutex go ...
Sleep(w) ==
    /\ pc[w] = "locked" /\ ~done
    /\ mtx' = NULL
    /\ pc' = [pc EXCEPT ![w] = "asleep"]
    /\ UNCHANGED <<done, data>>

SpuriousWakeup(w) ==
    /\ pc[w] = "asleep"
    /\ pc' = [pc EXCEPT ![w] = "woken"]
    /\ UNCHANGED <<mtx, done, data>>

\* ... or the datum.
Fetch(w) ==
    /\ pc[w] = "locked" /\ done
    /\ data' = NULL /\ done' = FALSE
    /\ mtx' = NULL
    /\ pc' = [pc EXCEPT ![w] = "end"]

CondNext ==
    \/ \E t \in Signaller \cup Waiter : Lock(t)
    \/ \E t \in Signaller : Signal(t)
    \/ \E w \in Waiter : Sleep(w) \/ SpuriousWakeup(w) \/ Fetch(w)

CondSpec == CondInit /\ [][CondNext]_condVars

(***************************************************************************)
(*                              Properties                                 *)
(***************************************************************************)
\* A datum never lies there while all who have asked for one sleep: whoever was woken for it
\* is on the way until somebody has fetched it (stl_cond.c:69 and 80).
NotSleptOver == done /\ Asleep # {} => \E w \in Waiter : pc[w] \in {"woken", "locked"}
=============================================================================
