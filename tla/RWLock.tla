------------------------------- MODULE RWLock -------------------------------
(***************************************************************************)
(* The spinning read-write lock of module/stl/src/stl_rwlock.c: one word,  *)
(* which counts the readers or holds STL_RWLOCK_WLOCK_MODE.  Threads read  *)
(* the word and then change it with one instruction, cmpxchg or xadd,      *)
(* which is atomic: the code is built with STL_SMP, or there is one        *)
(* processor.  Pauses and stl_sched_yield are left out; a thread that      *)
(* finds the word taken tries again.                                       *)
(***************************************************************************)
EXTENDS Integers, FiniteSets

CONSTANT RwThread

ASSUME RwAssumption == IsFiniteSet(RwThread)

VARIABLES
    word,     \* the lock
    rwpc,     \* what each thread does next
    readers   \* the variable readers of a thread in stl_rwlock_rlock

rwVars == <<word, rwpc, readers>>

WLockMode == -1  \* all ones, as -1 is in 64 bits

RwControl == {"out", "wtest", "wset", "writing", "rtest", "rset", "reading",
              "unlock", "wrelease", "rrelease", "dtest", "dset"}

RwInit ==
    /\ word = 0
    /\ rwpc = [t \in RwThread |-> "out"]
    /\ readers = [t \in RwThread |-> 0]

Go(t, from, to) == rwpc[t] = from /\ rwpc' = [rwpc EXCEPT ![t] = to]

\* A thread calls one of the functions; unlock and downgrade only with the lock.
Call(t) ==
    /\ \/ Go(t, "out", "wtest")
       \/ Go(t, "out", "rtest")
       \/ Go(t, "writing", "dtest")
    /\ UNCHANGED <<word, readers>>

CallUnlock(t) ==
    /\ Go(t, "writing", "unlock") \/ Go(t, "reading", "unlock")
    /\ UNCHANGED <<word, readers>>

\* stl_rwlock_wlock: the test of the word, then stl_atomic_cmp_set.
WTest(t) ==
    /\ word = 0
    /\ Go(t, "wtest", "wset")
    /\ UNCHANGED <<word, readers>>

WSet(t) ==
    /\ UNCHANGED readers
    /\ \/ word = 0 /\ Go(t, "wset", "writing") /\ word' = WLockMode
       \/ word # 0 /\ Go(t, "wset", "wtest") /\ UNCHANGED word

\* stl_rwlock_rlock: the word is read, then stl_atomic_cmp_set.
RTest(t) ==
    /\ word # WLockMode
    /\ Go(t, "rtest", "rset")
    /\ readers' = [readers EXCEPT ![t] = word]
    /\ UNCHANGED word

\* Mutant: the word is stored without the comparison.
RSetBlind(t) ==
    /\ Go(t, "rset", "reading")
    /\ word' = readers[t] + 1
    /\ UNCHANGED readers

RSet(t) ==
    /\ UNCHANGED readers
    /\ \/ word = readers[t] /\ Go(t, "rset", "reading") /\ word' = readers[t] + 1
       \/ word # readers[t] /\ Go(t, "rset", "rtest") /\ UNCHANGED word

\* stl_rwlock_unlock: the test, then stl_atomic_cmp_set or stl_atomic_fetch_add.
Unlock(t) ==
    /\ Go(t, "unlock", IF word = WLockMode THEN "wrelease" ELSE "rrelease")
    /\ UNCHANGED <<word, readers>>

\* Mutant: the word is decremented also by a writer.
WReleaseByOne(t) ==
    /\ Go(t, "wrelease", "out")
    /\ word' = word - 1
    /\ UNCHANGED readers

WRelease(t) ==
    /\ Go(t, "wrelease", "out")
    /\ word' = IF word = WLockMode THEN 0 ELSE word
    /\ UNCHANGED readers

RRelease(t) ==
    /\ Go(t, "rrelease", "out")
    /\ word' = word - 1
    /\ UNCHANGED readers

\* stl_rwlock_downgrade: the test, then an ordinary store.
DTest(t) ==
    /\ Go(t, "dtest", IF word = WLockMode THEN "dset" ELSE "writing")
    /\ UNCHANGED <<word, readers>>

DSet(t) ==
    /\ Go(t, "dset", "reading")
    /\ word' = 1
    /\ UNCHANGED readers

\* The steps that a thread takes without its caller's doing, but for the unlock.
RwStep(t) ==
    \/ WTest(t) \/ WSet(t) \/ RTest(t) \/ RSet(t)
    \/ Unlock(t) \/ WRelease(t) \/ RRelease(t) \/ DTest(t) \/ DSet(t)
    \/ CallUnlock(t)

RwNext == \E t \in RwThread : Call(t) \/ RwStep(t)

RwSpec == RwInit /\ [][RwNext]_rwVars

\* Every thread goes on, and gives the lock back some time.
RwFairness == \A t \in RwThread : WF_rwVars(RwStep(t))

(***************************************************************************)
(*                              Properties                                 *)
(***************************************************************************)
RwTypeOK ==
    /\ word \in Int
    /\ rwpc \in [RwThread -> RwControl]
    /\ readers \in [RwThread -> Int]

\* A thread that has the lock to write holds it until the word no longer says so.
Writes(t) == rwpc[t] \in {"writing", "wrelease", "dtest", "dset"} \/ (rwpc[t] = "unlock" /\ word = WLockMode)
Reads(t) == rwpc[t] \in {"reading", "rrelease"} \/ (rwpc[t] = "unlock" /\ word # WLockMode)

Writers == {t \in RwThread : Writes(t)}
Readers == {t \in RwThread : Reads(t)}

\* While a thread writes no other thread reads or writes, although the word is tested by one
\* instruction and changed by a later one (stl_rwlock.c:72, 116, 152 and 169).
RwExclusion ==
    \A t, u \in RwThread : rwpc[t] = "writing" /\ rwpc[u] \in {"writing", "reading"} => t = u

\* The word counts the threads that read, or says that one thread writes: after any history of
\* calls nobody is counted twice or forgotten, and a free lock is 0 (stl_rwlock.c:154 and 158).
WordIsState ==
    \/ word = WLockMode /\ Readers = {} /\ \E t \in RwThread : Writers = {t}
    \/ word = Cardinality(Readers) /\ Writers = {}

\* Threads that wait do not wait for each other: some thread gets the lock, as a cmpxchg only
\* fails because another one has succeeded.
SomeoneGetsIt ==
    (\E t \in RwThread : rwpc[t] \in {"wtest", "wset", "rtest", "rset"})
        ~> (\E t \in RwThread : rwpc[t] \in {"writing", "reading"})
=============================================================================
