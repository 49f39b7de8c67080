--------------------------- MODULE Threads_proofs ---------------------------
(***************************************************************************)
(* Proofs about the read-write lock (RWLock), for any number of threads,   *)
(* and about the epoll loop (Epoll), for any number of workers,            *)
(* descriptors and clients: io_func is called for the connection the event *)
(* was for, and a connection that was handed over is watched.              *)
(***************************************************************************)
EXTENDS RWLock, Epoll, FiniteSetTheorems, SequenceTheorems, TLAPS

-----------------------------------------------------------------------------
(* The read-write lock. *)

\* A thread that is about to compare and set has not read STL_RWLOCK_WLOCK_MODE.
ReadersRead == \A t \in RwThread : rwpc[t] = "rset" => readers[t] # WLockMode

RwInv == RwTypeOK /\ WordIsState /\ ReadersRead

\* The readers can be counted.
LEMMA ReadersFinite ==
    /\ IsFiniteSet(Readers) /\ Cardinality(Readers) \in Nat
    /\ Cardinality(Readers) = 0 <=> Readers = {}
<1>1. Readers \subseteq RwThread
  BY DEF Readers
<1>2. IsFiniteSet(Readers)
  BY <1>1, FS_Subset, RwAssumption
<1>. QED
  BY <1>2, FS_CardinalityType, FS_EmptySet

\* What the word says of a thread that has the lock.
LEMMA WordOfHolder ==
    ASSUME RwInv, NEW t \in RwThread
    PROVE  /\ Writes(t) => word = WLockMode /\ Readers = {} /\ Writers = {t}
           /\ Reads(t) => word # WLockMode /\ word = Cardinality(Readers) /\ Writers = {}
<1>. USE DEF RwInv, WordIsState
<1>1. Writes(t) <=> t \in Writers
  BY DEF Writers
<1>2. Reads(t) <=> t \in Readers
  BY DEF Readers
<1>3. Cardinality(Readers) # WLockMode
  BY ReadersFinite DEF WLockMode
<1>. QED
  BY <1>1, <1>2, <1>3

\* A lock whose word says that nobody writes.
LEMMA NobodyWrites ==
    ASSUME RwInv, word # WLockMode
    PROVE  word = Cardinality(Readers) /\ Writers = {}
BY DEF RwInv, WordIsState

\* Steps that change neither the word nor who has the lock.
LEMMA SameHolders ==
    ASSUME RwInv, NEW t \in RwThread, NEW to \in RwControl,
           rwpc' = [rwpc EXCEPT ![t] = to], word' = word, readers' \in [RwThread -> Int],
           \A u \in RwThread \ {t} : readers'[u] = readers[u],
           to = "rset" => readers'[t] # WLockMode,
           Writes(t)' = Writes(t), Reads(t)' = Reads(t)
    PROVE  RwInv'
<1>1. RwTypeOK'
  BY DEF RwInv, RwTypeOK
<1>2. \A u \in RwThread : Writes(u)' = Writes(u) /\ Reads(u)' = Reads(u)
  <2>. TAKE u \in RwThread
  <2>1. CASE u = t
    BY <2>1
  <2>2. CASE u # t
    BY <2>2 DEF Writes, Reads, RwInv, RwTypeOK
  <2>. QED
    BY <2>1, <2>2
<1>3. Writers' = Writers /\ Readers' = Readers
  BY <1>2 DEF Writers, Readers
<1>4. WordIsState'
  BY <1>3 DEF RwInv, WordIsState
<1>5. ReadersRead'
  BY DEF RwInv, ReadersRead, RwTypeOK
<1>. QED
  BY <1>1, <1>4, <1>5 DEF RwInv

\* Steps in which a thread goes from place to place and leaves the word as it is.
LEMMA MovesKeepInv ==
    ASSUME RwInv, NEW t \in RwThread,
           \/ Call(t) \/ CallUnlock(t) \/ WTest(t) \/ RTest(t) \/ Unlock(t) \/ DTest(t)
           \/ (WSet(t) /\ word # 0)
           \/ (RSet(t) /\ word # readers[t])
    PROVE  RwInv'
<1>. USE DEF Go
<1>0. RwTypeOK /\ rwpc \in [RwThread -> RwControl] /\ readers \in [RwThread -> Int] /\ word \in Int
  BY DEF RwInv, RwTypeOK
<1>1. CASE Call(t)
  <2>1. PICK to \in RwControl : rwpc' = [rwpc EXCEPT ![t] = to] /\ to # "rset"
                              /\ Writes(t)' = Writes(t) /\ Reads(t)' = Reads(t)
    BY <1>1, <1>0 DEF Call, Writes, Reads, RwControl
  <2>. QED
    BY <1>1, <1>0, <2>1, SameHolders DEF Call
<1>2. CASE CallUnlock(t)
  <2>1. rwpc' = [rwpc EXCEPT ![t] = "unlock"] /\ word' = word /\ readers' = readers
    BY <1>2 DEF CallUnlock
  <2>2. Writes(t)' = Writes(t) /\ Reads(t)' = Reads(t)
    <3>1. CASE rwpc[t] = "writing"
      BY <3>1, <2>1, <1>0, WordOfHolder DEF Writes, Reads
    <3>2. CASE rwpc[t] = "reading"
      BY <3>2, <2>1, <1>0, WordOfHolder DEF Writes, Reads
    <3>. QED
      BY <1>2, <3>1, <3>2 DEF CallUnlock
  <2>. QED
    BY <1>0, <2>1, <2>2, SameHolders DEF RwControl
<1>3. CASE WTest(t) \/ (WSet(t) /\ word # 0) \/ (RSet(t) /\ word # readers[t])
  <2>1. PICK to \in RwControl : rwpc' = [rwpc EXCEPT ![t] = to] /\ to # "rset"
                              /\ Writes(t)' = Writes(t) /\ Reads(t)' = Reads(t)
    BY <1>3, <1>0 DEF WTest, WSet, RSet, Writes, Reads, RwControl
  <2>. QED
    BY <1>3, <1>0, <2>1, SameHolders DEF WTest, WSet, RSet
<1>4. CASE RTest(t)
  <2>1. rwpc' = [rwpc EXCEPT ![t] = "rset"] /\ Writes(t)' = Writes(t) /\ Reads(t)' = Reads(t)
    BY <1>4, <1>0 DEF RTest, Writes, Reads
  <2>. QED
    BY <1>4, <1>0, <2>1, SameHolders DEF RTest, RwControl
<1>5. CASE Unlock(t)
  <2>1. PICK to \in RwControl : rwpc' = [rwpc EXCEPT ![t] = to] /\ to # "rset"
                              /\ Writes(t)' = Writes(t) /\ Reads(t)' = Reads(t)
    BY <1>5, <1>0 DEF Unlock, Writes, Reads, RwControl
  <2>. QED
    BY <1>5, <1>0, <2>1, SameHolders DEF Unlock
<1>6. CASE DTest(t)
  <2>1. word = WLockMode
    BY <1>6, WordOfHolder DEF DTest, Writes
  <2>2. rwpc' = [rwpc EXCEPT ![t] = "dset"] /\ Writes(t)' = Writes(t) /\ Reads(t)' = Reads(t)
    BY <1>6, <1>0, <2>1 DEF DTest, Writes, Reads
  <2>. QED
    BY <1>6, <1>0, <2>2, SameHolders DEF DTest, RwControl
<1>. QED
  BY <1>1, <1>2, <1>3, <1>4, <1>5, <1>6

\* What a step that takes the lock or gives it back does to the types and to ReadersRead.
LEMMA ChangesKeepTypes ==
    ASSUME RwInv, word' \in Int, readers' = readers, rwpc' \in [RwThread -> RwControl],
           \A u \in RwThread : rwpc'[u] = "rset" => rwpc[u] = "rset"
    PROVE  RwTypeOK' /\ ReadersRead'
BY DEF RwInv, RwTypeOK, ReadersRead

\* A writer takes the lock: nobody else has it, a thread about to unlock included.
LEMMA TakeToWrite ==
    ASSUME RwInv, NEW t \in RwThread, WSet(t), word = 0
    PROVE  RwInv'
<1>1. rwpc' = [rwpc EXCEPT ![t] = "writing"] /\ word' = WLockMode /\ readers' = readers
      /\ rwpc \in [RwThread -> RwControl] /\ rwpc[t] = "wset"
  BY DEF WSet, Go, RwInv, RwTypeOK
<1>2. Writers = {} /\ Readers = {}
  BY NobodyWrites, ReadersFinite DEF WLockMode
<1>3. \A u \in RwThread : rwpc[u] \notin {"writing", "wrelease", "dtest", "dset", "reading", "rrelease", "unlock"}
  BY <1>2 DEF Writers, Readers, Writes, Reads
<1>4. \A u \in RwThread : (Writes(u)' <=> u = t) /\ ~Reads(u)'
  BY <1>1, <1>3 DEF Writes, Reads
<1>5. Writers' = {t} /\ Readers' = {}
  BY <1>4 DEF Writers, Readers
<1>6. RwTypeOK' /\ ReadersRead'
  <2>1. word' \in Int /\ rwpc' \in [RwThread -> RwControl]
    BY <1>1 DEF RwControl, WLockMode
  <2>2. \A u \in RwThread : rwpc'[u] = "rset" => rwpc[u] = "rset"
    BY <1>1
  <2>. QED
    BY <1>1, <2>1, <2>2, ChangesKeepTypes
<1>. QED
  BY <1>1, <1>5, <1>6 DEF RwInv, WordIsState

\* A reader takes the lock: it was not counted before.
LEMMA TakeToRead ==
    ASSUME RwInv, NEW t \in RwThread, RSet(t), word = readers[t]
    PROVE  RwInv'
<1>1. rwpc' = [rwpc EXCEPT ![t] = "reading"] /\ word' = word + 1 /\ readers' = readers
      /\ rwpc \in [RwThread -> RwControl] /\ rwpc[t] = "rset"
  BY DEF RSet, Go, RwInv, RwTypeOK
<1>2. word = Cardinality(Readers) /\ Writers = {} /\ word # WLockMode
  BY <1>1, NobodyWrites DEF RwInv, ReadersRead
<1>3. word \in Nat /\ word' # WLockMode
  BY <1>1, <1>2, ReadersFinite DEF WLockMode
<1>4. \A u \in RwThread \ {t} : (Writes(u)' <=> Writes(u)) /\ (Reads(u)' <=> Reads(u))
  BY <1>1, <1>2, <1>3 DEF Writes, Reads
<1>5. ~Writes(t) /\ ~Reads(t) /\ ~Writes(t)' /\ Reads(t)'
  BY <1>1 DEF Writes, Reads
<1>6. Writers' = {} /\ Readers' = Readers \cup {t} /\ t \notin Readers
  BY <1>2, <1>4, <1>5 DEF Writers, Readers
<1>7. word' = Cardinality(Readers')
  BY <1>1, <1>2, <1>6, ReadersFinite, FS_AddElement
<1>8. RwTypeOK' /\ ReadersRead'
  <2>1. word' \in Int /\ rwpc' \in [RwThread -> RwControl]
    BY <1>1, <1>3 DEF RwControl
  <2>2. \A u \in RwThread : rwpc'[u] = "rset" => rwpc[u] = "rset"
    BY <1>1, <1>3
  <2>. QED
    BY <1>1, <2>1, <2>2, ChangesKeepTypes
<1>. QED
  BY <1>6, <1>7, <1>8 DEF RwInv, WordIsState

\* The writer gives the lock back or becomes a reader: no other thread had it.
LEMMA GiveUpWriting ==
    ASSUME RwInv, NEW t \in RwThread, WRelease(t) \/ DSet(t)
    PROVE  RwInv'
<1>1. rwpc[t] \in {"wrelease", "dset"} /\ rwpc \in [RwThread -> RwControl] /\ readers' = readers
  BY DEF WRelease, DSet, Go, RwInv, RwTypeOK
<1>2. word = WLockMode /\ Readers = {} /\ Writers = {t}
  BY <1>1, WordOfHolder DEF Writes
<1>3. \A u \in RwThread \ {t} :
        rwpc[u] \notin {"writing", "wrelease", "dtest", "dset", "reading", "rrelease", "unlock"}
  BY <1>2 DEF Writers, Readers, Writes, Reads
<1>4. CASE WRelease(t)
  <2>1. rwpc' = [rwpc EXCEPT ![t] = "out"] /\ word' = 0
    BY <1>4, <1>2 DEF WRelease, Go
  <2>2. \A u \in RwThread : ~Writes(u)' /\ ~Reads(u)'
    BY <1>1, <1>3, <2>1 DEF Writes, Reads
  <2>3. Writers' = {} /\ Readers' = {}
    BY <2>2 DEF Writers, Readers
  <2>4. RwTypeOK' /\ ReadersRead'
    <3>1. word' \in Int /\ rwpc' \in [RwThread -> RwControl]
      BY <1>1, <2>1 DEF RwControl
    <3>2. \A u \in RwThread : rwpc'[u] = "rset" => rwpc[u] = "rset"
      BY <1>1, <2>1
    <3>. QED
      BY <1>1, <3>1, <3>2, ChangesKeepTypes
  <2>. QED
    BY <2>1, <2>3, <2>4, FS_EmptySet DEF RwInv, WordIsState
<1>5. CASE DSet(t)
  <2>1. rwpc' = [rwpc EXCEPT ![t] = "reading"] /\ word' = 1
    BY <1>5 DEF DSet, Go
  <2>2. \A u \in RwThread : ~Writes(u)' /\ (Reads(u)' <=> u = t)
    BY <1>1, <1>3, <2>1 DEF Writes, Reads
  <2>3. Writers' = {} /\ Readers' = {t}
    BY <2>2 DEF Writers, Readers
  <2>4. RwTypeOK' /\ ReadersRead'
    <3>1. word' \in Int /\ rwpc' \in [RwThread -> RwControl]
      BY <1>1, <2>1 DEF RwControl
    <3>2. \A u \in RwThread : rwpc'[u] = "rset" => rwpc[u] = "rset"
      BY <1>1, <2>1
    <3>. QED
      BY <1>1, <3>1, <3>2, ChangesKeepTypes
  <2>. QED
    BY <2>1, <2>3, <2>4, FS_Singleton DEF RwInv, WordIsState
<1>. QED
  BY <1>4, <1>5

\* A reader gives the lock back: it was counted.
LEMMA GiveUpReading ==
    ASSUME RwInv, NEW t \in RwThread, RRelease(t)
    PROVE  RwInv'
<1>1. rwpc' = [rwpc EXCEPT ![t] = "out"] /\ word' = word - 1 /\ readers' = readers
      /\ rwpc \in [RwThread -> RwControl] /\ rwpc[t] = "rrelease"
  BY DEF RRelease, Go, RwInv, RwTypeOK
<1>2. word = Cardinality(Readers) /\ Writers = {} /\ word # WLockMode /\ t \in Readers
  BY <1>1, WordOfHolder DEF Reads, Readers
<1>3. Cardinality(Readers \ {t}) = word - 1 /\ word - 1 \in Nat
  BY <1>2, ReadersFinite, FS_RemoveElement, FS_CardinalityType
<1>4. \A u \in RwThread \ {t} : (Writes(u)' <=> Writes(u)) /\ (Reads(u)' <=> Reads(u))
  BY <1>1, <1>2, <1>3 DEF Writes, Reads, WLockMode
<1>5. ~Writes(t)' /\ ~Reads(t)'
  BY <1>1 DEF Writes, Reads
<1>6. Writers' = {} /\ Readers' = Readers \ {t}
  BY <1>2, <1>4, <1>5 DEF Writers, Readers
<1>7. RwTypeOK' /\ ReadersRead'
  <2>1. word' \in Int /\ rwpc' \in [RwThread -> RwControl]
    BY <1>1, <1>3 DEF RwControl
  <2>2. \A u \in RwThread : rwpc'[u] = "rset" => rwpc[u] = "rset"
    BY <1>1, <1>3
  <2>. QED
    BY <1>1, <2>1, <2>2, ChangesKeepTypes
<1>. QED
  BY <1>1, <1>3, <1>6, <1>7 DEF RwInv, WordIsState

\* A free lock, of which nobody knows yet.
LEMMA RwInitInv == RwInit => RwInv
<1>. SUFFICES ASSUME RwInit PROVE RwInv
  OBVIOUS
<1>1. RwTypeOK /\ ReadersRead
  BY DEF RwInit, RwTypeOK, ReadersRead, RwControl
<1>2. Writers = {} /\ Readers = {}
  BY DEF RwInit, Writers, Readers, Writes, Reads
<1>. QED
  BY <1>1, <1>2, FS_EmptySet DEF RwInv, WordIsState, RwInit

\* Every step keeps the invariant.
LEMMA RwStepInv == RwInv /\ [RwNext]_rwVars => RwInv'
<1>. SUFFICES ASSUME RwInv, [RwNext]_rwVars PROVE RwInv'
  OBVIOUS
<1>1. CASE UNCHANGED rwVars
  BY <1>1 DEF rwVars, RwInv, RwTypeOK, WordIsState, ReadersRead, Writers, Readers, Writes, Reads
<1>2. ASSUME NEW t \in RwThread, Call(t) \/ RwStep(t) PROVE RwInv'
  <2>1. CASE WSet(t)
    <3>1. CASE word = 0
      BY <2>1, <3>1, TakeToWrite
    <3>2. CASE word # 0
      BY <2>1, <3>2, MovesKeepInv
    <3>. QED
      BY <3>1, <3>2
  <2>2. CASE RSet(t)
    <3>1. CASE word = readers[t]
      BY <2>2, <3>1, TakeToRead
    <3>2. CASE word # readers[t]
      BY <2>2, <3>2, MovesKeepInv
    <3>. QED
      BY <3>1, <3>2
  <2>3. CASE Call(t) \/ CallUnlock(t) \/ WTest(t) \/ RTest(t) \/ Unlock(t) \/ DTest(t)
    BY <2>3, MovesKeepInv
  <2>. QED
    BY <1>2, <2>1, <2>2, <2>3, GiveUpWriting, GiveUpReading DEF RwStep
<1>. QED
  BY <1>1, <1>2 DEF RwNext

\* The word of the lock is the state of the lock, for any number of threads that lock, unlock
\* and downgrade: what stl_rwlock_unlock relies on when it tells from the word how its caller
\* holds the lock.
THEOREM WordTellsState == RwSpec => []WordIsState
<1>1. RwInv => WordIsState
  BY DEF RwInv
<1>. QED
  BY <1>1, RwInitInv, RwStepInv, PTL DEF RwSpec

\* Mutual exclusion of the read-write lock: while a thread is in its section to write, no other
\* one is in a section, although the word is read by one instruction and set by a later one.
THEOREM WriterIsAlone == RwSpec => []RwExclusion
<1>1. RwInv => RwExclusion
  <2>. SUFFICES ASSUME RwInv, NEW t \in RwThread, NEW u \in RwThread,
                       rwpc[t] = "writing", rwpc[u] \in {"writing", "reading"}
                PROVE  t = u
    BY DEF RwExclusion
  <2>1. Readers = {} /\ Writers = {t}
    BY WordOfHolder DEF Writes
  <2>2. u \in Writers \/ u \in Readers
    BY DEF Writers, Readers, Writes, Reads
  <2>. QED
    BY <2>1, <2>2
<1>. QED
  BY <1>1, RwInitInv, RwStepInv, PTL DEF RwSpec

-----------------------------------------------------------------------------
(* The epoll loop. *)

Event == [fd : Fd \cup {NoFd}, client : Client \cup {Nobody}, in : BOOLEAN, err : BOOLEAN]

WorkerState ==
    [at : {"wait", "events", "io", "close", "del", "reclose", "out"}, events : SUBSET Event,
     event : Event, stop : BOOLEAN]

EpollType ==
    /\ sock \in [Fd -> Client \cup {Nobody}]
    /\ watched \in [EpollWorker -> SUBSET Fd]
    /\ raised \in [EpollWorker -> SUBSET Fd]
    /\ backlog \in Seq(Client)
    /\ knocked \in BOOLEAN
    /\ worker \in [EpollWorker -> WorkerState]

\* What stl_epoll_run has at hand: there is a connection for every event of the listener, and
\* a descriptor between accept and stl_epoll_add_event, which nobody watches yet.  It may
\* have been closed meanwhile.
ListenerInv ==
    /\ listening \in {"wait", "accept", "dispatch"}
    /\ Len(backlog) >= (IF knocked THEN 1 ELSE 0) + (IF listening = "accept" THEN 1 ELSE 0)
    /\ IF listening = "dispatch" THEN listener \in Fd ELSE listener = NoFd
    /\ \A w \in EpollWorker : listener \notin watched[w]

\* A set watches connections of its own worker only.
SetInv ==
    \A w \in EpollWorker :
        /\ raised[w] \subseteq watched[w]
        /\ \A fd \in watched[w] : WorkerOf(fd) = w /\ sock[fd] # Nobody

\* The descriptor of event e, which worker w has at hand, is one of w's and still that of the
\* connection the event was for, or another worker has closed it.
Current(w, e) ==
    /\ e.fd \in Fd /\ WorkerOf(e.fd) = w
    /\ e.fd \notin strayed => e.client # Nobody /\ sock[e.fd] = e.client /\ e.fd # listener

\* The events a worker has fetched are current, for nobody else closes their connections but by
\* the second close of stl_epoll.c:93, and it closes each one's at most once.
EventInv ==
    \A w \in EpollWorker :
        /\ \A e \in worker[w].events : Current(w, e)
        /\ \A e, f \in worker[w].events : e.fd = f.fd => e = f
        /\ worker[w].at \in {"io", "close"} =>
              /\ Current(w, worker[w].event)
              /\ \A e \in worker[w].events : e.fd # worker[w].event.fd

EpollInv == EpollType /\ ListenerInv /\ SetInv /\ EventInv /\ OpenIsWatched

LEMMA FdFacts == /\ NoFd \notin Fd /\ Nobody \notin Client
                 /\ \A fd \in Fd : WorkerOf(fd) \in EpollWorker
  <1>1. \A fd \in Nat : fd % NumWorkers \in 0 .. NumWorkers - 1
    BY EpollAssumption
  <1>2. Fd \subseteq Nat /\ NoFd \notin Nat /\ Nobody \notin Client
    BY EpollAssumption DEF NoFd
  <1>. QED  BY <1>1, <1>2 DEF WorkerOf, EpollWorker

LEMMA EpollInvInit == EpollInit => EpollInv
  <1>. SUFFICES ASSUME EpollInit PROVE EpollInv
    OBVIOUS
  <1>. USE DEF EpollInit
  <1>1. EpollType
    <2>1. NoEvent \in Event
      BY DEF NoEvent, Event
    <2>. QED  BY <2>1, EmptySeq DEF EpollType, WorkerState
  <1>2. ListenerInv
    <2>1. Len(backlog) = 0
      BY EmptySeq
    <2>. QED  BY <2>1 DEF ListenerInv
  <1>3. SetInv /\ EventInv
    BY DEF SetInv, EventInv
  <1>4. OpenIsWatched
    BY DEF OpenIsWatched
  <1>. QED  BY <1>1, <1>2, <1>3, <1>4 DEF EpollInv

\* A step of the clients: no descriptor changes hands, and sets raise members only.
LEMMA EpollInvClient ==
    ASSUME EpollInv, NEW c \in Client, Connect(c) \/ Write(c) \/ Reset(c)
    PROVE  EpollInv'
  <1>0. EpollType /\ ListenerInv /\ SetInv /\ EventInv /\ OpenIsWatched
    BY DEF EpollInv
  <1>1. UNCHANGED <<sock, watched, listener, listening, worker, strayed>>
    BY DEF Connect, Write, Reset
  <1>2. \A w \in EpollWorker : raised'[w] \subseteq watched[w]
    BY <1>0 DEF Connect, Write, Reset, Raised, SetInv
  <1>3. \/ UNCHANGED <<backlog, knocked>>
        \/ backlog' = Append(backlog, c) /\ knocked' = TRUE
    BY DEF Connect, Write, Reset
  <1>4. EpollType'
    <2>3. backlog \in Seq(Client) /\ Append(backlog, c) \in Seq(Client)
      BY <1>0, AppendProperties DEF EpollType
    <2>1. backlog' \in Seq(Client) /\ knocked' \in BOOLEAN
      BY <1>0, <1>3, <2>3 DEF EpollType
    <2>2. raised' \in [EpollWorker -> SUBSET Fd]
      BY <1>0 DEF Connect, Write, Reset, Raised, EpollType
    <2>. QED  BY <1>0, <1>1, <2>1, <2>2 DEF EpollType
  <1>5. ListenerInv'
    <2>1. Len(backlog) \in Nat /\ (backlog' = Append(backlog, c) => Len(backlog') = Len(backlog) + 1)
      BY <1>0, AppendProperties, LenProperties DEF EpollType
    <2>. DEFINE n == Len(backlog)
                m == Len(backlog')
                k == IF listening = "accept" THEN 1 ELSE 0
    <2>2. n \in Nat /\ k \in {0, 1} /\ n >= (IF knocked THEN 1 ELSE 0) + k
      BY <1>0, <2>1 DEF ListenerInv
    <2>3. (m = n /\ knocked' = knocked) \/ (m = n + 1 /\ knocked' = TRUE)
      BY <1>3, <2>1
    <2>4. knocked \in BOOLEAN
      BY <1>0 DEF EpollType
    <2>. HIDE DEF n, m, k
    <2>5. m >= (IF knocked' THEN 1 ELSE 0) + k
      BY <2>2, <2>3, <2>4
    <2>. QED  BY <1>0, <1>1, <2>5 DEF ListenerInv, m, k
  <1>6. SetInv' /\ EventInv'
    BY <1>0, <1>1, <1>2 DEF SetInv, EventInv, Current
  <1>7. OpenIsWatched'
    <2>1. \A fd \in Fd : sock[fd] \in forgotten => sock[fd] \in forgotten'
      BY DEF Connect, Write, Reset, Known
    <2>. QED  BY <1>0, <1>1, <2>1 DEF OpenIsWatched, SetOpen
  <1>. QED  BY <1>4, <1>5, <1>6, <1>7 DEF EpollInv

LEMMA EpollInvListenerWait ==
    ASSUME EpollInv, ListenerWait
    PROVE  EpollInv'
  <1>0. EpollType /\ ListenerInv /\ SetInv /\ EventInv /\ OpenIsWatched
    BY DEF EpollInv
  <1>1. /\ UNCHANGED <<sock, watched, raised, backlog, listener, worker, forgotten, strayed>>
        /\ listening = "wait" /\ knocked = TRUE /\ knocked' = FALSE /\ listening' = "accept"
    BY <1>0 DEF ListenerWait, EpollType
  <1>2. EpollType' /\ SetInv' /\ EventInv'
    BY <1>0, <1>1 DEF EpollType, SetInv, EventInv, Current
  <1>3. ListenerInv'
    BY <1>0, <1>1 DEF ListenerInv
  <1>4. OpenIsWatched'
    BY <1>0, <1>1 DEF OpenIsWatched, SetOpen
  <1>. QED  BY <1>2, <1>3, <1>4 DEF EpollInv

\* accept returns a descriptor that is in no set and of no event that counts, for those are
\* connected.
LEMMA EpollInvAccept ==
    ASSUME EpollInv, Accept
    PROVE  EpollInv'
  <1>0. EpollType /\ ListenerInv /\ SetInv /\ EventInv /\ OpenIsWatched
    BY DEF EpollInv
  <1>1. PICK fd \in Fd : /\ sock[fd] = Nobody /\ sock' = [sock EXCEPT ![fd] = Head(backlog)]
                         /\ listener' = fd
    BY DEF Accept, Free
  <1>2. /\ UNCHANGED <<watched, raised, knocked, worker, forgotten, strayed>> /\ backlog' = Tail(backlog)
        /\ listening = "accept" /\ listening' = "dispatch" /\ listener = NoFd
    BY <1>0 DEF Accept, ListenerInv
  <1>3. Len(backlog) \in Nat /\ Len(backlog) >= (IF knocked THEN 1 ELSE 0) + 1 /\ backlog \in Seq(Client)
    BY <1>0, <1>2, LenProperties DEF ListenerInv, EpollType
  <1>4. backlog # << >>
    BY <1>3, EmptySeq
  <1>5. /\ Head(backlog) \in Client /\ Tail(backlog) \in Seq(Client)
        /\ Len(Tail(backlog)) = Len(backlog) - 1
    BY <1>3, <1>4, HeadTailProperties
  <1>6. EpollType'
    BY <1>0, <1>1, <1>2, <1>5 DEF EpollType
  <1>7. \A g \in Fd : g # fd => sock'[g] = sock[g]
    BY <1>0, <1>1 DEF EpollType
  <1>9. \A w \in EpollWorker : fd \notin watched[w]
    BY <1>0, <1>1 DEF SetInv
  <1>10. ListenerInv'
    <2>. DEFINE n == Len(backlog)
                m == Len(backlog')
    <2>1. n \in Nat /\ n >= (IF knocked THEN 1 ELSE 0) + 1 /\ m = n - 1 /\ knocked \in BOOLEAN
      BY <1>0, <1>2, <1>3, <1>5 DEF EpollType
    <2>. HIDE DEF n, m
    <2>2. m >= (IF knocked THEN 1 ELSE 0) + 0
      BY <2>1
    <2>. QED  BY <1>1, <1>2, <1>9, <2>2 DEF ListenerInv, m
  <1>11. SetInv'
    <2>1. \A w \in EpollWorker : \A g \in watched[w] : g \in Fd /\ g # fd
      BY <1>0, <1>9 DEF EpollType
    <2>. QED  BY <1>0, <1>2, <1>7, <2>1 DEF SetInv
  <1>12. \A w, e : Current(w, e) => Current(w, e)'
    <2>. SUFFICES ASSUME NEW w, NEW e, Current(w, e) PROVE Current(w, e)'
      OBVIOUS
    <2>1. e.fd \notin strayed => e.fd # fd
      BY <1>1 DEF Current
    <2>. QED  BY <1>1, <1>2, <1>7, <2>1 DEF Current
  <1>13. EventInv'
    BY <1>0, <1>2, <1>12 DEF EventInv
  <1>14. OpenIsWatched'
    <2>1. \A g \in Fd : g # NoFd
      BY FdFacts
    <2>. QED  BY <1>0, <1>1, <1>2, <1>7, <2>1 DEF OpenIsWatched, SetOpen
  <1>. QED  BY <1>6, <1>10, <1>11, <1>13, <1>14 DEF EpollInv

LEMMA EpollInvDispatch ==
    ASSUME EpollInv, Dispatch
    PROVE  EpollInv'
  <1>0. EpollType /\ ListenerInv /\ SetInv /\ EventInv /\ OpenIsWatched
    BY DEF EpollInv
  <1>. DEFINE v == WorkerOf(listener)
              added == IF SetOpen(v) /\ sock[listener] # Nobody THEN {listener} ELSE {}
  <1>1. /\ listening = "dispatch" /\ listening' = "wait" /\ listener' = NoFd
        /\ watched' = [watched EXCEPT ![v] = @ \cup added]
        /\ raised' = [raised EXCEPT ![v] = @ \cup added]
        /\ UNCHANGED <<sock, backlog, knocked, worker, forgotten, strayed>>
    BY DEF Dispatch
  <1>2. /\ listener \in Fd /\ v \in EpollWorker /\ added \subseteq {listener}
        /\ added # {} => sock[listener] # Nobody
    BY <1>0, <1>1, FdFacts DEF ListenerInv
  <1>3. /\ watched'[v] = watched[v] \cup added /\ raised'[v] = raised[v] \cup added
        /\ \A w \in EpollWorker \ {v} : watched'[w] = watched[w] /\ raised'[w] = raised[w]
    BY <1>0, <1>1, <1>2 DEF EpollType
  <1>4. EpollType'
    <2>. HIDE DEF v, added
    <2>. QED  BY <1>0, <1>1, <1>2 DEF EpollType
  <1>5. ListenerInv'
    <2>1. \A w \in EpollWorker : NoFd \notin watched'[w]
      BY <1>4, FdFacts DEF EpollType
    <2>. QED  BY <1>0, <1>1, <2>1 DEF ListenerInv
  <1>6. SetInv'
    <2>1. \A w \in EpollWorker : raised'[w] \subseteq watched'[w]
      <3>. HIDE DEF v, added
      <3>. QED  BY <1>0, <1>2, <1>3 DEF SetInv
    <2>2. \A w \in EpollWorker : \A fd \in watched'[w] : WorkerOf(fd) = w /\ sock[fd] # Nobody
      <3>. HIDE DEF added
      <3>. QED  BY <1>0, <1>2, <1>3 DEF SetInv
    <2>. QED  BY <1>1, <2>1, <2>2 DEF SetInv
  <1>7. \A w, e : Current(w, e) => Current(w, e)'
    BY <1>1, FdFacts DEF Current
  <1>8. EventInv'
    BY <1>0, <1>1, <1>7 DEF EventInv
  <1>9. OpenIsWatched'
    <2>. SUFFICES ASSUME NEW fd \in Fd, sock[fd] # Nobody, sock[fd] \notin forgotten,
                         SetOpen(WorkerOf(fd))
                  PROVE  fd \in watched'[WorkerOf(fd)]
      BY <1>1 DEF OpenIsWatched, WorkerOf, SetOpen
    <2>1. CASE fd = listener
      BY <1>3, <2>1
    <2>2. CASE fd # listener
      <3>1. fd \in watched[WorkerOf(fd)] /\ WorkerOf(fd) \in EpollWorker
        BY <1>0, <2>2, FdFacts DEF OpenIsWatched, WorkerOf
      <3>. HIDE DEF v, added
      <3>. QED  BY <1>2, <1>3, <3>1
    <2>. QED  BY <2>1, <2>2
  <1>. QED  BY <1>4, <1>5, <1>6, <1>8, <1>9 DEF EpollInv

LEMMA EpollInvEpollWait ==
    ASSUME EpollInv, NEW w \in EpollWorker, EpollWait(w)
    PROVE  EpollInv'
  <1>0. EpollType /\ ListenerInv /\ SetInv /\ EventInv /\ OpenIsWatched
    BY DEF EpollInv
  <1>. DEFINE ev(fd) == [fd |-> fd, client |-> sock[fd], in |-> sock[fd] \in unread,
                         err |-> sock[fd] \in broken]
              evs == {ev(fd) : fd \in raised[w]}
  <1>1. /\ worker' = [worker EXCEPT ![w].at = "events", ![w].events = evs]
        /\ raised' = [raised EXCEPT ![w] = {}]
        /\ strayed' = {fd \in strayed : WorkerOf(fd) # w} /\ worker[w].at = "wait"
        /\ UNCHANGED <<sock, watched, backlog, knocked, listener, listening, forgotten>>
    BY DEF EpollWait
  <1>2. \A fd \in raised[w] : ev(fd) \in Event /\ ev(fd).fd = fd /\ ev(fd).client = sock[fd]
    BY <1>0 DEF EpollType, Event
  <1>3. \A fd \in raised[w] : fd \in Fd /\ WorkerOf(fd) = w /\ sock[fd] # Nobody /\ fd # listener
    BY <1>0 DEF EpollType, SetInv, ListenerInv
  <1>4. \A e \in evs : e \in Event /\ Current(w, e)' /\ e = ev(e.fd)
    BY <1>1, <1>2, <1>3 DEF Current
  <1>5. \A e, f \in evs : e.fd = f.fd => e = f
    BY <1>4
  <1>. HIDE DEF evs, ev
  <1>6. evs \subseteq Event
    BY <1>4
  <1>7. /\ worker'[w] \in WorkerState /\ worker'[w].at = "events" /\ worker'[w].events = evs
        /\ worker' \in [EpollWorker -> WorkerState]
        /\ \A u \in EpollWorker \ {w} : worker'[u] = worker[u]
    BY <1>0, <1>1, <1>6 DEF EpollType, WorkerState
  <1>8. raised' \in [EpollWorker -> SUBSET Fd] /\ \A u \in EpollWorker : raised'[u] \subseteq raised[u]
    BY <1>0, <1>1 DEF EpollType
  <1>9. EpollType' /\ ListenerInv'
    BY <1>0, <1>1, <1>7, <1>8 DEF EpollType, ListenerInv
  <1>10. SetInv'
    BY <1>0, <1>1, <1>8 DEF SetInv
  <1>11. \A u \in EpollWorker \ {w} : \A e : Current(u, e) => Current(u, e)'
    BY <1>1 DEF Current
  <1>12. EventInv'
    BY <1>0, <1>4, <1>5, <1>7, <1>11 DEF EventInv
  <1>13. OpenIsWatched'
    <2>1. \A u \in EpollWorker : SetOpen(u)' => SetOpen(u)
      BY <1>1, <1>7 DEF SetOpen
    <2>. QED  BY <1>0, <1>1, <2>1, FdFacts DEF OpenIsWatched, WorkerOf
  <1>. QED  BY <1>9, <1>10, <1>12, <1>13 DEF EpollInv

\* A step of worker w that only goes on with its events.
LEMMA EpollInvEvents ==
    ASSUME EpollInv, NEW w \in EpollWorker,
           UNCHANGED <<sock, watched, raised, backlog, knocked, listener, listening, forgotten, strayed>>,
           worker' \in [EpollWorker -> WorkerState],
           \A u \in EpollWorker \ {w} : worker'[u] = worker[u],
           SetOpen(w), worker'[w].events \subseteq worker[w].events,
           worker'[w].at \in {"io", "close"} =>
              /\ Current(w, worker'[w].event)
              /\ \A e \in worker'[w].events : e.fd # worker'[w].event.fd
    PROVE  EpollInv'
  <1>0. EpollType /\ ListenerInv /\ SetInv /\ EventInv /\ OpenIsWatched
    BY DEF EpollInv
  <1>1. EpollType' /\ ListenerInv' /\ SetInv'
    BY <1>0 DEF EpollType, ListenerInv, SetInv
  <1>2. \A u, e : Current(u, e)' = Current(u, e)
    BY DEF Current
  <1>3. EventInv'
    BY <1>0, <1>2 DEF EventInv
  <1>4. OpenIsWatched'
    <2>1. \A u \in EpollWorker : SetOpen(u)' => SetOpen(u)
      BY DEF SetOpen
    <2>. QED  BY <1>0, <2>1, FdFacts DEF OpenIsWatched, WorkerOf
  <1>. QED  BY <1>1, <1>3, <1>4 DEF EpollInv

\* Worker w closes a connection that is none of its other events'; if it is another worker's,
\* its descriptor is noted.
LEMMA EpollInvClosed ==
    ASSUME EpollInv, NEW w \in EpollWorker, NEW fd, Closed(fd), fd \in Fd,
           UNCHANGED <<backlog, knocked, listener, listening, forgotten>>,
           \/ WorkerOf(fd) = w /\ strayed' = strayed
           \/ strayed' = strayed \cup {fd},
           worker' \in [EpollWorker -> WorkerState],
           \A u \in EpollWorker \ {w} : worker'[u] = worker[u],
           SetOpen(w)' => SetOpen(w), worker'[w].events \subseteq worker[w].events,
           worker'[w].at \notin {"io", "close"},
           \A e \in worker'[w].events : e.fd = fd => fd \in strayed'
    PROVE  EpollInv'
  <1>0. EpollType /\ ListenerInv /\ SetInv /\ EventInv /\ OpenIsWatched
    BY DEF EpollInv
  <1>1. /\ sock' = [sock EXCEPT ![fd] = Nobody]
        /\ watched' = [u \in EpollWorker |-> watched[u] \ {fd}]
        /\ raised' = [u \in EpollWorker |-> raised[u] \ {fd}]
    BY DEF Closed
  <1>2. sock'[fd] = Nobody /\ \A g \in Fd : g # fd => sock'[g] = sock[g]
    BY <1>0, <1>1 DEF EpollType
  <1>3. EpollType'
    BY <1>0, <1>1 DEF EpollType
  <1>4. ListenerInv'
    BY <1>0, <1>1, <1>2 DEF ListenerInv
  <1>5. SetInv'
    <2>1. \A u \in EpollWorker : \A g \in watched[u] : g \in Fd
      BY <1>0 DEF EpollType
    <2>. QED  BY <1>0, <1>1, <1>2, <2>1 DEF SetInv
  <1>6. \A u, e : Current(u, e) /\ (e.fd = fd => fd \in strayed') => Current(u, e)'
    BY <1>2 DEF Current
  <1>7. \A u \in EpollWorker \ {w} : \A e : Current(u, e) => (e.fd = fd => fd \in strayed')
    BY DEF Current
  <1>8. EventInv'
    <2>. SUFFICES ASSUME NEW u \in EpollWorker
                  PROVE  /\ \A e \in worker'[u].events : Current(u, e)'
                         /\ \A e, f \in worker'[u].events : e.fd = f.fd => e = f
                         /\ worker'[u].at \in {"io", "close"} =>
                               /\ Current(u, worker[u].event)'
                               /\ \A e \in worker'[u].events : e.fd # worker'[u].event.fd
      BY DEF EventInv, Current
    <2>1. CASE u = w
      BY <1>0, <1>6, <2>1 DEF EventInv
    <2>2. CASE u # w
      <3>1. worker'[u] = worker[u]
        BY <2>2
      <3>2. \A e \in worker[u].events : Current(u, e)'
        BY <1>0, <1>6, <1>7, <2>2 DEF EventInv
      <3>3. worker[u].at \in {"io", "close"} => Current(u, worker[u].event)
        BY <1>0 DEF EventInv
      <3>. DEFINE e == worker[u].event
      <3>4. worker[u].at \in {"io", "close"} =>
               Current(u, e) /\ (e.fd = fd => fd \in strayed')
        BY <1>7, <2>2, <3>3
      <3>5. worker'[u].at \in {"io", "close"} => Current(u, worker[u].event)'
        BY <1>2, <3>1, <3>4 DEF Current
      <3>. QED  BY <1>0, <3>1, <3>2, <3>5 DEF EventInv
    <2>. QED  BY <2>1, <2>2
  <1>9. OpenIsWatched'
    <2>1. \A u \in EpollWorker : SetOpen(u)' => SetOpen(u)
      BY DEF SetOpen
    <2>. QED  BY <1>0, <1>1, <1>2, <2>1, FdFacts DEF OpenIsWatched, WorkerOf
  <1>. QED  BY <1>3, <1>4, <1>5, <1>8, <1>9 DEF EpollInv

LEMMA EpollInvWorker ==
    ASSUME EpollInv, NEW w \in EpollWorker,
           WorkerError(w) \/ WorkerEvent(w) \/ WorkerClose(w) \/ IoStep(w)
    PROVE  EpollInv'
  <1>0. EpollType /\ ListenerInv /\ SetInv /\ EventInv
    BY DEF EpollInv
  <1>1. worker \in [EpollWorker -> WorkerState] /\ worker[w] \in WorkerState
    BY <1>0 DEF EpollType
  <1>2. CASE WorkerError(w)
    <2>1. PICK e \in worker[w].events :
             /\ worker[w].at = "events" /\ Closed(e.fd)
             /\ worker' = [worker EXCEPT ![w].events = @ \ {e}]
             /\ UNCHANGED <<backlog, knocked, listener, listening, forgotten, strayed>>
      BY <1>2 DEF WorkerError
    <2>2. e.fd \in Fd /\ WorkerOf(e.fd) = w
      BY <1>0 DEF EventInv, Current
    <2>3. /\ worker'[w].events = worker[w].events \ {e} /\ worker'[w].at = "events"
          /\ worker' \in [EpollWorker -> WorkerState]
          /\ \A u \in EpollWorker \ {w} : worker'[u] = worker[u]
      BY <1>1, <2>1 DEF WorkerState
    <2>4. \A f \in worker'[w].events : f.fd # e.fd
      BY <1>0, <2>3 DEF EventInv
    <2>5. SetOpen(w)
      BY <2>1 DEF SetOpen
    <2>. QED  BY <2>1, <2>2, <2>3, <2>4, <2>5, EpollInvClosed
  <1>3. CASE WorkerEvent(w)
    <2>1. PICK e \in worker[w].events :
             /\ worker' = IF e.in
                     THEN [worker EXCEPT ![w].events = @ \ {e}, ![w].event = e, ![w].at = "io"]
                     ELSE [worker EXCEPT ![w].events = @ \ {e}]
             /\ worker[w].at = "events"
             /\ UNCHANGED <<sock, watched, raised, backlog, knocked, listener, listening, forgotten, strayed>>
      BY <1>3 DEF WorkerEvent, kernelVars
    <2>2. e \in Event
      BY <1>1 DEF WorkerState
    <2>3. /\ worker'[w].events = worker[w].events \ {e}
          /\ \/ worker'[w].at = "io" /\ worker'[w].event = e
             \/ worker'[w].at = "events"
          /\ worker' \in [EpollWorker -> WorkerState]
          /\ \A u \in EpollWorker \ {w} : worker'[u] = worker[u]
      <3>1. CASE e.in
        BY <1>1, <2>1, <2>2, <3>1 DEF WorkerState
      <3>2. CASE ~e.in
        BY <1>1, <2>1, <2>2, <3>2 DEF WorkerState
      <3>. QED  BY <3>1, <3>2
    <2>4. \A f \in worker'[w].events : f.fd # e.fd
      BY <1>0, <2>3 DEF EventInv
    <2>5. Current(w, e)
      BY <1>0 DEF EventInv
    <2>6. worker'[w].at \in {"io", "close"} =>
             Current(w, worker'[w].event) /\ \A f \in worker'[w].events : f.fd # worker'[w].event.fd
      BY <2>3, <2>4, <2>5
    <2>7. /\ UNCHANGED <<sock, watched, raised, backlog, knocked, listener, listening, forgotten, strayed>>
          /\ SetOpen(w)
      BY <2>1 DEF SetOpen
    <2>. QED  BY <2>3, <2>6, <2>7, EpollInvEvents
  <1>4. CASE WorkerClose(w)
    <2>. DEFINE fd == worker[w].event.fd
    <2>1. /\ worker[w].at = "close" /\ Closed(fd)
          /\ worker' = [worker EXCEPT ![w].at = "del"]
          /\ UNCHANGED <<backlog, knocked, listener, listening, forgotten, strayed>> /\ SetOpen(w)
      BY <1>4 DEF WorkerClose, SetOpen
    <2>2. /\ fd \in Fd /\ WorkerOf(fd) = w
          /\ \A e \in worker[w].events : e.fd # fd
      BY <1>0, <2>1 DEF EventInv, Current
    <2>3. /\ worker'[w].events = worker[w].events /\ worker'[w].at = "del"
          /\ worker' \in [EpollWorker -> WorkerState]
          /\ \A u \in EpollWorker \ {w} : worker'[u] = worker[u]
      BY <1>1, <2>1 DEF WorkerState
    <2>. HIDE DEF fd
    <2>. QED  BY <2>1, <2>2, <2>3, EpollInvClosed
  <1>5. CASE IoStep(w)
    <2>1. PICK done \in IoResult :
             worker' = IF done # 0 THEN [worker EXCEPT ![w].at = "close"]
                       ELSE [worker EXCEPT ![w].at = "events", ![w].event = NoEvent]
      BY <1>5 DEF IoStep, WorkerIo
    <2>2. /\ worker[w].at = "io" /\ SetOpen(w)
          /\ UNCHANGED <<sock, watched, raised, backlog, knocked, listener, listening, forgotten, strayed>>
      BY <1>5 DEF IoStep, WorkerIo, SetOpen
    <2>3. NoEvent \in Event
      BY DEF NoEvent, Event
    <2>4. /\ worker'[w].events = worker[w].events
          /\ worker'[w].at = "events" \/ worker'[w].event = worker[w].event
          /\ worker' \in [EpollWorker -> WorkerState]
          /\ \A u \in EpollWorker \ {w} : worker'[u] = worker[u]
      <3>1. CASE done # 0
        BY <1>1, <2>1, <3>1 DEF WorkerState
      <3>2. CASE done = 0
        BY <1>1, <2>1, <2>3, <3>2 DEF WorkerState
      <3>. QED  BY <3>1, <3>2
    <2>5. /\ Current(w, worker[w].event)
          /\ \A e \in worker[w].events : e.fd # worker[w].event.fd
      BY <1>0, <2>2 DEF EventInv
    <2>6. worker'[w].at \in {"io", "close"} =>
             Current(w, worker'[w].event) /\ \A e \in worker'[w].events : e.fd # worker'[w].event.fd
      BY <2>4, <2>5
    <2>. QED  BY <2>2, <2>4, <2>6, EpollInvEvents
  <1>. QED  BY <1>2, <1>3, <1>4, <1>5

\* stl_epoll_thread_deinit closes the number of its epoll set a second time.
LEMMA EpollInvReclose ==
    ASSUME EpollInv, NEW w \in EpollWorker, WorkerReclose(w)
    PROVE  EpollInv'
  <1>0. EpollType /\ ListenerInv /\ SetInv /\ EventInv /\ OpenIsWatched
    BY DEF EpollInv
  <1>1. worker \in [EpollWorker -> WorkerState] /\ worker[w] \in WorkerState
    BY <1>0 DEF EpollType
  <1>2. /\ worker[w].at = "reclose" /\ worker' = [worker EXCEPT ![w].at = "out"]
        /\ UNCHANGED <<backlog, knocked, listener, listening, forgotten>>
    BY DEF WorkerReclose
  <1>3. /\ worker'[w].events = worker[w].events /\ worker'[w].at = "out"
        /\ worker' \in [EpollWorker -> WorkerState]
        /\ \A u \in EpollWorker \ {w} : worker'[u] = worker[u]
        /\ \A u \in EpollWorker : SetOpen(u)' => SetOpen(u)
    BY <1>1, <1>2 DEF WorkerState, SetOpen
  <1>4. CASE EfdOf[w] \in Fd /\ sock[EfdOf[w]] # Nobody
    <2>. DEFINE fd == EfdOf[w]
    <2>1. Closed(fd) /\ strayed' = strayed \cup {fd} /\ fd \in Fd
      BY <1>4 DEF WorkerReclose
    <2>. HIDE DEF fd
    <2>. QED  BY <1>2, <1>3, <2>1, EpollInvClosed
  <1>5. CASE ~(EfdOf[w] \in Fd /\ sock[EfdOf[w]] # Nobody)
    <2>1. UNCHANGED <<sock, watched, raised, strayed>>
      BY <1>5 DEF WorkerReclose
    <2>2. EpollType' /\ ListenerInv' /\ SetInv'
      BY <1>0, <1>2, <1>3, <2>1 DEF EpollType, ListenerInv, SetInv
    <2>3. \A u, e : Current(u, e)' = Current(u, e)
      BY <1>2, <2>1 DEF Current
    <2>4. EventInv'
      BY <1>0, <1>3, <2>3 DEF EventInv
    <2>5. OpenIsWatched'
      BY <1>0, <1>2, <1>3, <2>1, FdFacts DEF OpenIsWatched, WorkerOf
    <2>. QED  BY <2>2, <2>4, <2>5 DEF EpollInv
  <1>. QED  BY <1>4, <1>5

\* Steps that take descriptors out of the set of worker w.
LEMMA EpollInvDel ==
    ASSUME EpollInv, NEW w \in EpollWorker, WorkerDel(w) \/ WorkerDone(w)
    PROVE  EpollInv'
  <1>0. EpollType /\ ListenerInv /\ SetInv /\ EventInv /\ OpenIsWatched
    BY DEF EpollInv
  <1>1. worker \in [EpollWorker -> WorkerState] /\ worker[w] \in WorkerState
    BY <1>0 DEF EpollType
  <1>2. UNCHANGED <<sock, backlog, knocked, listener, listening, strayed>>
    BY DEF WorkerDel, WorkerDone
  <1>10. NoEvent \in Event
    BY DEF NoEvent, Event
  <1>3. /\ worker' \in [EpollWorker -> WorkerState]
        /\ worker'[w].at \in {"events", "wait", "reclose"} /\ worker'[w].events = worker[w].events
        /\ \A u \in EpollWorker \ {w} : worker'[u] = worker[u]
    <2>1. CASE WorkerDel(w)
      BY <1>1, <1>10, <2>1 DEF WorkerDel, WorkerState
    <2>2. CASE WorkerDone(w) /\ worker[w].stop
      BY <1>1, <2>2 DEF WorkerDone, WorkerState
    <2>3. CASE WorkerDone(w) /\ ~worker[w].stop
      BY <1>1, <2>3 DEF WorkerDone, WorkerState
    <2>. QED  BY <2>1, <2>2, <2>3
  <1>4. /\ watched' \in [EpollWorker -> SUBSET Fd] /\ raised' \in [EpollWorker -> SUBSET Fd]
        /\ \A u \in EpollWorker : watched'[u] \subseteq watched[u] /\ raised'[u] \subseteq watched'[u]
        /\ \A u \in EpollWorker \ {w} : watched'[u] = watched[u]
    <2>1. CASE WorkerDel(w)
      <3>. DEFINE fd == worker[w].event.fd
      <3>1. /\ watched' = [watched EXCEPT ![w] = @ \ {fd}]
            /\ raised' = [raised EXCEPT ![w] = @ \ {fd}]
        BY <2>1 DEF WorkerDel
      <3>. HIDE DEF fd
      <3>. QED  BY <1>0, <3>1 DEF EpollType, SetInv
    <2>2. CASE WorkerDone(w) /\ worker[w].stop
      <3>1. watched' = [watched EXCEPT ![w] = {}] /\ raised' = [raised EXCEPT ![w] = {}]
        BY <2>2 DEF WorkerDone
      <3>. QED  BY <1>0, <3>1 DEF EpollType, SetInv
    <2>3. CASE WorkerDone(w) /\ ~worker[w].stop
      <3>1. UNCHANGED <<watched, raised>>
        BY <2>3 DEF WorkerDone
      <3>. QED  BY <1>0, <3>1 DEF EpollType, SetInv
    <2>. QED  BY <2>1, <2>2, <2>3
  <1>5. SetOpen(w)' =>
           SetOpen(w) /\ \A fd \in watched[w] : fd \in watched'[w] \/ sock[fd] \in forgotten'
    <2>1. CASE WorkerDel(w)
      BY <1>0, <1>1, <2>1 DEF WorkerDel, WorkerState, EpollType, SetOpen
    <2>2. CASE WorkerDone(w)
      BY <1>1, <2>2 DEF WorkerDone, WorkerState, SetOpen
    <2>. QED  BY <2>1, <2>2
  <1>6. EpollType' /\ ListenerInv' /\ SetInv'
    BY <1>0, <1>2, <1>3, <1>4 DEF EpollType, ListenerInv, SetInv
  <1>7. \A u, e : Current(u, e)' = Current(u, e)
    BY <1>2 DEF Current
  <1>8. EventInv'
    BY <1>0, <1>3, <1>7 DEF EventInv
  <1>9. OpenIsWatched'
    <2>1. forgotten \subseteq forgotten'
      BY DEF WorkerDel, WorkerDone
    <2>. SUFFICES ASSUME NEW fd \in Fd, sock[fd] # Nobody, listener # fd, sock[fd] \notin forgotten',
                         SetOpen(WorkerOf(fd))'
                  PROVE  fd \in watched'[WorkerOf(fd)]
      BY <1>2 DEF OpenIsWatched, WorkerOf
    <2>2. WorkerOf(fd) \in EpollWorker
      BY FdFacts
    <2>3. SetOpen(WorkerOf(fd))
      <3>1. CASE WorkerOf(fd) = w
        BY <1>5, <3>1 DEF SetOpen
      <3>2. CASE WorkerOf(fd) # w
        BY <1>3, <2>2, <3>2 DEF SetOpen
      <3>. QED  BY <3>1, <3>2
    <2>4. fd \in watched[WorkerOf(fd)]
      BY <1>0, <2>1, <2>3 DEF OpenIsWatched, WorkerOf
    <2>5. CASE WorkerOf(fd) = w
      BY <1>5, <2>4, <2>5 DEF SetOpen
    <2>6. CASE WorkerOf(fd) # w
      BY <1>4, <2>2, <2>4, <2>6
    <2>. QED  BY <2>5, <2>6
  <1>. QED  BY <1>6, <1>8, <1>9 DEF EpollInv

LEMMA EpollInvDeincr ==
    ASSUME EpollInv, Deincr
    PROVE  EpollInv'
  <1>0. EpollType /\ ListenerInv /\ SetInv /\ EventInv /\ OpenIsWatched
    BY DEF EpollInv
  <1>1. PICK last : worker' = [worker EXCEPT ![last].stop = TRUE]
    BY DEF Deincr
  <1>2. UNCHANGED <<sock, watched, raised, backlog, knocked, listener, listening, forgotten, strayed>>
    BY DEF Deincr, kernelVars
  <1>3. /\ worker' \in [EpollWorker -> WorkerState]
        /\ \A u \in EpollWorker : /\ worker'[u].at = worker[u].at
                                  /\ worker'[u].events = worker[u].events
                                  /\ worker'[u].event = worker[u].event
    BY <1>0, <1>1 DEF EpollType, WorkerState
  <1>4. EpollType' /\ ListenerInv' /\ SetInv'
    BY <1>0, <1>2, <1>3 DEF EpollType, ListenerInv, SetInv
  <1>5. EventInv'
    BY <1>0, <1>2, <1>3 DEF EventInv, Current
  <1>6. OpenIsWatched'
    <2>1. \A u \in EpollWorker : SetOpen(u)' = SetOpen(u)
      BY <1>3 DEF SetOpen
    <2>. QED  BY <1>0, <1>2, <2>1, FdFacts DEF OpenIsWatched, WorkerOf
  <1>. QED  BY <1>4, <1>5, <1>6 DEF EpollInv

LEMMA EpollInvStep == EpollInv /\ [EpollNext]_epollVars => EpollInv'
  <1>. SUFFICES ASSUME EpollInv, [EpollNext]_epollVars PROVE EpollInv'
    OBVIOUS
  <1>1. CASE UNCHANGED epollVars
    BY <1>1 DEF epollVars, kernelVars, EpollInv, EpollType, ListenerInv, SetInv, EventInv, Current,
                OpenIsWatched, SetOpen
  <1>2. CASE EpollNext
    BY <1>2, EpollInvClient, EpollInvListenerWait, EpollInvAccept, EpollInvDispatch, EpollInvDeincr,
       EpollInvEpollWait, EpollInvWorker, EpollInvReclose, EpollInvDel
       DEF EpollNext, LoopNext, ListenerStep, EpollStep
  <1>. QED  BY <1>1, <1>2

\* The inductive invariant: the events a worker has fetched are for connections that are still
\* open under the same descriptors, or were closed by the second close of stl_epoll.c:93.
THEOREM EpollInvariant == EpollSpec => []EpollInv
  BY EpollInvInit, EpollInvStep, PTL DEF EpollSpec

\* io_func is called with the descriptor of the connection the event was for, for any number of
\* workers and any descriptors: a descriptor goes to the worker its number selects, so that only
\* the worker that holds its event may close it (stl_epoll.c:224 to 252).  The one way to be
\* called for another connection is that a worker that stops has closed the number of its
\* epoll set a second time (stl_epoll.c:93) since the event was fetched.
THEOREM IoForOwners == EpollSpec => []IoForOwner
  <1>1. EpollInv => IoForOwner
    BY DEF EpollInv, EventInv, Current, IoForOwner
  <1>. QED  BY <1>1, EpollInvariant, PTL

\* An open connection that was handed over is watched by its worker unless the worker has stopped
\* or the late stl_epoll_del_event of stl_epoll.c:251 has hit it, whatever the second close of
\* stl_epoll.c:93 closes and whoever gets a number next.
THEOREM OpenAreWatched == EpollSpec => []OpenIsWatched
  BY EpollInvariant, PTL DEF EpollInv
=============================================================================
