-------------------------------- MODULE Epoll -------------------------------
(***************************************************************************)
(* The event loop of module/stl/src/stl_epoll.c: one thread accepts        *)
(* connections and hands each to a worker by its descriptor; a worker      *)
(* waits on an epoll set of its own and calls io_func for what has data.   *)
(* The kernel (descriptors, epoll sets, the backlog) is modelled from how  *)
(* the code uses it: accept returns a free descriptor (which one depends   *)
(* on the other files of the process), which may be the number of an epoll *)
(* set that was closed; close takes it out of every set, and events are    *)
(* edge-triggered.  The domain sockets of the workers, which nothing reads *)
(* or writes, are left out.                                                *)
(* An io_func reads all there is, as the one of mgmt_service.c and the one *)
(* of the test do.  stl_epoll_incr_thread, which reallocates the array     *)
(* under the running workers and which only disabled test code calls, is   *)
(* left out.                                                               *)
(***************************************************************************)
EXTENDS Integers, Sequences, FiniteSets

CONSTANTS
    Client,      \* clients, with one connection at a time
    Fd,          \* descriptors for connections
    NumWorkers,  \* num_threads of stl_epoll_init
    EfdOf,       \* the descriptor of each worker's epoll set
    IoResult,    \* what io_func may return
    MaxStops     \* bound: calls of stl_epoll_deincr_thread

Nobody == 0
NoFd == -1
EpollWorker == 0 .. NumWorkers - 1

ASSUME EpollAssumption ==
    /\ NumWorkers \in Nat \ {0} /\ Fd \subseteq Nat /\ IsFiniteSet(Fd)
    /\ EfdOf \in [EpollWorker -> Nat]
    /\ Cardinality(Client) <= Cardinality(Fd \ {EfdOf[w] : w \in EpollWorker})
    /\ Nobody \notin Client /\ MaxStops \in Nat

VARIABLES
    sock,       \* kernel: the client at the other end of each descriptor
    watched, raised,    \* kernel: of each worker's epoll set, the members and the events not fetched
    backlog, knocked,   \* kernel: connections to accept, and the listener's event
    unread, broken,     \* kernel: clients with unread data, and with a connection reset
    listener,   \* the descriptor that stl_epoll_handle_accept has to hand over
    listening,  \* where stl_epoll_run is
    worker,     \* of each worker: where it is, its events, the one at hand, and its field stop
    stops,      \* calls of stl_epoll_deincr_thread so far
    forgotten,  \* history: clients whose descriptor was taken out of the set by mistake
    strayed     \* history: descriptors closed by a worker that was not theirs

kernelVars == <<sock, watched, raised, backlog, knocked, unread, broken>>
epollVars == <<kernelVars, listener, listening, worker, stops, forgotten, strayed>>

NoEvent == [fd |-> NoFd, client |-> Nobody, in |-> FALSE, err |-> FALSE]

EpollInit ==
    /\ sock = [fd \in Fd |-> Nobody]
    /\ watched = [w \in EpollWorker |-> {}] /\ raised = [w \in EpollWorker |-> {}]
    /\ backlog = << >> /\ knocked = FALSE
    /\ unread = {} /\ broken = {}
    /\ listener = NoFd /\ listening = "wait"
    /\ worker = [w \in EpollWorker |->
                    [at |-> "wait", events |-> {}, event |-> NoEvent, stop |-> FALSE]]
    /\ stops = 0 /\ forgotten = {} /\ strayed = {}

FdOf(c) == {fd \in Fd : sock[fd] = c}

\* stl_epoll_thread_deinit has not closed the epoll set yet.
SetOpen(w) == worker[w].at \notin {"reclose", "out"}
Free(fd) == sock[fd] = Nobody /\ \A w \in EpollWorker : EfdOf[w] = fd => ~SetOpen(w)

\* The kernel puts a descriptor on the list of every set that watches it.
Raised(fds) == [w \in EpollWorker |-> raised[w] \cup (fds \cap watched[w])]

(***************************************************************************)
(* Clients.                                                                *)
(***************************************************************************)
\* A client that has connected is in the backlog, or has a descriptor.
Known == {backlog[i] : i \in DOMAIN backlog} \cup {sock[fd] : fd \in Fd}

Connect(c) ==
    /\ c \notin Known
    /\ backlog' = Append(backlog, c) /\ knocked' = TRUE
    /\ forgotten' = forgotten \ {c}
    /\ UNCHANGED <<sock, watched, raised, unread, broken, listener, listening, worker, stops, strayed>>

Write(c) ==
    /\ c \in Known \ (unread \cup broken)
    /\ unread' = unread \cup {c}
    /\ raised' = Raised(FdOf(c))
    /\ UNCHANGED <<sock, watched, backlog, knocked, broken, listener, listening, worker, stops, forgotten, strayed>>

Reset(c) ==
    /\ c \in Known \ broken
    /\ broken' = broken \cup {c}
    /\ raised' = Raised(FdOf(c))
    /\ UNCHANGED <<sock, watched, backlog, knocked, unread, listener, listening, worker, stops, forgotten, strayed>>

(***************************************************************************)
(* stl_epoll_run and stl_epoll_handle_accept.                              *)
(***************************************************************************)
\* epoll_wait: one event, however many connections have come.
ListenerWait ==
    /\ listening = "wait" /\ knocked
    /\ knocked' = FALSE /\ listening' = "accept"
    /\ UNCHANGED <<sock, watched, raised, backlog, unread, broken, listener, worker, stops, forgotten, strayed>>

\* accept, once for the event.  It succeeds: there is at least one connection for every event,
\* and a descriptor for every client.
Accept ==
    /\ listening = "accept"
    /\ \E fd \in Fd :
         /\ Free(fd)
         /\ sock' = [sock EXCEPT ![fd] = Head(backlog)]
         /\ listener' = fd
    /\ backlog' = Tail(backlog)
    /\ listening' = "dispatch"
    /\ UNCHANGED <<watched, raised, knocked, unread, broken, worker, stops, forgotten, strayed>>

WorkerOf(fd) == fd % NumWorkers

\* Mutant: the modulus is one too large, and one index no worker's.
DispatchBeyond ==
    /\ listening = "dispatch" /\ listening' = "wait" /\ listener' = NoFd
    /\ LET i == listener % (NumWorkers + 1)
           added == IF i \in EpollWorker /\ SetOpen(i) /\ sock[listener] # Nobody THEN {listener} ELSE {}
       IN /\ watched' = [w \in EpollWorker |-> IF w = i THEN watched[w] \cup added ELSE watched[w]]
          /\ raised' = [w \in EpollWorker |-> IF w = i THEN raised[w] \cup added ELSE raised[w]]
    /\ UNCHANGED <<sock, backlog, knocked, unread, broken, worker, stops, forgotten, strayed>>

\* stl_epoll_add_event to the set of the worker that the descriptor selects; it fails if the
\* worker has closed its set, or if the new connection is closed already.  A new member is
\* writable at once, so that the worker wakes up.
Dispatch ==
    /\ listening = "dispatch" /\ listening' = "wait" /\ listener' = NoFd
    /\ LET w == WorkerOf(listener)
           added == IF SetOpen(w) /\ sock[listener] # Nobody THEN {listener} ELSE {}
       IN /\ watched' = [watched EXCEPT ![w] = @ \cup added]
          /\ raised' = [raised EXCEPT ![w] = @ \cup added]
    /\ UNCHANGED <<sock, backlog, knocked, unread, broken, worker, stops, forgotten, strayed>>

(***************************************************************************)
(* stl_epoll_thread_func, the workers.                                     *)
(***************************************************************************)
\* epoll_wait.
EpollWait(w) ==
    /\ worker[w].at = "wait" /\ raised[w] # {}
    /\ worker' = [worker EXCEPT ![w].at = "events",
                    ![w].events = {[fd |-> fd, client |-> sock[fd], in |-> sock[fd] \in unread,
                                    err |-> sock[fd] \in broken] : fd \in raised[w]}]
    /\ raised' = [raised EXCEPT ![w] = {}]
    /\ strayed' = {fd \in strayed : WorkerOf(fd) # w}
    /\ UNCHANGED <<sock, watched, backlog, knocked, unread, broken, listener, listening, stops, forgotten>>

\* close: the descriptor is free, no set has it, and what was not read is gone.
Closed(fd) ==
    /\ unread' = unread \ {sock[fd]} /\ broken' = broken \ {sock[fd]}
    /\ sock' = [sock EXCEPT ![fd] = Nobody]
    /\ watched' = [w \in EpollWorker |-> watched[w] \ {fd}]
    /\ raised' = [w \in EpollWorker |-> raised[w] \ {fd}]

\* Mutant: an event with an error goes on to io_func after the descriptor is closed.
WorkerErrorGoesOn(w) ==
    \E e \in worker[w].events :
        /\ worker[w].at = "events" /\ e.err
        /\ Closed(e.fd)
        /\ worker' = [worker EXCEPT ![w].events = @ \ {e}, ![w].event = e, ![w].at = "io"]
        /\ UNCHANGED <<backlog, knocked, listener, listening, stops, forgotten, strayed>>

\* An event with EPOLLERR or EPOLLHUP: out of the set, then closed.
WorkerError(w) ==
    \E e \in worker[w].events :
        /\ worker[w].at = "events" /\ e.err
        /\ Closed(e.fd)
        /\ worker' = [worker EXCEPT ![w].events = @ \ {e}]
        /\ UNCHANGED <<backlog, knocked, listener, listening, stops, forgotten, strayed>>

\* An event without error: io_func if there is data, nothing if it is only EPOLLOUT.
WorkerEvent(w) ==
    \E e \in worker[w].events :
        /\ worker[w].at = "events" /\ ~e.err
        /\ worker' = IF e.in
                     THEN [worker EXCEPT ![w].events = @ \ {e}, ![w].event = e, ![w].at = "io"]
                     ELSE [worker EXCEPT ![w].events = @ \ {e}]
        /\ UNCHANGED <<kernelVars, listener, listening, stops, forgotten, strayed>>

\* io_func returns; it has read what there was.
WorkerIo(w, done) ==
    /\ worker[w].at = "io"
    /\ unread' = unread \ {sock[worker[w].event.fd]}
    /\ worker' = IF done # 0 THEN [worker EXCEPT ![w].at = "close"]
                 ELSE [worker EXCEPT ![w].at = "events", ![w].event = NoEvent]
    /\ UNCHANGED <<sock, watched, raised, backlog, knocked, broken, listener, listening, stops, forgotten, strayed>>

\* The connection is closed first ...
WorkerClose(w) ==
    /\ worker[w].at = "close"
    /\ Closed(worker[w].event.fd)
    /\ worker' = [worker EXCEPT ![w].at = "del"]
    /\ UNCHANGED <<backlog, knocked, listener, listening, stops, forgotten, strayed>>

\* ... and its number then taken out of the set, where it may be another connection's by now.
WorkerDel(w) ==
    LET fd == worker[w].event.fd
    IN /\ worker[w].at = "del"
       /\ watched' = [watched EXCEPT ![w] = @ \ {fd}]
       /\ raised' = [raised EXCEPT ![w] = @ \ {fd}]
       /\ forgotten' = IF fd \in watched[w] THEN forgotten \cup {sock[fd]} ELSE forgotten
       /\ worker' = [worker EXCEPT ![w].at = "events", ![w].event = NoEvent]
       /\ UNCHANGED <<sock, backlog, knocked, unread, broken, listener, listening, stops, strayed>>

\* Mutant: the loop over the events ends early.
WorkerDoneEarly(w) ==
    /\ worker[w].at = "events"
    /\ worker' = [worker EXCEPT ![w].at = "wait", ![w].events = {}]
    /\ UNCHANGED <<kernelVars, listener, listening, stops, forgotten, strayed>>

\* All events are done: back to epoll_wait, or stl_epoll_thread_deinit, which closes the set ...
WorkerDone(w) ==
    /\ worker[w].at = "events" /\ worker[w].events = {}
    /\ IF worker[w].stop
       THEN /\ worker' = [worker EXCEPT ![w].at = "reclose"]
            /\ watched' = [watched EXCEPT ![w] = {}] /\ raised' = [raised EXCEPT ![w] = {}]
       ELSE worker' = [worker EXCEPT ![w].at = "wait"] /\ UNCHANGED <<watched, raised>>
    /\ UNCHANGED <<sock, backlog, knocked, unread, broken, listener, listening, stops, forgotten, strayed>>

\* ... and closes it once more, when its number may be a connection's.
WorkerReclose(w) ==
    /\ worker[w].at = "reclose"
    /\ worker' = [worker EXCEPT ![w].at = "out"]
    /\ IF EfdOf[w] \in Fd /\ sock[EfdOf[w]] # Nobody
       THEN Closed(EfdOf[w]) /\ strayed' = strayed \cup {EfdOf[w]}
       ELSE UNCHANGED <<sock, watched, raised, unread, broken, strayed>>
    /\ UNCHANGED <<backlog, knocked, listener, listening, stops, forgotten>>

\* stl_epoll_deincr_thread: the last worker that is not told to stop is; such a worker has its
\* descriptors.  Without one the loop has no end.
Deincr ==
    LET running == {w \in EpollWorker : ~worker[w].stop}
        last == CHOOSE w \in running : \A x \in running : x <= w
    IN /\ running # {} /\ stops < MaxStops
       /\ worker' = [worker EXCEPT ![last].stop = TRUE]
       /\ stops' = stops + 1
       /\ UNCHANGED <<kernelVars, listener, listening, forgotten, strayed>>

EpollStep(w) ==
    \/ EpollWait(w) \/ WorkerError(w) \/ WorkerEvent(w)
    \/ WorkerClose(w) \/ WorkerDel(w) \/ WorkerDone(w) \/ WorkerReclose(w)

ListenerStep == ListenerWait \/ Accept \/ Dispatch

\* All but the calls of io_func.
LoopNext ==
    \/ \E c \in Client : Connect(c) \/ Write(c) \/ Reset(c)
    \/ ListenerStep \/ Deincr
    \/ \E w \in EpollWorker : EpollStep(w)

IoStep(w) == \E done \in IoResult : WorkerIo(w, done)

EpollNext == LoopNext \/ \E w \in EpollWorker : IoStep(w)

EpollSpec == EpollInit /\ [][EpollNext]_epollVars

\* The threads run.
EpollFairness ==
    /\ WF_epollVars(ListenerStep)
    /\ \A w \in EpollWorker : WF_epollVars(EpollStep(w) \/ IoStep(w))

(***************************************************************************)
(*                              Properties                                 *)
(***************************************************************************)
\* io_func is called with the descriptor of the connection that the event was for, although
\* descriptors are closed and given out again while events fetched earlier are under way
\* (stl_epoll.c:224 to 252); except for a descriptor that another worker has closed since
\* the events were fetched, as the second number of its epoll set (stl_epoll.c:93).
IoForOwner ==
    \A w \in EpollWorker :
        worker[w].at = "io" /\ worker[w].event.fd \notin strayed
            => sock[worker[w].event.fd] = worker[w].event.client

\* Every open connection that was handed over is watched by its worker, except in two cases: the
\* worker has stopped, or the connection got the number of one that was just closed before
\* that number was taken out of the set (stl_epoll.c:251).  A connection that has the number
\* of a closed epoll set may be closed behind its worker's back (stl_epoll.c:93) and is not
\* open then; whoever gets the number next is watched.
OpenIsWatched ==
    \A fd \in Fd :
        sock[fd] # Nobody /\ listener # fd /\ sock[fd] \notin forgotten /\ SetOpen(WorkerOf(fd))
            => fd \in watched[WorkerOf(fd)]

\* Data on such a connection is read some time, or the connection is closed or reset, also when it came
\* before the connection was handed over or while io_func ran, as long as its worker is not told to stop.
DataIsRead ==
    \A c \in Client :
        (c \in unread /\ FdOf(c) # {} /\ c \notin forgotten)
            ~> (c \notin unread \/ c \in broken \cup forgotten \/ \E fd \in FdOf(c) : worker[WorkerOf(fd)].stop)
=============================================================================
