# A verification project for kirinfs

kirinfs is a distributed file system in an early state. What exists is a consensus
library (`module/raft`), a library of containers, threads and I/O (`module/stl`), a
management service (`mgmt`), a wrapper of the metadata store (`meta`), a FUSE example
(`client`) and a generator of topology files (`module/topo_template`). This directory
holds TLA+ models of the parts whose behaviour is hard to test, TLC configurations that
check them on small instances, and TLAPS proofs for all instances.

## Inventory

| part | state | operations | how it interacts | hard behaviour |
|---|---|---|---|---|
| Raft server (`raft_server.c`, `raft_server_properties.c`, `raft_node.c`) | term, vote, role, log, commit and apply indices; `next_idx`, `match_idx` and vote flag of each peer | `raft_periodic`, `raft_recv_entry`, four message handlers, adding and removing nodes | messages through the application's send callbacks, disk through `persist_*` and `log_*` callbacks | interleavings of servers, lost, late and repeated messages, crashes between and inside calls |
| Raft log (`raft_log.c`) | a growing array of entries with `front`, `back`, `count`, `base` | append, get, delete from an index, poll | called by the server; calls `log_offer`, `log_pop`, `log_poll` | growth after deletions, indices at the end |
| Thread pool (`stl_thread_pool.c`) | a queue and a binary semaphore per worker; counters of live and busy workers | init, add_task, wait, deinit; the workers' loop | shared memory, atomics, condition variables | lost wakeups, tasks left behind, shutting down |
| Read-write lock (`stl_rwlock.c`) | one word | rlock, wlock, downgrade, unlock | compare and set | writers and readers at once, starvation |
| Condition (`stl_cond.c`) | one datum, a flag | signal, wait | mutex and condition variable | a second signal before the wait |
| Ring buffer (`stl_ring_buffer.c`) | head and tail in bytes | queue, dequeue | atomics, producer and consumer | full and empty, reuse of a slot being read |
| Slab allocator (`stl_slab.c`) | pages with a type, a chunk map and links; a free list, a list for each chunk size, statistics | alloc, free | none | runs that are split and joined, pages that fill and empty, pointers that are not live |
| Dictionary, trees, array (`stl_dict.c`, `stl_rbtree.c`, `stl_radix_tree.c`, `stl_array.c`) | linked structures | put, get, delete | used by the management service | long sequences of legal calls |
| Configuration files (`stl_ini.c`) | sections of items, the parser's section and key | parse, search, put, del, dump | none | names that begin another name, texts that are not read back |
| Digests and base64 (`stl_sha1.c`, `stl_md5.c`, `stl_base64.c`) | a block half full and a length | update, final; encode, decode | none | parts that end at a boundary, padding |
| Epoll loop (`stl_epoll.c`) | an epoll set for each worker, flags to stop | run, the worker's loop, starting and stopping workers | the listener hands descriptors to workers; `io_func` callbacks | descriptors closed, also twice, and given out again, events before and during a hand-over |
| Management (`mgmt_service.c`, `service_node.c`, `mgmt_client.c`) | connections, nodes of the cluster | add and delete of nodes, keep-alive | sockets over the epoll loop | timeouts, connections closed by the peer |
| Metadata store (`kv_db.c`) | WiredTiger connection, sessions, cursors | open, put, get, del, close | external engine | errors half way |

What makes them correct:

* Raft: one leader a term; a vote survives crashes; logs agree up to equal terms; what is
  committed is kept by a majority, is in the log of every later leader and never changes;
  no assertion of the handlers fails; `match_idx` never promises more than a peer has.
* Raft log: the array behaves as the sequence that the server takes it for.
* Thread pool: each task runs exactly once, none is left behind, `wait` returns when and
  only when its tasks are done, `deinit` ends the threads.
* Locks and buffers: exclusion, somebody always gets on, no item lost or seen twice.
* Epoll loop: `io_func` gets the descriptor of the right connection, every connection is
  watched, and data is read in the end.
* Slab: no two live allocations share memory, none is lost, the lists are sound.
* Containers: equal to a map, a set or a sequence after every sequence of calls.
* Digests, base64, configuration files: the result is that of the whole message, what was
  written is read back.

The hazards, each at its line and with the properties that cover it, are listed in
`PROJECT.json`.

## Plan

Done, in this order:

1. `Raft`: elections, replication, commits and crashes, for fixed membership; the proofs
   of its types and of election safety in `Raft_proofs`, of log matching in
   `RaftLogMatching_proofs` and of the safety of commits in `RaftCommit_proofs`.
2. `ThreadPool`, with proofs in `ThreadPool_proofs`.
3. `RaftLog`: the array of `raft_log.c` as a refinement of the sequence `LogSequence`,
   with the proof in `Library_proofs`.
4. `Slab`, with proofs in `Slab_proofs`.
5. `RingBuffer`, a refinement of `BoundedQueue`, and `Cond`, with proofs in `Library_proofs`.
6. `RaftMembership`: configuration entries and the list of nodes, seen from one server, with
   proofs in `Library_proofs`.
7. `RWLock`, with the proof of exclusion in `Threads_proofs`.
8. `Epoll`: the listener, the workers, stopping workers, with proofs in `Threads_proofs`.
9. `RbTree` (a refinement of the set `NodeSet`), `Dict` (against a stack for each key), `Ini`,
   `Digest`, `Base64`; the proofs about `Digest` in `Digest_proofs`, those about `Dict`, `Ini`
   and `Base64` in `Library_proofs`.

The modules `MCRaft`, `MCRaftMembership`, `MCThreadPool`, `MCThreads` and `MCLibrary` give
them values for TLC. `MCThreads` puts together the parts with threads and `MCLibrary` the
other parts of the library; a variable `subject` says which part runs, so that one run
covers them one after the other and none of them influences another.

## Raft

### Correspondence

`Raft.tla` has one action for one call of the library, so that every action contains all
that the handler does, the messages it sends included. Where a handler has several exits,
each exit is an action, with the conditions of the code in the order of the code:

| code | actions |
|---|---|
| `raft_periodic` | `PeriodicIdle`, `PeriodicHeartbeat`, `PeriodicElection`, each followed by `ApplyEntry` |
| `raft_recv_requestvote` | `RecvRequestVote` |
| `raft_recv_requestvote_response` | `IgnoreRequestVoteResponse`, `LoseElection`, `RecvVote` |
| `raft_recv_appendentries` | `RefuseAppendEntries`, `TruncateConflict`, `AcceptAppendEntries` |
| `raft_recv_appendentries_response` | `IgnoreAppendEntriesResponse`, `StepDown`, `RetryAppendEntries`, `RecvAppended` |
| `raft_recv_entry` | `RecvEntry` |
| restart of the application | `Restart`; `CrashInElection`, `CrashInRequestVote`, `CrashInAppendEntries` for a crash inside a call |
| the network | `Lose`, `Duplicate`, and the choice of the message to deliver |

The variables are the fields of `raft_server_private_t` and of the node records;
`votes_for_me` is the set of peers with `RAFT_NODE_VOTED_FOR_ME`. The log is a sequence
of entries with a term and an id; it is on disk as it is in memory, because the log
callbacks flush every entry, and so is the term (`persist_term` is called in the
assignment). The vote is not: `raft_recv_appendentries` forgets it at line 290 without a
callback, so that `disk_vote` is a variable of its own. `ballots` and `elected` are
history.

Time is abstract: whether a timeout has elapsed is a free choice in every call of
`raft_periodic`, since the library leaves the clock to its caller. `Ordered` says
whether a connection delivers in order, as the TCP streams of an application do.

The membership is fixed (`RaftMembership` has the changes). Non-voting nodes are supported
(`Voters`) with all that the code does for them: they count in `num_nodes`, get heartbeats
but no entries of their own, and may start elections.

### Runs

| run | instance | shows |
|---|---|---|
| `raft_election` | 3 servers, no order, no crashes, 2 terms, 2 messages a connection | `ElectionSafety`, `OneVotePerTerm` |
| `raft_conflict` | 3 servers, in order, 3 terms, 1 entry, both candidates unstable | `StateMachineSafety` with logs that conflict and candidates and leaders that crash |
| `raft_replication` | 3 servers, in order, no crashes, 3 terms, 3 entries, 2 messages a connection | `TypeOK`, `LogMatching`, `CommittedOnMajority`, `MatchIsReplicated`; `AssertionsHold`, where heartbeats truncate logs (line 339) |
| `raft_crash` | 3 servers, in order, one unstable, timers run out with messages under way | `LeaderCompleteness`, `CommittedStable`; `ElectionInv` with votes of earlier candidacies and crashes between the flushes of term and vote |
| `raft_delayed` | 2 servers, no order | violated: `AssertionsHold` |
| `raft_stale_term` | 2 servers, in order | violated: `ResponseDeposesLeader` |

Bounds. `MaxTerm` = 3 is what two conflicting entries of different leaders and a third
leader that meets both need (`TruncateConflict` does not occur below); `MaxLog` = 2 is what
one message with an old and a new entry needs; 3, in `raft_replication`, is the least with
which a heartbeat truncates (`prev_log_idx` is above 0 and more than one entry lies behind
it). In `raft_crash`, with one entry, a crash in the middle of an append leaves the whole
message or nothing of it: that a longer message may be taken in part is covered by the
proofs. `MaxInFlight` bounds a connection, and what is sent beyond it is lost, which the
library must survive anyway. `MaxBusy` delays timeouts and clients until at most so many
connections carry messages; `raft_crash` has 1, so that messages of an earlier term meet a
later one there. Where it is 0 (`raft_conflict`, `raft_replication`), several messages are
under way only because handlers send them. `Electing` keeps one server from starting
elections: two rivals and a voter are what a conflict takes. In `raft_crash` it is that
third server which crashes, as a voter and as a follower that holds entries; in
`raft_conflict` the candidates crash. Symmetry is used among servers of the same kind. The
run `raft_conflict` identifies states that differ in the history variables alone (the view
`NoHistory`): no action reads them and its property does not depend on them.
`raft_replication` leaves out more (the view `Exchange`): where no server crashes and all
vote, what was applied, the vote on disk, who is taken for the leader and the indices and
flags of a server that does not lead or run decide neither what is sent nor whether its
properties hold, but for the type of what is left out. The bounds stop the system in the
end, so that deadlock is not checked.

### What the violations show

* An empty appendentries (a heartbeat) deletes the follower's entries behind
  `prev_log_idx` (line 339), without any conflict. If it was overtaken by messages with
  entries that are committed since, the assertion of line 341 fails. On connections in
  order it does not happen: `raft_replication` checks the same property there, with
  heartbeats that truncate logs in which entries are committed, and
  `AssertionsAlwaysHold` proves it for any number of servers, entries and messages.
* A response with a later term is dropped as stale if its `current_idx` is not above
  `match_idx`, so that a leader does not step down although the comment says it does.
  Safety does not suffer (the other runs include these steps).

Two more differences need no run: `log_append_entry` refuses only an id of 0, while
`raft_log.h:16` says that an entry already added is not added again; and a non-voting
node starts elections like any other (`raft_periodic`), while `raft.h` says that it
takes no part in them.

### Proofs

`Raft_proofs.tla` proves, from `ConstantsAssumption` alone (a finite set of servers; no
bound on terms, logs or messages), for the whole specification with an unreliable network
and with crashes:

* `TypeCorrect`: `Spec => []TypeOK`. The part with content is `next_idx >= 1` and that
  every message under way is well formed; the lemmas say what `Merged` and `KeptLen`
  return for any log and message (`KeptLenBounds`, `MergedType`).
* `ElectionInvariant`: `Spec => []ElectionInv`. `ElectionSafety` is not inductive: a vote
  is given in one step, is under way, and counts in another. `ElectionInv` follows it:
  a granted response under way, a flag and a leader's majority stand for ballots that
  were given (`VotesGiven`, `LeadersElected`), ballots of the current term agree with the
  vote in memory and with the one on disk (`CurrentVotes`), and a server that forgot its
  own candidacy may vote once more, but never if it was elected. Every action falls into
  one of four classes, with a lemma each: it leaves the election's state alone
  (`ElectionUntouched`), makes a server a follower (`ElectionDemoted`), gives a vote
  (`ElectionVoted`) or wins (`ElectionWon`).
* `ElectionSafe`: `Spec => []ElectionSafety`, from two majorities that meet
  (`MajoritiesMeet`) and the invariant.
* `VotesOnce`: `Spec => []OneVotePerTerm`.

`RaftLogMatching_proofs.tla` proves `LogsMatch`, `Spec => []LogMatching`, for either kind of
network. Two followers never compare their logs, so that nothing in the state says why they
agree. `LogInv` says that there are histories `h`, where `h[t]` is all that the leader of term
`t` has written or taken over: every log, and every message with entries, is a piece of the
history of the term of each of its entries, and a leader's log is the history of its term
(`History`). The histories are quantified and not kept in a variable, because the code needs
none; a step either leaves them alone (`QuietStep`) or is one of the leader of a term, whose
history grows (`WritingStep`) or begins (`LogWon`). What `raft_recv_appendentries` makes of a
log and a message that both fit, fits (`KeptFits`, `MergedFits`).

`RaftCommit_proofs.tla` proves what this is for, under the hypothesis `Ordered`, that
connections deliver in order; messages may still be lost, servers may crash between and
inside the calls, and nothing bounds terms, logs or servers. The hypothesis is needed: the
run `raft_delayed` refutes `AssertionsHold` without it.

* `StateMachinesAgree`, `LeadersComplete`, `CommittedOnMajorities`, `MatchesReplicated` and
  `AssertionsAlwaysHold` state the invariants `StateMachineSafety`, `LeaderCompleteness`,
  `CommittedOnMajority`, `MatchIsReplicated` and `AssertionsHold`.
* `CommitsStable` states the action property `CommittedStable`.

They rest on `CommitInvariant`, `Spec => []CommitInv`. Besides the histories there are
acknowledgements `a`, where `a[t][v]` is how much of the history of term `t` the server `v` has
acknowledged. An entry is `Choosable` if a majority has acknowledged it or may still do so,
because it has seen no later term; it is then `Held` by all who acknowledged it, by all later
leaders, by a candidate of a later term with the vote of a server that acknowledged it, and
all messages of later terms reach at least as far (`Kept`). The rest is about what is
under way (`MessagesSound`): acknowledgements were made, an appendentries is a piece of the
sender's history that reaches as far as those before it on the connection and as far as
what the receiver has acknowledged. This last part is where the order of delivery enters:
an empty appendentries deletes all behind `prev_log_idx`, and with `Retained` it follows that
nothing acknowledged is among it. `CandidacyInv` says that requests describe the log of a
candidate that is still one. The steps of the argument are lemmas: a vote is given only to
a candidate whose log holds what the voter acknowledged (`VoteKeeps`), a merged log agrees
with the leader's as far as the message reaches (`MergedAgrees`), what a leader counts as
replicated is committed in this sense (`CountedCommitted`), and `CommitStep` says what has
to be shown of an action; each class of actions then has a lemma of its own.

## Raft membership

`RaftMembership.tla` follows one server: its list of nodes (`raft_add_node`,
`raft_add_non_voting_node`, `raft_remove_node`), the configuration entries of its log and
`voting_cfg_change_log_idx`. The other servers are the environment: it sends what a leader
whose log holds the committed entries could send (`RecvAppendEntries`, `RecvConflict`),
votes (`RecvVote`), responses (`RecvResponse`) and later terms (`LaterTerm`). `Offer` is
the application's `log_offer`, which does what `module/raft/README.rst` asks of it. A server
whose own node is removed is shut down and not modelled. The run `library` checks
`CommitsOnMajority`: although `raft_recv_appendentries_response` counts the voting nodes that
agree and compares with half of all nodes, the non-voting ones included, and the list changes
with every entry appended, a leader commits only what a majority of the voting members have.
The instance has 3 members, 2 terms and 2 entries, enough for a member to be added, promoted
and removed by this server and by another leader.

`Library_proofs.tla` proves `LeadersCommitOnMajority`, which states `CommitsOnMajority`, from
`MembershipAssumption` (the server is no peer, it is among the first nodes, which are finitely
many, and the changes are about peers) for any peers, changes, terms and entries. It rests on
`MembersKnown`: whatever entries offer and pop, the server stays a voting node of its own list,
the list stays finite, and a leader's term is one it has led (`MemberInv`). With more
than one node only a response moves the commit index, and then the nodes that agree, the
server itself among them, are more than half of a list of which the voting nodes are a part.
That is why counting against all nodes is safe, if slow; a list without the server itself
would make the count wrong, so that the invariant has to follow it through `OfferAll`, for any
number of entries in a message.

The run `raft_membership` has one more entry and finds `OneVotingChange` violated:
`raft_append_entry` notes the index before the entry (line 594), `raft_recv_entry` corrects it
afterwards (line 565), but `raft_recv_appendentries` does not. A follower forgets the change
when the entry before it is applied, and accepts another voting change once it leads, while the
first is not committed.

## Raft log

`RaftLog.tla` models the array behind the log: `LogInit` is `log_new`, `EnsureCapacity` is
`__ensurecapacity` with its copy, `AppendEntry` and `Delete` are `log_append_entry` (for an
id other than 0, which it refuses) and `log_delete`, `GetAtIdx` and `GetFromIdx` are the two
reads. What is not called is not modelled: `log_poll` and `log_empty`. (After `log_poll`
the front moves while `back` does not wrap, so that an append could write beyond the
array; nothing in the repository reaches that state.)

`ArrayIsSequence` says that the array implements `LogSequence`, in which the log is a
sequence that grows at its end and is cut off, which is the log of `Raft.tla`.
`ReadsAgree` says that both reads return that sequence. The run `library` checks them with
a capacity of 2 and up to 6 entries, so that the array grows twice, with deletions before
and after. `Library_proofs.tla` proves both from `LogAssumption` for every capacity and
every set of entries (`ArrayImplementsSequence`, `ReadsTheSequence`). The refinement is not
inductive by itself; `LogInv` adds that the entries lie at the start of the array
(`front` = `base` = 0, `back` = `count` <= `size`), which makes the remainders in the
code vanish (`Positions`), and one lemma for each operation says what it does to the
sequence (`Growing`, `AppendStep`, `DeleteStep`).

## Thread pool

`ThreadPool.tla` has one action for each access to shared state. A worker goes through
`stl_thread_do` from `WorkerStart` to `WorkerExit`; `bsem_wait` is one step, since the
semaphore is tested and taken under its mutex; `task_queue_push` and `task_queue_pull`
are one step, under the queue's mutex. The waiter's reads of a queue's length and of
`num_threads_working` are two steps, because no lock covers them, and so is its sleep.
`pthread_cond_signal` wakes one sleeper or nobody; a sleeper may wake for no reason.
`his_task_num` is kept modulo `num_threads` and starts anywhere (init does not set it).
`DeinitPost` is undefined behaviour in the code (see below): it crashes or has no effect
on the pool's semaphores. Tasks have an argument (a task without one has no function
either, `task_alloc`), and the pool is memory of the caller, as in the test program
(`stl_thread_pool_alloc` always fails, because init returns -1). The hold on SIGUSR1 is
left out: nothing sends the signal.

| run | instance | shows |
|---|---|---|
| `threads` | 2 workers, 2 tasks, 2 adders, 1 waiter, deinit | `NotStranded`, `TaskOnce`, `WaitMeansDone`, `TasksDone` |
| `thread_pool_wait` | 1 adder, no deinit | violated: `WaitReturns` |
| `thread_pool_deinit` | 1 adder, deinit | violated: `DeinitReturns` |

Two adders that read the counter after both have incremented it push to the same queue,
which is how a queue gets two tasks and the semaphore one post. Fairness: every worker,
adder, waiter and deinit that can take a step takes one in the end (the scheduler of the
operating system, and tasks that end); the waiter's is strong, since it competes for a
mutex. Calling wait, adding a task and calling deinit are not fair, and neither are
spurious wakeups, which nobody may rely on. The pool rests when all is done, so that
deadlock is not checked.

* `WaitReturns` fails by a lost wakeup: the waiter sees a task, the last worker finishes
  and signals (without the lock), then the waiter sleeps, with nobody left to wake it.
* `DeinitReturns` fails because the array of queues is cast to a queue: no semaphore of
  the pool is posted and an idle worker stays in `bsem_wait`, or the process crashes.

`ThreadPool_proofs.tla` proves the invariants of the run `threads` for any number of workers,
tasks, adders and waiters, from `PoolAssumption` (there is a worker, and `None` is neither a
task nor a waiter):

* `NobodyStranded` states `NotStranded`; with the types (`PoolType`) it is inductive.
* `TasksOnce` states `TaskOnce`. `TaskInv` adds where a task is at each moment: in one place of
  one queue, with one worker that runs it, done, or not yet pushed and with one adder.
* `WaitsMeanDone` states `WaitMeansDone`. `num_threads_working` counts the workers between
  the two updates of it (`CountInv`, `CountCorrect`), so that a waiter that reads 0 knows that
  nobody has a task in hand; `WaitInv` says that the workers it has looked at, in the order
  of the loop, are free of the tasks that were there when it began, and stay so.

## Slab allocator

`Slab.tla` models one pool: `Alloc` is `stl_slab_alloc` for a size of every class, up to runs
of three pages, and `Free` is `stl_slab_free`. A page has the fields of `stl_slab_page`,
with the bits that the code packs into `slab` and `prev` as fields of their own. The
helpers follow the code from the top: `FirstFit`, `SplitRun` and `TakeRun` are
`stl_slab_alloc_pages`, `JoinNext`, `RunBefore`, `JoinPrev` and `PushFree` are
`stl_slab_free_pages`, `TakeChunk` and `NewChunkPage` the two ways to get a chunk,
`GiveChunk` the three cases of chunks in `stl_slab_free`. The counters `reqs` and `fails`,
which nothing reads, are left out, and so are the contents of memory but for chunk maps.
`live` is history: what the callers hold.
Pointers that are freed lie in the pages; what is left between the last page and the end of the
pool, which the test at line 551 lets through as well, is left out.

The run `slab` has 4 pages and up to 4 live allocations. The page is scaled down to the
least that still has all three kinds of chunk pages (small, with a map in the page itself;
exact, with a map of one word; big) and runs of pages, so that runs are split, joined on
both sides and refused. It shows `AllocDisjoint` (no two live allocations, and no map,
overlap), `NoMemoryLost` (what is not live can be allocated), `ListsSound` (both directions
of every list agree, free runs are maximal) and `StrayFreeIgnored` (freeing what is not the
start of a live allocation changes nothing).

`Slab_proofs.tla` proves all four (`AllocationsDisjoint`, `MemoryNeverLost`, `ListsAlwaysSound`,
`StrayFreesIgnored`) for any number and size of pages, any least chunk, any sizes that are
asked for and any number of live allocations. The assumptions are `SlabAssumption` (the
least chunk is smaller than a page, a byte has more than one bit) and `ExactAssumption` (the size
whose map is one word is a power of two not above the page), which hold for every page size
and word the code is built for. None of the four is inductive. `SlabInv` says what the
descriptors mean together:

* they divide the pool into free runs, allocations of pages and pages of chunks, and every page
  inside a run or an allocation says that it is inside (`Tiling`);
* the last page of a free run leads back to the first (`Tails`), which is what `RunBefore` needs
  to join to the left, and free runs do not touch (`Apart`), which is what makes a refusal
  mean that there is no room;
* exactly the free runs and the pages with a free chunk are in lists (`Unlisted`), each in its
  own and linked both ways (`Chained`; a rank for each page says that a list has no cycle), and the
  type in `prev` is that of the page (`Typed`);
* what the callers hold is what descriptors and maps say (`live = Held(pool.slab)`).

A call passes through states in which a page is in no list. `Sound(q, D)` is therefore stated
for the pages `D` that are on their way, and each helper has a lemma that says what it does to
`D`: `TakeRun` and `PushFree` with its two joins, taking a page out of a list and putting it
in, taking and giving a chunk.

## Ring buffer and condition

`RingBuffer.tla` has a thread that queues and a thread that dequeues. The test, the copy and
the atomic store of `tail` are steps of their own, and so are the test and the store of
`head`; a copy under way leaves a slot torn. `RingIsQueue` says that the two implement
`BoundedQueue`. `PointerValid` says that the pointer which dequeue returns stays good until
the next dequeue, although its slot has been given up: the slot that `is_full` keeps empty
is the one behind the head.

`Library_proofs.tla` proves `PointersValid` and `RingImplementsQueue`, which state
`PointerValid` and `RingIsQueue`, from `RingAssumption` for every capacity and element size. `RingInv`
says which item is in which slot, the one being published and the one still being read
included, and that two slots are empty while the producer is at work; offsets in bytes are
multiples of the element size (`OffsetOf`, `SameOffset`), and the difference of two of them
is the length of the queue whether or not the tail has wrapped (`OffsetDistance`).

`Cond.tla` models `stl_cond_signal` and `stl_cond_wait` over a mutex and a condition variable
with spurious wakeups. `NotSleptOver` says that no datum lies there while all waiters
sleep. A second signal overwrites the datum of
the first; nothing in the repository says that it should not. `NobodySleepsOver` proves
`NotSleptOver` for any sets of signallers and waiters.

The run `library` has 3 slots of 4
bytes with 9 items, so that the offsets wrap several times, and 3 signallers with 3
waiters, so that a third thread can overtake one that was woken. The threads stop when they
are done, and a waiter may sleep for good without a signaller; callers of the other parts
stop at the bounds: deadlock is not checked.

## Read-write lock

`RWLock.tla` has one action for each access to the word: `WTest` and `RTest` read it, `WSet`,
`RSet`, `WRelease` and `RRelease` are the atomic instructions, `Unlock` is the test by which
unlock tells how its caller holds the lock, `DTest` and `DSet` are downgrade. Threads lock,
unlock and downgrade in any order, but unlock and downgrade only what they hold. The
instructions are atomic as in a build with `STL_SMP`.

The run `threads` has 3 threads: a writer, a reader, and a third that acts between the test
and the set of either. It shows `RwExclusion`, `WordIsState` (the word counts the readers or
says that one thread writes) and, for threads that go on whenever they can (`RwFairness`:
the operating system's scheduler; nobody has to call anything), `SomeoneGetsIt`. A single
writer may starve, and nothing says that it does not.

`Threads_proofs.tla` proves `WordTellsState` and `WriterIsAlone`, which state `WordIsState`
and `RwExclusion`, from `RwAssumption` alone (a finite set of threads). Exclusion is not
inductive, since unlock decides by the word and not by what its caller did; `RwInv` adds that
the word tells the state, and that a thread about to set the word has not read the writer's
value (`ReadersRead`). `WordOfHolder` says what the word is while a thread has the lock, and
two lemmas say how the number of readers changes with one thread.

## Epoll loop

`Epoll.tla` has the thread that accepts (`ListenerWait`, `Accept`, `Dispatch`), the workers
(`EpollWait`, `WorkerEvent`, `WorkerIo`, `WorkerClose`, `WorkerDel`, `WorkerError`,
`WorkerDone`) and `Deincr`. A worker's steps end where it calls the kernel, so that others
act between a close and the removal from the set. The kernel is external: descriptors are
given out again once they are closed, a close takes a descriptor out of every set, events are
edge-triggered. Clients connect, write and reset their connections at any time, and connect
again. `io_func` reads all there is and returns any of the values `IoResult`.

A worker that was told to stop closes its epoll set twice (`WorkerDone`, `WorkerReclose`; lines 92
and 93). In between, the listener may have got the number of the set for a new connection:
the second close then closes that connection behind the back of the worker that has it, which may
be handling events of it, and the number can be given to yet another client. `EfdOf` says which
number each set has, `strayed` remembers what was closed in this way. The domain sockets of the
workers, which nothing reads or writes, are left out.

The run `threads` has 2 clients, 2 workers, one call of deincr and 3 descriptors: two for one
worker, of which one is the number of the other's epoll set, and one more for that other. So a
number is given out again while its worker is busy with the closed connection, a worker stops
with a connection, and its second close hits a connection of the other. `IoForOwner` says that
`io_func` is never called for the wrong connection, with one exception that the code has: after
such a second close the events that were fetched before are for a number which may be another
client's by now. `OpenIsWatched` and `DataIsRead` say that every open connection is watched and
its data read, with two exceptions that the code has: its own worker was told to stop, or it
got the number of one just closed before the worker takes that number out of its set (line
252, after the close of line 251); it is then never heard of again. Whoever gets a number after
a second close is watched. Connections that nobody has accepted yet are not spoken of.
Fairness: the listener and the workers go on whenever they can; clients need not do anything.

`Threads_proofs.tla` proves `IoForOwners` and `OpenAreWatched`, which state `IoForOwner` and
`OpenIsWatched`, for any number of workers, clients and descriptors, any numbers of the sets and
any number of calls of deincr, from `EpollAssumption` (as many descriptors as clients besides
those of the sets, so that accept does not fail). `EpollInv` adds what makes them inductive: a
descriptor that was accepted and not yet handed over is in no set (`ListenerInv`), a set holds open connections
of its own worker only and none after it is closed (`SetInv`), and the events a worker has fetched
and not yet handled are for connections that are still open under the same descriptor, since
nobody but this worker closes them, or for one that has strayed (`EventInv`).

## Red-black tree, dictionary, configuration files

`RbTree.tla` writes what the code writes for each side once, with the side as a parameter:
`InsertValue`, `InsertFixup` and `Rotate` are `stl_rbtree_insert`, `TakePlace`, `Clear` and
`DeleteFixup` are `stl_rbtree_delete`, `SearchFrom` is `stl_btree_search`. As it stands the
code reads through the null root that `stl_rbtree_init` leaves, and `stl_rbtree_min` is defined
nowhere: the model has a caller that sets the root to the sentinel (`UseSentinel`) and the
leftmost node for `stl_rbtree_min`; both are marked external. A key is a pointer of which only
the caller's `cmp` knows more: the integer in it, of which NULL is 0, or the address of one. The
sentinel's key is NULL. `TreeIsSet` says that the tree
implements the set `NodeSet`, `RedBlack` that the tree stays balanced and its links agree.
`SearchFinds` says what `stl_btree_search` returns for both kinds of `cmp`: a node with the key
if there is one, without a look at the sentinel; else the walk gets to the sentinel and hands its
key to `cmp` (line 411), which crashes if it reads what keys point to, finds the sentinel if the key
is 0, and gives NULL for other integers. The run `library` has 7 nodes, of which two have
the same key and one the key 0, which is enough for every case of both loops.

`Dict.tla` has insert, delete, lookup and deinit over 2 buckets with integer and text items. An
item is the bytes of its integer or the characters of its text, and the `len` that the caller
gave it: `CopyOf` keeps of an integer the bytes that `len` covers (lines 82 and 84), so that the
`len` of an int cuts half of an `int64_t` off, and of a text all, since line 46 copies it. The run
`library` has keys of both lens, one of which is cut off to another, and a text, and 4 inserts.
Deleting the first pair of a chain drops the others; `LookupIsNewest` says that what is found is
nevertheless the newest value whose key was stored with the data looked for, as far as its `len`
covers it, and, while no chain was dropped, that every value is found. deinit frees the first
chain only; after that the dictionary is not used. Items of type PTR and a `len` for which memcpy
leaves the allocated memory are left out. `LookupsNewest` in `Library_proofs.tla` proves
`LookupIsNewest` from `DictAssumption` for any items and any hash. `DictInv` says that values
fall along chains and stacks, and that a chain holds the newest values of a key up to some age,
and all of them while no chain was dropped (`Newest`): a chain that was dropped and begun again
never shows an old value before a newer one.

`Ini.tla` reads a file line by line, and callers then search, put and delete. A line is what
trimming leaves of it, and names are sequences because they are compared by their beginning. A text
has a number of its own and a form, which says what becomes of it when it is dumped and read:

| form | text | dumped and read back |
|---|---|---|
| `plain` | fits on a line, nothing to trim | as it is |
| `trims` | blanks at its ends, or a comment mark behind a blank | without them (lines 132 to 173) |
| `long` | with its key above 4095 characters | cut off with its newline (line 385); the next line is joined to what the reader's buffer leaves of it |
| `breaks` | a line break | its first line; the rest is a line of its own of any kind |

A call may put a text of every form; from a file come only texts on one line. `FoundAgain` says
that what the file gave is found by the names of its line. `DumpReadsBack` says that a dumped file
is parsed to the same sections with trimmed texts if every text fits on a line; a text that does
not may change or end all that follows it, but whatever stands before it is read back. Sections
without items are gone. The run has 6 lines and calls together, of which 2 calls that change
something, two names of which one begins the other, and plain texts in the file (`FileForm`): a long
one from a file is dumped like a long one that was put. Names above 255 characters (cut off by the
parser) and names with blanks, brackets or comment marks are left out. Deleting from a section
without items wraps its count and ends the model's behaviour (`wrecked`).

`Library_proofs.tla` proves `KeysFoundAgain` and `DumpsReadBack`, which state `FoundAgain` and
`DumpReadsBack`, for any names, any file, texts of every form and any calls, from `IniAssumption` (a
name is a sequence of codes). `IniInv` adds that no section's name begins with the name of a
later section (`Distinct`): a search takes the first section whose name begins with the one it is
given, so that this is what keeps a line from landing in another section than the one it came
from. It is also why a dump is read back section by section; the proof follows `ParseLine`
through the dump by induction over its lines up to the first text that does not fit, and lines
behind it only add to what was read (`Grows`).

## Digests and base64

`Digest.tla` has the contexts of SHA-1 and MD5: buffer, length, and the chaining value as the
record of the blocks it was computed from. `DigestOfMessage` compares with the padded message
of the standards, for all ways to cut a message of up to 14 bytes into parts, over blocks of
6 bytes with a length of 2, so that every part can end before, at and behind a boundary and
the length does not fit in some cases. `stl_sha1_final` leaves a zeroed context; what is fed
to it afterwards is not started from the constants and is excepted. How the chaining value is
written out is left out, and with it that `stl_md5_checksum` writes 33 characters to a result
declared with 16 (line 128). `Digest_proofs.tla` proves
`DigestsOfMessages`, which states `DigestOfMessage`, for every block size and every length field
that is shorter than a block (`DigestAssumption`), for messages of any length in any parts.
`DigestInv` says that the chaining value stands for the whole blocks of the message so far and
the buffer begins with the bytes behind them (`Absorbed`); the lemmas about `Feed`
keep it, and those about the padding show that the final call, which writes the marker, the
zeros and the length into the buffer, with one block more if they do not fit, ends at a boundary.

`Base64.tla` is complete. `EncodedReadsBack` and `DecodedFits` are checked for all sequences of
5 bytes out of 5 and of 6 characters out of 4, among them the padding and one outside the
alphabet. `Library_proofs.tla` proves them (`EncodesReadBack`, `DecodesFit`) for all bytes and
all texts of any length. The state has no more to it than that they are bytes (`B64Inv`); the
argument is about the two loops. 24 bits are the same as three bytes and as four values
(`SextetsJoin`, `ValuesJoin`, `BytesOf`), the characters of a group lead the decoder from the
start of a group to the start of the next (`GroupRead`), and the groups follow each other in
what is encoded (`EncodeIs`, `ReadOneMore`). In the other direction `State` says what the
decoder may have after `k` characters: three bytes that are written took at least four
characters, the position is the number of characters modulo four unless the text was refused,
and nothing that was written or refused is taken back (`StateStep`, `RunGrows`).

## What is only model-checked

* Liveness (`TasksDone`, `SomeoneGetsIt`, `DataIsRead`, `WaitReturns`, `DeinitReturns`) is out of
  the prover's reach.
* The red-black tree: `TreeIsSet`, `SearchFinds`, `RedBlack`. The loops of insertion, deletion and
  search are RECURSIVE operators, in whose presence the prover loses its SMT backend, and their
  invariants speak of the depth of both sides of every node at once, which takes an induction
  over trees.
* The violated properties and the bounds of the instances, which are TLC's alone.

Where a proof needs what a loop computes for every input (`Parse`, `Decode`, `OfferAll`,
`FlattenSeq`), the loop is a recursive function on an interval of numbers. That such a function
exists, and what it satisfies, is proved each time by the least number for which it would fail
(`Least`): the induction theorems of the library cannot be instantiated.

## Not modelled

* Management service and keep-alive (`mgmt`): `stl_string_split` writes through the null pointer
  that its callers pass and always returns -1, so that `mgmt_client` never sends a command;
  and `mgmt_handle_io` reads until read returns no more and then looks at the command only if
  read has returned something. No node is ever added, and the keep-alive thread, which only
  the adding of a node starts, never runs. The connections themselves are those of `Epoll`.
* Strings, log, random and sockets: one-call wrappers, and the undefined behaviour above.
* Array: `stl_array.c` does not compile (an unbalanced parenthesis in `stl_array_destroy`).
* Radix tree: calls functions that are defined nowhere.
* Hash functions, checksums and the compression functions of the digests: arithmetic over
  tables, without state, which TLC cannot enumerate.
* Metadata store: each function is one call of WiredTiger; what it promises is the engine's.
* `stl_epoll_incr_thread`: only disabled test code calls it.
* `log_poll`, `log_empty` and the getters and setters of Raft without callers.
* FUSE client (a constant example), object storage daemon (no code), topology generator
  (text to text).
* Clocks: whether an election timer has run out is a free choice, so that the liveness of
  elections is not stated.
