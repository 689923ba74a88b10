# A verification project for NaviServer

NaviServer is a multi-threaded web server in C that embeds Tcl.  Its
correctness rests on a few dozen hand-written protocols between threads:
counters and lists under one mutex, flags read without one, condition variables
that are signalled once, structures that change owner between threads, pools and
caches with limits.  The modules in this directory model these protocols in
TLA+; TLC checks them on small instances and TLAPS proves the central ones for
every size.

Every definition follows the code under `src/`.  One step of a model is one
region that the code executes under a mutex, or one access to shared state that
it makes without one, so that every interleaving the code admits is an
interleaving of the model.  Names of functions, variables and fields are those
of the code where TLA+ allows it.  `PROJECT.json` maps each definition to the
lines it stands for.

## 1. The system and its parts

| part | source | state | what other parts do with it |
|---|---|---|---|
| connection thread pool | `nsd/queue.c` | free list and waiting queue of `Conn`s, stack of idle threads, thread counters, one argument slot per thread | drivers and spoolers queue requests, threads serve them, the main thread stops the pool, Tcl commands change the limits |
| driver, spooler | `nsd/driver.c` | sockets reading, waiting, closing; trigger pipe; queue size | feed the pool; connection threads return sockets through `closePtr` and the pipe |
| writer, async writer | `nsd/driver.c` | writer queues, per-socket buffers | connection threads hand over responses, log files are written asynchronously |
| scheduler | `nsd/sched.c` | event heap, hash table of ids, list of thread events, thread counters | every Tcl thread schedules, cancels, pauses and resumes |
| job queues | `nsd/tcljob.c` | queues of jobs, job states, thread counters | `ns_job` from any thread, threads wait for results |
| task queues | `nsd/task.c` | tasks with flag words, signal pipe | `ns_http`, connection channels and the async spooler |
| caches | `nsd/cache.c`, `nsd/tclcache.c` | hash table, LRU list, size | `ns_cache_eval` of several threads for the same key |
| database pools | `nsdb/dbinit.c` | handles, waiting and holder counts, stale flags | `ns_db gethandle`, periodic check |
| proxy pools | `nsproxy/nsproxylib.c` | free and running workers, reaper | `ns_proxy` from any thread |
| thread primitives | `nsthread/*.c` | reader-writer locks, critical sections, semaphores, thread-local storage | everything |
| socket callbacks | `nsd/sockcallback.c` | queue and table of callbacks, trigger pipe | Tcl and C callers register and cancel |
| server callbacks, shutdown | `nsd/callbacks.c`, `nsd/nsmain.c` | lists of procs, shutdown thread | main thread |
| connection channels | `nsd/connchan.c` | table of detached sockets | connection threads, socket callbacks, Tcl |
| request limits | `nsd/limits.c` | running and waiting counters | connection threads |
| URL space | `nsd/urlspace.c` | trie with filters | registration and lookup |
| shared variables | `nsd/tclvar.c` | buckets of arrays | Tcl threads |
| log, log rolling | `nsd/log.c`, `nsd/rollfile.c` | log entries, files | every thread |
| binder, watchdog | `nsd/binder.c`, `nsd/watchdog.c` | helper processes | start of the server |

The complete list, with what is left out and why, is in the `components` of
`PROJECT.json`; the places where the code is exposed to orders of events that a
test hardly reaches are its `hazards`.

## 2. Modules

| module | models or proves |
|---|---|
| `ConnPool` | connection thread pool of a server and the part of the driver loop that feeds it |
| `MCConnPool` | its instance for TLC (symmetry of drivers, spoolers and `Conn`s) |
| `EventHeap` | the array heap of scheduled events, as pure operators |
| `Sched` | scheduler: the calls, `SchedThread`, the event threads, the shutdown |
| `Jobs` | job queues: the `ns_job` commands, the job threads, the shutdown |
| `MCJobs` | its instance for TLC |
| `DbPool` | a pool of database handles |
| `DbAllocator` | what such a pool promises; `DbPool` is shown to implement it |
| `Cache` | a Tcl cache with concurrent `ns_cache_eval` and transactions |
| `Counting` | lemmas for all proofs: the number of points that a function maps into a set, loops, lists in which nothing is twice |
| `ConnPoolOwners`, `ConnPoolCounts` | theorems on `ConnPool` |
| `SchedProofs` | theorems on `Sched` |
| `DbPoolProofs` | theorems on `DbPool`, and that it implements `DbAllocator` |
| `JobsProofs` | theorems on `Jobs` |
| `CacheUpdates`, `CacheProofs` | lemmas on the operators and the updates of `Cache`; theorems on `Cache` |

Definitions whose comment begins with "Mutant" are variants of the definition
that follows them, with an error of the kind that code like this has.  With a
mutant in the place of the original the property named for it in `PROJECT.json`
is violated, which shows that the property depends on that line of the code.

### ConnPool

State: `free`, `wait`, `tqueue`, `current`, `creating`, `idle`, `tmin`, `tmax` are
the fields of `ConnPool`; `pc`, `argConn`, `cur`, `ncons`, `joining` are the argument
slot and the locals of a thread in `NsConnThread`; `dpc`, `dconn`, `darg`, `dcreate`
are the locals of `NsQueueConn`; `trig`, `nwait`, `nclose`, `qsize` are what the
driver loop keeps; `shutdown`, `joinThread`, `mpc`, `mi`, `mjoin` belong to the
main thread.  `ConnThreadArg.state` is derived from `pc`.

Actions: `QueueNew`, `QueueWaiting`, `PopIdleThread`, `AssignConn`, `DecideCreate`,
`SignalThread`, `AppendWaiting`, `CountCreate`, `CreateConnThread` and `CreateFailed` are the
regions of `NsQueueConn` in their order; `ConnThreadStart` to `ConnThreadExit` those of
`NsConnThread`; `NsStopServer` to `WaitServerJoin` the shutdown; `AdminParse` and
`SetPoolAttribute` the commands `ns_server minthreads` and `maxthreads`.  A lock that
is held over several steps (argument lock between check and wait,
`tqueue.lock` in `WakeupConnThreads`) is visible in the guards of the others.

### Sched and EventHeap

`EventHeap` has the array and `Event.qid` in one record; `Swim`, `Sink`,
`Enqueue` and `DeQueueEvent` are the loops of the code as functions of the number
of iterations (`SwimOnce` and `SinkOnce` are their bodies, `PopOnce` that of the loop
that takes due events).  In `Sched`, `heap`, `first`, `nThreads`, `nIdleThreads`, `running`
and `shutdownPending` are the static variables of `sched.c`, `alive` and `hashed`
tell which events are allocated and in `eventsTable`, and `spc`, `tpc`, `mpc` say
where `SchedThread`, the event threads and the main thread are.
`Ns_ScheduleProcEx`, `Ns_Cancel`, `Ns_Pause` and `Ns_Resume` are one region each.
`SchedLoop` moves all due events from the heap to the lists and creates or wakes
one event thread; `SchedRan` reads `hPtr` without the mutex, as the code does;
`SchedCleanup` frees the queue without it.  An event thread that goes on to its
next event without releasing the mutex keeps it in `lock`.  Condition variables:
`schedcond` has two waiters, and a signal wakes any one of them; `eventcond` has
the idle event threads.  Times are reduced to their order.

### Jobs

`queues`, `stop`, `maxThreads`, `nthreads`, `nidle` and `firstPtr` are the fields of
`tp`; `deleting`, `nRunning`, `refCount` and `jobs` those of the queues; `state` and
`waited` those of the jobs.  `LookupQueue` takes `tp.queuelock` and then waits for
the lock of the queue, `ReleaseQueue` may do the opposite (`ReleaseDelete`): both
orders are steps of the model.  `JobQueue`, `JobWait`, `JobWaitAny`, `JobCancel`,
`JobDelete` and `JobExists` are the commands after the lookup; `ThreadCreate` is
`Ns_ThreadCreate` after both locks are released; `RunJob`, `JobDone`, `WaitForJob`,
`IdleTimedOut` and `StopThread` are `JobThread`.  `RunJob` takes the first pending job
whose queue may run one more (`GetNextJob`), and `Unlink` takes it out of the list.

### DbPool and DbAllocator

`list`, `waiting`, `closes` are the fields of `Pool`, `connected`, `stale`, `hcloses`
those of the handles.  `BeginGet` to `GetFailed` are
`Ns_DbPoolTimedGetMultipleHandles`, with the two condition variables `waitCond` (to
become the one thread that collects) and `getCond` (for handles); `PutHandle` and
`PutReturn` are `Ns_DbPoolPutHandle` before and under the lock; `CheckGrab` to
`CheckReturn` are `CheckPool`, which holds all idle handles for a while;
`Ns_DbBouncePool` marks connections.  `old` is history: the connections that were
open at the last bounce.  `DbAllocator` has only free and owned handles and
requests that are granted as a whole or refused; the refinement mapping counts
the handles of an unfinished request, and those that `CheckPool` holds, as free.

### Cache

`cache` is the `Cache` structure: the LRU list, the entries, both sizes.  The
operators `Ns_CacheCreateEntry`, `Ns_CacheUnsetValue`, `Ns_CacheDeleteEntry`,
`Ns_CacheSetValueExpires`, `Prune`, `CacheTransaction` and `WalkEntries` map a cache to
the changed cache, the last three as loops whose bodies are `Evict`, `FinishEntry` and
`FlushEntry`; the actions compose them as the commands of `tclcache.c` do.  `Command` is
`ns_cache_eval`, `ns_cache_incr`, `ns_cache_append` or `ns_cache_lappend` up to the first
point where the lock is released: it returns, starts a script, or waits for
`Cache.cond`; `Retry`, `TimeUp` and `GiveUp` are the ways out of the wait and
`FinishEval` the end of the script.  `Get`, `Flush`, `Walk`, `Configure` are the other
commands, `BeginRead`, `BeginWrite` and `Finish` the transactions.

## 3. What is checked

All bounds are constants of the modules; the comments of the modules mark them
with "bound".  Deadlock is checked, except in the runs whose system may really stop
(a shutdown that has ended; no command left to give).

| run | what it shows | instance |
|---|---|---|
| `conn_fixed` | a pool of fixed size: a `Conn` is in one place only and none is lost; the three asserts of the code hold, although a `Conn` is assigned without a lock | a driver, a spooler, 2 threads, 2 `Conn`s, 3 sockets |
| `conn_elastic` | the thread counters are exact; `current` exceeds `maxthreads` by less than the number of callers | the same with 1 to 2 threads that exit after every request |
| `conn_admin` | counters and limits while `ns_server` changes `minthreads` and `maxthreads` | one administrator |
| `conn_live` | threads that exited are replaced, requests on the waiting queue are served while requests come in, all threads terminate after `NsStopServer` | 1 thread, 2 `Conn`s, a stop at any time |
| `conn_v_assign` | *violated*: the assert of `NsQueueConn` that the thread is idle | 1 to 2 threads with idle timeout |
| `sched` | counters of event threads, one owner per event, positions in the heap, thread events are taken, the drain at shutdown ends | 2 thread events and 1 event of `SchedThread`, at times of their own so that they move in the heap, 2 threads, pause and resume |
| `sched_v_heap` | *violated*: the heap order that `QueueConsistencyCheck` checks | 6 events |
| `jobs` | counters of the pool, reference counts and limits of queues, one place per job | 2 queues, 2 jobs, 2 callers, 2 threads, all commands, exits after one job and when idle, shutdown |
| `jobs_live` | pending jobs run, waits return, a stop ends all threads | 2 queues, 2 jobs, 2 callers, 2 threads |
| `jobs_v_lock` | *violated*: the lock order that a comment of the code prescribes | 1 queue, 2 callers |
| `dbpool` | one collector, connected handles first, one place per handle, connections open at a bounce are known to be stale, requests return, and the pool implements `DbAllocator` | 2 handles, 2 threads, one of them with a timeout, a bouncer and `SchedThread` |
| `cache` | size accounting, ownership of an entry that is being computed, no wait without a reason, isolation of transactions, waits end | 2 keys, 2 threads, nested transactions, 2 sizes, eviction |

Why these bounds are enough to reach the interesting cases: two actors of every
kind that compete (callers, threads, commands) and one resource less than they
want make every wait, every hand-over and every early return happen; the passing
runs together take every action and every disjunct of the next-state relations.
Six events are the smallest heap in which `DeQueueEvent` can break the order.  What
a larger instance could still show about the counters, the owners and the
collectors is covered by the theorems, which hold for every size.

### Fairness

Safety runs use `Spec`, without fairness.  For liveness, a thread that can run is
scheduled, a mutex that others keep releasing is obtained (strong fairness of
steps that need a mutex or room in a pipe, weak fairness of steps that stay
enabled), timed waits time out, and the procedures, scripts and requests of users
end.  No fairness is given to what comes from outside: new requests, commands,
the decision to stop, spurious wakeups, the timeout of `NsWaitServer` and those
of the shutdown.  In `DbPool` whoever owns handles puts them back, and `CheckPool`,
which runs at intervals of minutes, does not hold the idle handles every time a
thread looks.  In `Cache` scripts and transactions end.

### Disagreements between code and documentation

1. `conn_v_assign` (`nsd/queue.c:659`): the driver takes an idle thread off the
   queue, releases the lock, and then asserts that the thread is idle.  A thread
   whose wait timed out in between has left the idle state; the request goes to a
   thread that exits.  Needs `current > minthreads`; with a fixed pool the assert
   holds (`conn_fixed`, theorem `FixedAssignsToIdle`).
2. `sched_v_heap` (`nsd/sched.c`, `DeQueueEvent`): the last event moves to the gap and
   then only down.  If the gap is in another subtree the event may have to move up,
   and an event can come due later than a later one, contrary to
   "Check if all parent nodes (k/2) are earlier then the child nodes".
3. `jobs_v_lock` (`nsd/tcljob.c`): "To avoid deadlock, when locking both the
   queuelock and queue's lock, lock the queuelock first", but `ReleaseQueue` takes
   `tp.queuelock` while it holds the lock of the queue when it deletes it, and a
   lookup of that queue at the same time waits with `tp.queuelock` held.

### Further observations

They follow from the models under other settings than those of the runs and are
not runs of their own.

- `ConnPool`: a request that is appended to the waiting queue after a thread has
  looked at it, and before that thread is on the thread queue, stays there while the
  thread is idle, until another request comes (`queue.c:2399`, `2469`).  The retry
  of a waiting socket and the signal that `NsWaitServer` waits for can be lost
  (`queue.c:2629`, `2739`), which a timeout hides.  Two administrators can leave
  `minthreads` above `maxthreads` (`queue.c:912`).  After `maxthreads` was lowered,
  `WakeupConnThreads` does not visit all threads (`queue.c:2147`).
- `Sched`: `Ns_Resume` of an event that is being run queues it a second time, so
  that it can run twice at the same time (`ResumeRunning = TRUE` violates
  `EventInOnePlace`); `ns_schedule.man` says that "the scheduled commands run always
  sequentially".  With `jobsperthread` an event can stay in the list although all
  threads have left.  A cancelled event that is paused is never freed.
- `Jobs`: with an idle timeout or `jobsperthread` a pending job can stay without a
  thread until the next `ns_job queue` (hence `JobsPerThread = 0` in `jobs_live`).
  `ns_job waitany -timeout` can return before a job is done and before the time is
  up.
- `DbPool`: a handle that is in use during a bounce keeps its old counter, so its
  connection is closed at every later put, not once.  Waiting threads are not
  served in their order.
- `Cache`: `ns_cache_transaction_begin` increments the epoch under a read lock; two
  threads at the same time get the same epoch and see each other's uncommitted
  values (`Racy = TRUE` violates `Isolation`).  An entry that its own transaction
  drops does not wake those who wait (`TxDrops = TRUE` violates `WaitsForSomeone`).
  An entry whose value expires while it is uncommitted can be computed by two
  threads (`Expiring` and `TxKeys` that overlap violate `UpdateOwned`).  A wait that
  times out can leave an entry that nobody computes.  A rollback deletes the entry
  and does not bring back the value from before the transaction.

## 4. What is proved

The theorems hold for every number of threads, requests, handles and events.
Their assumptions are the named `ASSUME`s of the modules: sets are finite, the null
pointer is no element of them, and `1 <= minthreads <= maxthreads <= maxconns` as
`NsStartServer` and the configuration enforce.

| theorem | statement | inductive invariant |
|---|---|---|
| `TypeCorrect` | `Spec => []TypeOK` (ConnPool) | `PtrInv`: with the types, which pointers are set where a thread or caller stands; a thread in `run` has a `Conn` only because a thread that leaves the idle loop has one, has timed out, or sees the shutdown |
| `ThreadsAccounted` | `Spec => []ThreadAccounting` | `PtrInv` and the counters; each step changes one thread's or caller's place, so by `CountUpdate` each cardinality by at most one |
| `OvershootBounded` | `Spec => []BoundedOvershoot` | `OvershootInv`: a caller that is between decision and counting decided when `current` was below the limit, so the last one to decide still saw one caller less |
| `ConnOwnership` | `Spec => []ConnInOnePlace` | `PtrInv` with `ConnInOnePlace`; one lemma per kind of transfer (take, assign, append, dequeue, free) |
| `FixedAssignsToIdle`, `FixedLoopAssertions`, `FixedThreadQueueIdle` | `FixedPool` implies `Spec => []AssignsToIdle` and so on: the asserts of the code | `FixedInv`: threads on the queue, and threads a caller has taken off it, are waiting and have no `Conn`, and no two callers have the same thread.  It is kept because no thread leaves the idle loop without a `Conn`, which needs `current <= minthreads`: from `OvershootBounded` with one caller, and from `Static` (no thread leaves, none is created) without `connsperthread` |
| `FixedNoConnLost` | `FixedPool` implies `Spec => []NoConnLost` | `FixedInv` and that a caller has a `Conn` between free list and hand-over only |
| `OneAdminKeepsOrder` | with at most one administrator `Spec => []LimitsOrdered` | `LimitInv`: a validated value is still valid until it is stored |
| `EventThreadsCounted` | `Spec => []ThreadCounts` (Sched) | `CountInv`, the counters with the types of what they count |
| `EventsInOnePlace` | `~ResumeRunning` implies `Spec => []EventInOnePlace` (Sched) | `SchedInvariant` (below) |
| `QueuePositions` | `~ResumeRunning` implies `Spec => []PositionsKnown` (Sched) | `SchedInvariant` |
| `SchedTypes` | `~ResumeRunning` implies `Spec => []TypeOK` (Sched) | `SchedInvariant` |
| `CollectorIsAlone` | `Spec => []OneCollector` (DbPool) | `CollectInv`: `waiting` is set exactly when there is one thread in the collecting states |
| `BounceMissesNone` | `Spec => []BouncedAreStale` (DbPool) | `StaleInv`: an open connection of the last bounce is marked, or its handle has an older counter |
| `HandlesInOnePlace` | `Spec => []HandleInOnePlace` (DbPool) | `PoolInv` (below) |
| `PoolStaysSorted` | `Spec => []ConnectedFirst` (DbPool) | `PoolInv` |
| `PoolTypes` | `Spec => []TypeOK` (DbPool) | `PoolInv` |
| `PoolImplementsAllocator` | `Spec => GrantsAllOrNothing`: every behaviour of `DbPool` is one of `DbAllocator` under the refinement mapping | `PoolInv` |
| `QueuesOutliveReferences` | `Spec => []QueueReferences` (Jobs) | `JobsInv` (below) |
| `QueuesWithinLimits` | `Spec => []QueueLimits` (Jobs) | `JobsInv` |
| `JobsInOnePlace` | `Spec => []JobInOnePlace` (Jobs) | `JobsInv` |
| `PoolCountersExact` | `Spec => []PoolCounts` (Jobs) | `JobsInv` with `ThreadsInv` (below) |
| `JobTypes` | `Spec => []TypeOK` (Jobs) | `JobsInv` with `ThreadsInv` |
| `CacheTypes`, `CacheSizeAccounted` | `Hyps` implies `Spec => []TypeOK` and `Spec => []SizeAccounted` (Cache) | `CacheInv` (below) |
| `EvaluationsOwnTheirEntries` | `Hyps` implies `Spec => []UpdateOwned` (Cache) | `CacheInv` |
| `TransactionsIsolated` | `Hyps` implies `Spec => []Isolation` (Cache) | `CacheInv` |
| `WaitersHaveSomeone` | `Hyps` and `~TxDrops` imply `Spec => []WaitsForSomeone` (Cache) | `CacheInv` and `WaitInv` |

`FixedPool` is what `conn_fixed` instantiates: `minthreads = maxthreads`, no
shutdown, no change of the limits, and one caller or no `connsperthread`.  The
hypothesis is needed: without it `conn_v_assign` shows that the assert fails.
The lemmas on the hand-over are in `ConnPoolOwners`, the theorems in
`ConnPoolCounts`, where they meet the bound on `current`.

The first three theorems on `Jobs` need one invariant, because its parts hold each other
up: reference counts are exact (`Refs`) only if a running job and a waiting caller
refer to a queue that still exists, which needs who holds which lock (`Calls`,
`Locks`); a queue is deleted only without jobs, which needs the list of pending jobs
to be exactly the scheduled ones (`Pending`), the threads to run exactly the running
ones (`Runners`), and the jobs of waiting callers to be kept (`Waiters`).  The proof
has one lemma per command and per step of a thread; the ways out of a command
(`ReleaseQueue`) share the lemmas on `Leaving`, and the counts change by `RefCaller`
and `RefThread`, which follow from `CountUpdate`.

`ThreadsInv` has the counters of the pool of job threads, and that a thread which may
run a job has not used up `jobsPerThread`.  A step changes neither the
threads nor their counters (`QuietStep`, broadcasts included), or moves one thread
(`Moves`), or one caller to or from the creation of a thread.  That `maxThreads` is a sum over the queues, in whatever order they came,
is proved with the set of pairs of a queue and a number up to its `maxthreads`
(`Places`): its cardinality satisfies the equation that defines the sum, and a least
set of queues on which the two differ cannot exist (`SumIsPlaces`).

`SchedInvariant` has the array and the positions as inverse functions on the queued
events (`HeapsOf`), which every exchange keeps and hence every loop of the heap;
the queue, the lists, the event of `SchedThread` and those of the threads as disjoint
sets that hold all events which are allocated and not paused (`Placed`); and what is
known at each point of `SchedThread` and of a thread (`PhaseInv`, `ThreadInv`), from
which it follows that a freed event has left `eventsTable`.  `~ResumeRunning` (events
are resumed between their runs only) is needed: without it an event is queued twice.

`PoolInv` has the list, the arrays of the threads and the handles of each `CheckPool` as
lists in which no handle is twice, disjoint, and which together are all handles
(`Placed`); the order of the list; and what a thread has asked for, has got and is
putting at each point (`Request`).  That returning several handles keeps the order
and the places is proved for one (`ReturnHandle`) and carried over the loops.  For the
refinement, each action is shown to be the abstract request, grant, refusal or return
(`PutReturn` of the last handle included), or to leave the abstract state unchanged.

`CacheInv` says of every key what its entry may be (`KeyOk`): not in the cache; with a
committed value; with an uncommitted value that belongs to exactly one running
transaction, of the thread that wrote it; computed by exactly one thread; or left by
a wait that timed out.  Eviction and flushes spare the last two kinds, so the
entry of a running script stays.  Epochs of running transactions are distinct and not
above `transactionEpoch` (`StackInv`).  `Sized` is the sum of the sizes as it grows along
the LRU list, kept by removal and insertion at any place.  `CacheUpdates` first proves
what each function of `cache.c` does: it changes one entry (`Changed`) or drops some
(`Drops`), so that the lemmas on commands do not look into lists and sums.  `Hyps` is
`~Racy` (no two threads begin transactions at the same time) and that keys with an
expiry time are not written in transactions; `WaitsForSomeone` needs `~TxDrops` in
addition.  Section 3 shows for each of them what goes wrong without it.

Loops.  The models state a loop as a function of the number of its iterations.
`Counting` derives from the well-foundedness of the natural numbers that such a
function exists (`LoopExists`), and that what holds at first and is kept by one iteration
holds after each (`LoopKeeps`, `LoopIn`, with the property as a set so that the provers can
instantiate it).  The proofs on the heap, the lists of handles, eviction, flushes,
transactions and sizes apply them.

Only model-checked, and why:

- all liveness properties (the prover does not handle fairness and `ENABLED`);
- the heap order (`QueueOrdered`) and the absence of a deadlock (`NoDeadlock`), which the
  code does not keep (section 3).

## 5. What is not modelled, and why

- Reading and parsing of requests, headers, URLs, forms, dates and encodings,
  byte ranges, ADP pages, formatting and logging: conversions without shared
  state, for which a model would be a copy of the code character by character.
- System calls, OpenSSL, QUIC: what the modelled parts see of them is a
  nondeterministic outcome.
- Configuration and start: read once, before the threads exist.
- Statistics, names and log messages of the modelled parts.
- Shared-state components that have no module: writer threads, task queues and
  HTTP client, proxy pools, socket callbacks, connection channels, request limits,
  binder, watchdog, thread primitives, URL space, shared variables, log rolling,
  DNS and ADP caches.  They are independent of the five modelled ones, except that
  writers take over sockets from connection threads and the DNS and ADP caches use
  `cache.c`.  Mutexes and condition variables are taken as POSIX defines them.
- Of modelled parts: the mapping of requests to pools and rate limits; `ns_job`
  introspection; of `nsdb` the SQL interface and the pools' configuration; of the
  caches `ns_cache_create`, `ns_cache_names`, statistics, nested `ns_cache` commands
  inside a script of `ns_cache_eval`, and changes of `-maxentry`, `-timeout` and
  `-expires`.
