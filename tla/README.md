# A TLA+ model of CppCMS

CppCMS is a C++ framework for web applications that run as long-lived
processes. This directory models the parts of it whose correctness depends on
the order in which things happen, checks them with TLC on small instances, and
proves the most important properties with TLAPS for every size.

    tlc -config ThreadPool.cfg ThreadPool       # a model-checking run
    tlapm ThreadPoolProofs.tla                  # the proofs

`PROJECT.json` lists the runs, the lines of the source that every definition
translates, the hazards the properties are aimed at, one mutation per property
that the property detects, and the theorems. A definition whose name is that of
another one with a suffix (`Stop_NotifyOne` before `Stop`) is such a mutation.

## 1. The system and its parts

A process has one *event loop* (`booster::aio::io_service`) and one *thread
pool*. The loop accepts connections and reads requests; the *back ends* (HTTP,
FastCGI, SCGI) turn what they read into a request context; the context is
handed to an application, synchronously in the thread pool or asynchronously in
the loop; the response goes back through a stack of stream buffers. Requests
share the *cache* (in the process, in memory shared by pre-forked processes, or
behind a cache server) and the *sessions* (in the cookie, in memory, in files,
or behind a server).

| Part | State | Operations | What makes it hard |
|---|---|---|---|
| thread pool (`src/thread_pool.cpp`) | queue of jobs, rolling id, `shut_down_`, workers | post, cancel, worker loop, stop | lost notifications, racing workers, cancel of a job that starts, joins |
| event loop (`booster/lib/aio/src/io_service.cpp`) | dispatch queue, descriptors and their handlers, timers, `polling_`, `stop_`, interrupter | post, set/cancel I/O, set/cancel timer, stop, reset, run | calls from any thread, the window before `poll()`, handlers that call back, stale events, failures of `select()` and `poll()` |
| deadline timers (`booster/lib/aio/src/deadline_timer.cpp`) | `event_id_`, `srv_` | async_wait, cancel, waiter, reset_io_service | expiry against cancel, reuse of ids |
| cache (`src/cache_storage.cpp`) | entries, LRU list, timeouts, triggers, counters, generation | fetch, store, rise, remove, clear, eviction | linked indexes, readers that write the LRU list, failing allocations |
| cache over IP (`src/cache_over_ip.cpp`, `src/tcp_*.cpp`) | first-level cache, connections, server | fetch with revalidation, store, rise, clear, retry | races of fetch and rise, retries, server restarts, partial broadcast |
| sessions (`src/session_*.cpp`) | data, flags, cookie, record in a storage, timeouts | load, save, clear, renewal of ids, garbage collection | concurrent requests of one session, crashes between steps, files under locks |
| applications pool (`src/applications_pool.cpp`) | idle applications, counters | get, put, prepopulate | limits, applications of threads |
| context and response (`src/http_context.cpp`, `src/http_response.cpp`) | request phase, output devices | dispatch, complete, write, finalize | end of response exactly once, write order |
| connections (`src/cgi_api.cpp`, `src/http_api.cpp`, `src/fastcgi_api.cpp`, `src/scgi_api.cpp`) | parser and buffer state, pending output, watchdog | read headers and content, write, keep-alive, time-out | callbacks exactly once, time-outs against progress |
| parsers (`private/http_parser.h`, `private/multipart_parser.h`) | automaton | consume | independence of the splitting into chunks |
| service (`src/service.cpp`, `private/prefork_acceptor.h`) | processes, signals, acceptors | run, fork, restart, shutdown | signals and dying children |
| allocator and hash map (`private/buddy_allocator.h`, `private/hash_map.h`) | free lists, buckets | malloc, free, insert, erase, rehash | structural invariants over long histories |

Forms, views, filters, JSON, XSS filtering, cryptography, localization, URL
mapping and the wrappers over system libraries convert data and have no control
worth a state machine; they are listed as not modelled in `PROJECT.json`.

## 2. Plan

Done: `ThreadPool` with `JobPool` and proofs; `IoService`, `DeadlineTimer`;
`MemCache` with `CacheContract`; `CacheOverIp`; `Session`, `SessionFileStorage`
with `SessionStore`, `SessionMemory`; `HashMap`, `BuddyAllocator`;
`ApplicationsPool` with proofs; `HttpConnection`.

To do:

1. The FastCGI and SCGI back ends, the forwarder, and the buffers above the
   output device (compression, copies for the page cache).
2. `HttpParser` and `MultipartParser` against reference definitions over all
   ways to split the input.
3. `Prefork` (workers, signals, shut-down), trigger recorders of the cache
   interface, the session storage over the network.
4. Proofs of the inductive invariants of `MemCache`, `HashMap` and `SessionMemory`,
   and of `ImplementsStore`.

## 3. The modules

### 3.1 ThreadPool, JobPool

Every critical section of `mutex_` is one action of `ThreadPool`: `Post`,
`Cancel`, the three outcomes of the section at the top of `worker()`
(`WorkerExit`, `WorkerTake`, `WorkerWait`), `Stop`, and one `Join` per worker.
A job runs between `WorkerTake` and `JobReturns`, outside of the lock. The
condition variable may wake up spuriously. A job is named by its ticket (the
number of posts before it), and its id is the ticket modulo `IdMod`, so that the
wrap of `job_id_` happens in the instance that is checked.

`JobPool` says what a user relies on, without mutex, condition variable or ids:
jobs are submitted, withdrawn or started in the order of submission, each at
most once, and none after the pool is closed.

### 3.2 IoService

The state has the names of the members of `event_loop_impl`; `wakeup` stands for
the byte in the interrupter's pipe, and `evs` for what `poll()` returned to a
thread that has not taken the lock yet. `timers_` merges the timer multimap and
its index: it maps a slot to deadline and handler. The slot a timer gets is any
free one, because the code picks it with a generator that is never seeded.

`run_one()` is split where it releases `data_mutex_`: `RunOne` (up to the first
item, or to `poll()`), `RunFunctor` and `ItemReturns` (an item of the queue is
executed, the next one is taken), `HandlerThrows`, `PollWakes`, `PollReady`,
`PollFails`, and `HandleEvents`. The constant `AnyThread` says whether the API
is called from other threads or only from handlers. The reactor is external:
`ReadySets` lets it report any subset of the events asked for, and errors.

### 3.3 DeadlineTimer

Timers on top of the loop. `WaitersCalled` is the effect of `waiter::operator()`
and is conjoined to the steps of the loop, since the waiter is called within
them. Timers are used from handlers of the loop. A timer may begin a wait at any
time, also before the waiter of an earlier one was called; `overlapped` remembers
the timers that did. The framework never does: its timers begin a wait in the
handler of the one before, and `PendingWaitIsCancellable` is about such use.

### 3.4 MemCache, CacheContract, MCMemCache

`access_lock` is a readers-writer lock. A fetch is three actions under the shared
lock (find, move to the front of the LRU list under `lru_mutex`, copy); `store`
and `rise` delete entries one `delete_node` at a time under the exclusive lock.
`Setup` is the template parameter with the constructor's limit. Where memory may
run short `EvictOne` may happen at any size, since `not_enough_memory()` depends
on the allocator; `StoreFails` is the handler of `bad_alloc`. `CacheContract` is
the contract of `base_cache`: a fetch returns a current entry of the key that has
not expired, `rise` removes every entry that depends on the trigger in one step,
and entries may be lost at any time.

### 3.5 CacheOverIp, MCCacheOverIp

The distributed cache as a whole: `cache_over_ip` with its first level, the
client, and the servers. A call is a sequence of requests; a request is sent,
handled by the server (`on_data_in`) and answered, and `ConnectionBreaks` may
happen at any point of it, upon which `messenger::transmit()` connects and sends
once more, either the request or, since it reuses the header, the answer it has
read in part (`no_request` at the server). `broadcast` goes from server to
server. `cluster` says which thread is in which process, which processes have a
first level, and how many servers there are. Both levels follow `CacheContract`:
their operations are atomic and entries may vanish at any time.

### 3.6 Session, MCSession

The requests of one browser: it sends its cookies, `load` reads the session, the
handler leaves some content in it and may ask for a new id, and `save()` is
`SaveEmpty`, or `SaveBegins` followed by the calls of the storage (`RemoveOld`,
`Store`, `StoreInCookie`) and the cookies of the response (`SaveEnds`,
`update_exposed`). `config` has the settings of section `session` of the
configuration. Time may pass between any two steps.

### 3.7 SessionFileStorage, SessionStore, MCSessionFile

Every system call on a session file is an action: `open`, `SetLock` (`fcntl`),
`stat`, `WriteHead`, `WriteBlock`, the reads, `unlink`, and the release of lock
and mutex. A file is its inode, so that a name can come to mean another file
while a process waits for a lock on the old one. `Crash` ends a process between
any two system calls; a mutex in shared memory stays locked then, and `Stuck` is
who waits for it. `SessionStore` is what a `session_storage` promises.

### 3.8 SessionMemory, HashMap, BuddyAllocator

Sequential data structures, whose operations run under a lock of their user.
`SessionMemory` is the map of sessions with its index by end of life and the
incremental collection `short_gc`. `HashMap` has the single list of all entries
and the table of the first and last entry of every bucket. `BuddyAllocator`
keeps the word `page::bits` of every unit of the memory, also where no page
starts, because `free_page()` reads the header of a buddy that may not be there;
`Scribble` lets owners write anything into their memory.

### 3.9 ApplicationsPool

The two policies for synchronous applications. A request arrives
(`application_requested`), fails or is submitted to the thread pool, and a worker
gets an application, runs it and puts it back. `pending_` is an unsigned counter
that wraps below zero at `Word`.

### 3.10 HttpConnection, MCHttpConnection

One connection of the embedded HTTP server from accept to close, through all the
layers that share its state: `http` and the watchdog (`src/http_api.cpp`), the
base class `connection` (`src/cgi_api.cpp`), the context (`src/http_context.cpp`)
and the output device of the response (`src/http_response.cpp`). `conn` has the
members of the connection, `resp` those of the device, `loop` what the event loop
holds of the connection, and `pc` says where the request is.

The client sends units of requests, possibly the next request before it has the
answer, stalls or goes at any time. A read takes any number of the units that
have arrived, and a write sends any number of tokens, so that all partial reads
and writes happen. A handler of the loop is one action: `Readable`, `Writeable`
and `check` for what the loop waits for, `Posted` for what is in its queue. The
functions that handlers call (`some_headers_data_read`, `parse`, `load_content`,
`on_some_content_read`, `write_ended`, `run`) are operators under the names of the
source. Functions that write return the set of their outcomes (`nonblocking_write`,
`write_to_socket`, `write`, `async_write`, `device_write`). The application writes
units, flushes and completes, in a worker or in the loop.

`async_on_peer_reset` and `handle_eof` are in `PeerSpec` only.

### 3.11 MCParts

Six specifications that do not interact, in one: the applications pool, the hash
map, the allocator, the sessions in memory, and the calls of the cache servers
and of the session files with their fairness, the latter with locks of files and with
mutexes that the processes share. A behaviour belongs to one of them,
which `which` names.

## 4. Runs

| Run | Instance | Shows |
|---|---|---|
| `ThreadPool` | 3 workers, 4 posts, ids modulo 3 | safety of the pool; it implements `JobPool`; queued jobs are served, `stop()` returns |
| `IoService` | 1 thread in the loop, callers on any thread, 2 descriptors, 2 handlers, 2 timer slots | a handler is in one place and called once; interest matches handlers; no lost wakeup; queued items are called, timers go off, `stop()` ends `run()` |
| `DeadlineTimer` | 2 timers, 3 waits, which may overlap | a wait can be cancelled until it expires if the waits of its timer follow each other; a cancelled wait completes |
| `MemCache` | 2 keys, 2 readers, 3 stores; three kinds of cache | indexes, limit, found entries, generations, contract |
| `CacheOverIp` | 2 threads, 1 key, 2 stores; three kinds of cluster | a fetch returns what the server has, and nothing that was invalidated before it began |
| `SessionFile` | 2 or 3 threads in 2 processes, 3 or 4 calls, 1 crash | who works on a file owns it; implements `SessionStore` |
| `Session` | 1 browser, 3 configurations | sessions are kept while they live, renewed in time, leave no orphans; exposed keys are seen |
| `Parts` | 3 workers, 5 requests; 5 keys with colliding hashes; 7 units of memory; 4 sessions; small instances of cluster and session files | the applications pool suffices and an application is in one place; the structures stay consistent over every history; calls of the cache servers end, and so do those of the session files unless they need a shared mutex whose owner died |
| `HttpConnection` | 2 requests of 3 and 4 kinds, answers of up to 2 units | answers are whole and in order, requests are told apart, the watchdog looks at the connection when it waits for the client and only then, every connection ends |
| `DeadlineTimerReuse`, `CacheOverIpRestart`, `HttpPeerReset` | smallest instances | three places where the code does not do what its documentation says (section 6) |

The type invariant of a module is checked on its own where it is proved, and as
the first conjunct of another invariant elsewhere.

Where a component comes in several configurations, the configuration is a
variable that `Init` chooses and no step changes.

Bounds. `IdMod` is smaller than `MaxPosts`, so that ids collide. Two descriptors
and two handlers let one descriptor have both directions armed or two of them
fire at once; a handler is handed over once, and `DeadlineTimer` takes the names of
handlers in a fixed order. In `MemCache` a store
may bring a trigger that is the key of the other entry; the limit is one, so that
evictions happen, in one kind and none in the others. Two stores of one key
suffice for an outdated and a current copy. Four calls of the session files let a
file be created, removed and created again while its lock is awaited. The clock
of the renewed session jumps so that it reaches the last tenth of the timeout.
Memory of 7 units has three chunks, and levels that can be split twice. Five
requests are more than workers, and `pending_` wraps at 8. Two requests on a
connection let the second arrive in one read with the first; the kinds of the
first have content or none, keep-alive or not, and both versions of HTTP, those of
the second have headers beyond the limit, a bad line or a bad method. Answers of
two units can be chunked, with the end in a packet of its own, and can be cut by a
partial write. One tick reaches the timeout and two exceed it.

Fairness. Workers and loop threads are scheduled, jobs and handlers return, and
the clock advances (weak fairness of each thread's steps). A request that is sent
over a connection that does not break is answered. The threads that use session
files go on, and a lock that is free again and again is obtained (strong fairness
of the mutex and of `fcntl`, which queue their waiters). For a connection, the
loop calls what is posted, the watchdog's timer goes off, and applications go on.
Nothing is assumed of a client that sends or takes data, of callers, of descriptors
becoming ready, of spurious wakeups, of connections that break, or of processes
that die.

Deadlock is not checked where the bounds on calls, on the clock or on session ids
end every behaviour (`SessionFile`, `Parts`, `Session`), and where a connection is
closed (`HttpConnection`, `HttpPeerReset`).

## 5. Proofs

`ThreadPoolProofs` proves for any number of workers, any width of the id and any
number of posts: type correctness, `JobsConserved` and `StartedInOrder`,
the three properties about wakeups and joins, `NoStartAfterShutDown`, and that
the pool implements `JobPool`. `JobsConserved /\ StartedInOrder` is inductive
together with the type invariant (`JobsInv`). The wakeup property is not: that a
waiting worker implies enough awake ones needs, for a worker that goes to sleep,
that the queue was empty, and for one that takes a job, that queue and awake
workers shrink together; `AwakeCounts` states how the number of awake workers
changes. Facts about sequences are in `SequenceLemmas`. The only assumption is
`PoolAssumption` (at least one worker, at least one id).

`ApplicationsPoolProofs` proves for any number of workers, requests and failures:
type correctness, `OnePlace`, and `PoolSuffices`, which is `RoomForAll` (for `put()`)
with `NeverEmpty` (for the legacy `get()`). `StepShapes`
reduces every step to one of five ways to create an application or to hand it
over. `OnePlace` is inductive with the type invariant. `NeverEmpty` is not, since
`pending_` counts requests that failed long ago and may wrap: `EnoughApplications`
adds that the legacy policy knows the number of its applications, and that as
long as it may create more there is an idle one for every request on its way, so
that `get()` never decrements a zero before that; afterwards there are as many
applications as workers, and `pending_` no longer matters. Assumed
(`AppsAssumption`): finitely many workers, and a counter with at least one value.

Only model-checked: liveness, which is out of reach of the prover, and everything
about the other components.

## 6. Where code and documentation disagree

Kept as runs:

* `deadline_timer::cancel()` after the expiry, but before the call of the waiter,
  can cancel the wait of another timer (`DeadlineTimerReuse`).
* After a restart of a cache server a first-level cache may return what was
  invalidated (`CacheOverIpRestart`).
* The handler of `async_on_peer_reset()` may be called after
  `async_complete_response()`: the end of the response closes the socket, which
  cancels the read that waits for the client to go, and its error code is ignored
  (`ignore_binder`), so that the handler is called all the same (`HttpPeerReset`).

Seen in the models, and not kept as runs:

* `io_service::stop()` does not reach every thread in `run()`: the first thread
  that returns from `poll()` clears `polling_`, and a `stop()` then wakes nobody.
* `cancel_io_events()` from a handler misses a `set_io_event()` that waits in the
  dispatch queue.
* `deadline_timer::reset_io_service()` does not cancel the pending wait.
* A timer that begins a wait after `cancel()`, but before the waiter of the
  cancelled wait is called, forgets the new wait: the late waiter sets `event_id_`
  to -1 (`deadline_timer.cpp:85`), and the next `cancel()` does nothing, although
  `deadline_timer.h` says that "The active handler is immediately scheduled for
  execution". `PendingWaitIsCancellable` without `overlapped` shows it in five
  steps. The framework has no such use.
* A process that dies within a call of the session files leaves the mutex of the
  session id locked, where the processes share the mutexes (more than one process
  and no forced file locks): `create_mutex()` does not make them robust. Every
  later call for a session of the same position, of any process, waits forever.
  `FileCallsEnd` without `Stuck` shows it.
* With `session.expire = renew` the cookie of an exposed key that does not change
  expires before the session.
* A request that loaded a session before a concurrent one deleted it creates the
  record anew.
* A pool that is mounted again with `app::prepopulated` while a request runs is
  filled without regard to the running application.
* `async_read_eof()` of the HTTP back end adds the connection to the watchdog
  without `update_time()`, and its read may take a byte of the next request.
* An application that announces a Content-Length and writes less leaves the client
  waiting on a connection that is kept alive: only an excess is noticed.

## 7. Abstractions

The bytes of the interrupter are one flag: `clean()` reads up to 64 of them, and
what it leaves only causes one more wakeup. Payloads, error codes and times are
small sets. The allocations inside `fetch()` and in the two `rehash()` of
`nl_clear()` are assumed to succeed (see the hazards): `nl_clear()` is one step that
cannot fail. `MaxPosts`, `MaxTime`, `MaxCancelers`, `MaxStores`, `MaxRises`,
`MaxRequests`, `MaxPending` and the bounds in configurations are bounds of the
instances and have no counterpart in the code.

A timer that was detached from its service is not attached again. A connection
that breaks takes its unread requests with it. What a retried request carries
besides its opcode, and a store with an empty trigger name, are left out of
`CacheOverIp`. The check-sum of a session file is taken to detect every torn
content, and its header is written in one step. `Session` leaves out CSRF tokens,
the per-session `age()`, `expiration()` and `on_server()`, lost responses and
errors of the storage, and has one request at a time. `BuddyAllocator` does not
allocate zero bytes. In `ApplicationsPool` factories never return null, `recycle()`
does not throw, and nobody keeps an application beyond its request.

`HttpConnection` leaves out the text of requests and answers: a malformed request
line, a bad method and headers beyond the limit are kinds of a request. Content
filters, the forwarder, raw mode, compression, the copy for the page cache and the
save of the session in `out()` are left out, and so is a flush with nothing to
flush. The application writes as much as it announces, and it does not write while
a flush is outstanding: `AppWrites` waits for the handler of `async_flush_output()`.
(The code does not enforce this: what `async_write()` has handed to its handler could
then be overtaken by a later `nonblocking_write()`.) After a failed write every
later one fails, as with TCP. There is one peer-reset handler per connection.
