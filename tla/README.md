# A TLA+ model of python-nng

python-nng is a Cython/C++ binding of the nng messaging library. nng does the
messaging; what the binding adds, and what can go wrong in it, is the passage
between three worlds that run at the same time:

* nng's own threads, which complete operations and report connections, and
  which hold no GIL;
* Python threads, which hold the GIL only some of the time (and never on a
  free-threaded interpreter, which the extension declares to support);
* asyncio event loops, which are single-threaded and must be woken.

These modules model that passage, and the larger programs that the repository
builds on it: a REP server that keeps a conversation with every client, secure
REQ/REP and PAIR sockets with the subscription service that combines them, and a
thread pool over PUSH/PULL. The nng library itself (an empty submodule in
the repository) is external: it is modelled from how the code uses it.

## 1. Inventory

| Component | Source (under `src/nng/`) | State | Operations | Correct when |
|---|---|---|---|---|
| GIL-aware mutex | `_mutex.pxd`, `_nng.pyx` 50-90 | owner, count | `lock`, `try_lock`, `unlock`, `lock_gil_friendly` | it excludes, nesting is balanced, it never deadlocks with the GIL |
| Wakeup queue | `cpp/platform.hpp` | deque of op ids, bytes in a socket pair | `push`, `drain_wakeup`, `drain_ready`, `get_ready` | no id waits without a wakeup; order is kept |
| asyncio operations | `_aio_async.pxi`, `_socket.pxi`, `cpp/platform.hpp` | per loop: a manager with a dict of callbacks; per operation: nng aio, future, skip point | `asend`, `arecv`, poll callback, `release`, `Socket.close` | each await ends, once, with what really happened |
| Pipe tracking | `cpp/pipe.hpp`, `_socket.pxi` | collection of handles, "had events" flag, list of `Pipe`s | pipe events, `update_pipes`, callbacks, `Pipe.close`, `Socket.close` | the list is right when nothing waits; removals are reported |
| Dispatcher and library life cycle | `_nng.pyx`, `cpp/dispatch.hpp` | deque, condition variable, `_stopped`, the thread | `push`, `drain`, `check_nng_init`, `_nng_fini` | every completion is dispatched; stop and restart work |
| concurrent.futures operations | `_aio_cb_sync.pxi`, `_socket.pxi`, `_context.pxi` | aio, future, strong reference kept by the aio | `submit_send`, `submit_recv`, cancel | each future is resolved once; the operation outlives its callback |
| PROACTOR and FALLBACK modes | `_aio_async.pxi` | a drain thread, or the dispatcher | as POLL mode | as POLL mode |
| Blocking operations | `_socket.pxi`, `_context.pxi` | one aio per call | `send`, `recv` | a signal or a timeout hands the message back or frees it |
| Message ownership | `_message.pxi`, `cpp/message.hpp` | pointer, views | `_steal_ptr`, `_restore`, buffer views | one owner at all times |
| Pipe filters | `cpp/pipe_filter.hpp`, `_pipe_filter.pxi` | `FirstWinsFilter`: its anchor | `allow`, `reset`, combinators | masks and ports are right at their boundaries |
| Contexts | `_context.pxi` | as a socket | as a socket | as a socket |
| Dialers, listeners | `_dialer.pxi`, `_listener.pxi` | handle | `start`, options | `start` ends in `update_pipes` |
| TLS, errors, enumerations | `_tls.pxi`, `_errors.pxi` | none of their own | wrappers and tables | - |
| Protocol sockets | `_socket.pxi` | `close_on_disconnect` of `PairSocket` | open, options, `_on_pipe_removed` | a disconnect closes the socket |

The example applications (under `src/examples/`):

| Component | Source | State | Operations | Correct when |
|---|---|---|---|---|
| Conversation server | `REP-REQ/conversation/server.py` | per context a dispatch task, per pipe a manager with a `Queue` of size 2, `_clients` | `_recv_dispatch`, `_dispatch`, `arecv`, `asend`, `_disconnect`, `_execute` with its `finally`, the done callback | a waiting context has one manager that releases it; conversations do not mix |
| Calculator and its client | the same, `client.py` | accumulator, the session's place in its script | `conversation`, `_handle_command`, `run_session` | a session computes what it would alone, or is told to start again |
| Secure REQ/REP sockets | `PAIR/secure_subscriber/secure_sockets/` `secure_rep.py`, `secure_req.py`, `security_utils.py`, `protocol_utils.py` | the session box, the phase of the handshake | handshake, encrypted `asend`/`arecv`, time-out | a conversation starts behind a verified confirm only |
| Secure PAIR sockets | `secure_pair.py` | box, token, sequence number | create, `serve_client`, `connect`, `stream` | events reach the subscriber, in order |
| Subscription service | `PAIR/secure_subscriber/` `server.py`, `client.py`, `common.py` | a PAIR socket per subscription, two TaskGroups | subscribe, stream, the ends of both programs | nothing with a task is left behind |
| Thread pool | `PULL-PUSH/threadpool/threadpool.py` | `_pending`, the next id, `_shutdown`, a PUSH socket, a PULL socket per worker | `submit`, `map`, `shutdown`, `_worker_loop` | each item runs once; `shutdown` comes back to a quiet pool |
| Service discovery, logging, several servers, parallel requests | `RESPONDENT-SURVEYOR/`, `PUB-SUB/`, `REP-REQ/multi_clients_servers`, `REP-REQ/parallel_requests_async` | - | - | not modelled yet |
| TLS, simple and dual channel examples, benchmark, stub generator | `TLS/`, `PAIR/simple` ..., `stubs/generate_stubs.py` | - | straight-line programs | not modelled |

How they interact:

* *calls*: every Python method enters under one of the mutexes, taken with
  `lock_gil_friendly`; `asend`/`arecv` call nng with the GIL released;
* *callbacks from nng*: the completion trampoline (`DispatchQueueContainer::fire`)
  and the pipe trampoline run on nng's threads, touch only C++ state and wake a
  Python thread;
* *messages*: op ids through the socket pair to the event loop, sentinels
  through the condition-variable queue to the dispatcher,
  `call_soon_threadsafe` from a closing thread to the loop;
* *shared state*: the manager's dict, the cache `_aio_managers`, the
  `PipeCollection`, the list of `Pipe`s, the futures.

In the applications the actors are tasks of one event loop (an action is what runs
between two awaits), the callbacks about pipes that reach the loop later, the
programs at the other end, and, for the pool, threads.

The hard behaviours are the overlaps: a completion that races the submission,
a close that races both, ids (addresses) that outlive their operation, a flag
cleared before the data it stands for is copied, a lock that is retried without
a reservation. `PROJECT.json` lists them as hazards, each at its line.

## 2. Modules

| Module | Models |
|---|---|
| `GilMutex` | `DCGMutex` + `lock_gil_friendly` |
| `GilMutexProofs` | its theorems |
| `SockQueueOps` | the queue's operations, shared by the next two |
| `Mailbox` | abstract: what a wakeup queue promises |
| `FdDispatchQueue` | the queue against the poll callback; implements `Mailbox` |
| `FdDispatchQueueProofs` | its theorems |
| `AsyncOps` | `asend`/`arecv` in POLL mode with `Socket.close()`; uses `SockQueueOps` |
| `AsyncOpsProofs` | its theorems |
| `PipeTracking` | the pipes of a socket, the dispatcher and user threads |
| `PipeFilters` | the filters that admit or reject a connection |
| `PipeFiltersProofs` | its theorem |
| `ThreadOps` | blocking and submitted operations, the dispatcher thread, the library's life, message ownership |
| `ThreadOpsProofs` | its theorems |
| `RepServer` | the REP server with contexts and managers, whatever the conversation; used by the next and by `SecureRep` |
| `Calculator` | `RepServer` with the calculator's conversation and its sessions |
| `CalculatorProofs` | theorems about both |
| `Handshake` | the three messages and the box of the secure sockets, with ideal cryptography |
| `SecureRep` | `RepServer` with the handshake and encryption, and the REQ client |
| `SecurePair` | the two ends of a secure PAIR socket |
| `Subscription` | server and client programs: `SecureRep` composed with an instance of `SecurePair` |
| `SubscriptionProofs` | theorems about the three |
| `ThreadPool` | the pool, its workers, the threads that submit and map |
| `ThreadPoolProofs` | its theorems |
| `MC*` | instances for TLC; `.cfg` files give the constants |

The operators named `Mutant_...`, and those marked "variant" in front of a
definition, are plausible slips in the code. No action uses them; substituting
one for the definition it imitates shows that a property notices the slip.

### GilMutex

`owner` and `count` are `owner_` and `count_`; each atomic operation on them is
one action, so a thread can be stopped between the compare-and-swap and the
store of the count. `gil` is the thread that holds the GIL; `NoGil`, chosen in
`Init`, stands for an interpreter without one. A critical section may lose the
GIL (`ReleaseGil` with `depth > 0`): the code does enter `with nogil` blocks
and call Python with a mutex held. The slow path (`spin`, `probe...`, `back`) locks without the
GIL, unlocks, takes the GIL back and tries again, reserving nothing.

### SockQueueOps and FdDispatchQueue

A queue is a record of the deque and the number of bytes in the socket pair.
`push` is two steps: `PushBack` under the mutex, `SendByte` after it. The
poll callback is four: `Select`, `Recv` (bytes), `Ready` (ids), `Handle`. The
variant with an eventfd is compiled out, since its `#ifdef` names `__linux__d`.

### AsyncOps

One `Socket`, one event loop, `Slots` operations. `op` is the Python object
with its future and coroutine, `aio` the nng side with the skip point, `mgr` the
managers, `loop` the loop thread's place in the code, `soon` what
`call_soon_threadsafe` has scheduled and `close` the one call of
`Socket.close()`. A slot is an address, because the queue carries
`id(op)`: `Free` makes it available again once nothing refers to the old
operation, exactly as long as CPython would keep it.

* The poll callback keeps the ids it drained in `loop.batch` and the callbacks it
  popped for them in `loop.cbs`; the id of an operation that is no longer in the
  dict has no callback.
* `Submit` and `SkipPoint` on the loop race `Fire` on an nng thread; whoever is
  second takes care of the completion.
* `close` runs on the loop (`"loop"`), on another thread of an interpreter with
  a GIL (`"thread"`), or without one (`"freethread"`). With a GIL another
  thread runs only where the loop thread can lose it; `GilAvailable` says
  where. Between the manager's look-up and the nng call there is one Python
  call, `create_future()`, and it is made under the manager's lock, so a close
  cannot pass there either. (`asend` of a `Message` also calls `_steal_ptr()`, whose
  `lock_gil_friendly` drops the GIL if another thread is in that `Message`; the
  model has no `Message`s and leaves that out.) It can pass at `getmgr`, in the slow path of
  `lock_gil_friendly`, when another loop's thread holds `_aio_mgr_mutex`.
* The data passed to `asend` is taken to be valid: a `TypeError` for bad data is
  raised before the operation is registered and changes nothing here. A buffer
  exported by Python code (`__buffer__`) could lose the GIL at that point; it
  is not modelled.
* External, from nng's interface: a fresh aio is not busy and its result is 0;
  `nng_aio_busy` holds until the callback has returned; `nng_aio_stop`,
  `nng_aio_cancel` and `nng_socket_close` end what is outstanding; an operation
  on a closed socket ends with `NNG_ECLOSED` through its callback.
* `create_aio_for_socket`, `_prepare_submit`, the nng call and the skip point
  are separate actions although a GIL would run some of them together: what a
  GIL forbids is in `GilAvailable`, so that one model serves both builds.

### PipeTracking

`coll` is the `PipeCollection`, `status` the status in each `PipeHandle`,
`known` a `Pipe`'s `_last_known_status`, `sock.pipes` the list. An nng event is
two steps, the collection's update and the sentinel (`PushSentinel`).
`update_pipes` is three under `_pipe_mutex` (`UpdateLock` clears the flag,
`UpdateGet` copies the handles, `UpdateReconcile` merges the lists) and one per
callback after it. Handles are `<<pipe, n>>`, because `handle_event` makes a
second handle when ADD_POST finds none, which happens when `close()` clears the
collection between the two events. Socket.close() is three steps.

Every `Pipe` the program knows can be given an `on_status_change` at any time
(`SetOnStatusChange`), and `on_new_pipe` is modelled as a function that does so, the use
the documentation shows. The setter stores the callback whatever the status:
a callback that comes after the removal was taken over is never called, which `missed.late`
records; `missed.dropped` has those that `close()` was handed and dropped. A pipe
filter's answer is an arbitrary choice here. `CloseNng` is one step for three
`nng_pipe_notify` calls and the close of the nng socket: events that nng reports
between them come before or after it here.

### PipeFilters

What the filter answers, and how a `FirstWinsFilter` changes by being asked. A
filter is a record whose `op` is its class; `Allows(p)` is `allow()` of every
filter for the peer `p`, and `AsksFirstWins(p)` says which filters come to
ask the `FirstWinsFilter`, as `&` and `|` stop at the first child that settles
the answer. The actions are `AddPre` (a connection), `SetFilter`
(`Socket.pipe_filter = ...`) and `Reset`. The `FirstWinsFilter` is one object that
stays as it is when filters that contain it are exchanged. `last`, `anchor` and
`group` are history: the last decision, the one in which the filter locked on,
and those it has let through since.

* `IpFilter`, `PortFilter`, `PidFilter` and `Combination` say which arguments the
  constructors accept; TLC checks them as an assumption on `Filters`.
* `NetworkAddress` is what `ip_network(strict=False)` does (host bits cleared),
  `NetworkOrder` is how a little-endian host reads a port in network order.
* The width of a byte is a parameter, so that all addresses can be enumerated.

### ThreadOps

Threads that call `send`, `recv`, `submit_send` and `submit_recv` on one
`Socket`, with one shared `Message`. `call` holds the frames of the calls, their
futures and the owner of their `nng_msg`; `aio` the nng side; `queue` and `reg`
are `_DISPATCH_QUEUE` and the keys of `_DISPATCH_CALLABLES`; `disp` the place of
the dispatcher thread in `_aio_dispatch_loop` and the operation whose callback it
runs; `lib` is `_nng_initialized`, `_stopped` and the progress of `_nng_fini`;
`msg` the `Message` with its count of exported buffers. A slot is a call, and for
`submit_*` the address that its id is.

* `ptr` says who owns an `nng_msg`: the call and its aio, nng, the `Message`, the
  user (what `recv` returned), or nobody any more. Every path that ends a call
  sets it: success, error, a signal before or after the completion, a close.
* `Call` is a method up to its nng call. The parts that another thread could see
  (the `Message` is emptied under its lock, the operation is registered) touch
  nothing that is shared between them, so they are one step. `NngCall` is the nng
  call, made without the GIL.
* `Signal` and `SignalRaise` are the two halves of the `except` clause around
  the wait loop. nng may complete the operation before the first of them.
* `Cancel`, `OnFutureCancel` and `CancelReturns` are `Future.cancel()` with its
  done callback. `DispComplete` and `DispSet` are separate, because the future
  can be cancelled between `done()` and `set_result()`. A cancel issued by a
  callback that runs on the dispatcher thread is not modelled.
* `FiniStop`, `FiniJoin` and `FiniClear` are `_nng_fini`; `lib.late` records that
  `join(timeout=2.0)` gave up. Clearing the callbacks, the collection and
  `nng_fini()` are one step. No call starts after the stop, as the
  program is exiting, and a second initialisation is not modelled.
* All nng errors are `"error"`: no property tells a timeout from a closed socket.
* Operations on a `Context` differ only in the nng function that is called.
* `Gil` is a constant. `CompletionDelivered` needs it: `is_stopped()` reads
  the flag after the last `get_ready()`, and without a GIL a push and a stop can
  both come in between. The id stays in the queue, although `dispatch.hpp` says
  that the thread exits "once the queue is drained".

### RepServer and Calculator

A pipe is `<<client, n>>`, the client's n-th connection; a manager is `<<pipe, n>>`,
since a pipe can have several managers one after the other. `ctx[k]` is the
dispatch task of context `k`: it receives, has got a request, or waits for the
event that a manager sets. `mgr[m]` is the manager with its inbox, the context in
its hand (`cur`), the one in its running `asend()` (`snd`) and the conversation's
own state (`app`). `reported` holds the pipes whose removal has reached the loop:
between the closing of a pipe and that callback, requests of the pipe are
dispatched as if it were open.

* `Dispatch` has the three exits of `_dispatch()`: a manager that has stopped, a
  second message in hand (the pipe is closed), the inbox.
* `Execute_finally` is the whole `finally` block, with the release of every context
  the inbox still holds.
* `TaskDone` pops whatever manager the pipe has, as the callback does.
* `RecvDispatchNoPipe` is a request whose `msg.pipe` is None. In the code a pipe that came
  and went between two updates gives None too; here only a reported pipe does, as the
  model follows no updates. The answer goes nowhere in either case.
* A scenario is a script for each session and a number of faults, chosen in `Init`.
* The REQ side is external: it repeats an unanswered request on a new connection
  (`Connect`) or after its resend time (`Resend`), and discards late answers.

### Handshake, SecureRep, SecurePair, Subscription

Cryptography is ideal: what a random generator returned is not returned again, a
signature verifies for its signer and text, a box opens what was closed with the
same two keys. The order of the signed values is kept, as it is what tells the two
sides' signatures apart. The parties follow the code; that is a model of the
protocol's own logic, not of its resistance to strangers.

`_execute()` catches `ConnectionResetError` only. Any other exception (`Raise`)
leaves the task and ends the TaskGroup with all its tasks; `down` records why.
`InHandshake` is where the time-out of the handshake can strike. A client has one
pipe, as the code closes the socket when it sees a second.

`Subscription` gives each conversation a PAIR socket per request: `Conversation`
binds it, `Conversation_sent` starts its task, and a failed answer leaves the bound
socket without a task. `Crash` is a client program that stops at any moment. Binding
always succeeds: `pick_pair_addr()` gives a free port back before it is used
(`protocol_utils.py` 82-85), and an address that somebody else takes in between would
leave `conversation()` as `NngAddrInUse` and end the server.

### ThreadPool

`usr` holds the threads that submit or iterate over `map`, `own` the one that calls
`shutdown`, `wrk` the workers with their PULL sockets, `push` the PUSH socket with
its buffer, `pending` the dict `_pending` from call ids to futures. A worker has one message that nng delivered ahead (`slot`), and one in
its hand (`id`). `submit` is four steps (`Submit_check`, `Submit_id`, `Submit_store`,
`Submit_send`), because `shutdown` can come between any two. `Worker_register` is the
assignment of the callback, which comes after the start of the dialer: a removal
that was reported before it is never told (`late`). A future that is
cancelled while its function runs kills the worker (`killed`).

`map` lowers `send_buf` of the socket that all users share, below what they may have
queued. The binding does not say what nng does with ids that no longer fit, so
`Resized` lets it keep them or flush the last ones (`push.flushed`). With
`buffersize=None` the buffer stays as it is (`NoBuffersize`); a value above the
maximum, or a closed socket, makes the setter raise (`Map_raises`).

## 3. Runs

| Run | Instance | States | What it shows |
|---|---|---|---|
| `gil_mutex` | 3 threads, 2 acquisitions per section | with and without GIL | exclusion, balance of the count, no GIL deadlock |
| `fd_queue` | 3 operations, 2 bytes | all overlaps | no lost wakeup, one wakeup, refinement of `Mailbox` with its liveness |
| `async_ops` | 2 slots reused, send and recv, all three closers | 1.8 million | see below |
| `async_live` | 2 slots, send, with a GIL | 0.2 million | ended calls return; close ends all calls and removes the readers |
| `async_false_success` | 1 slot | violation | disagreement 1 of section 4 |
| `pipes` | 2 pipes, dispatcher + user | 2.5 million | list right when quiet, removals reported, or missed for one of two reasons |
| `pipes_live` | 2 pipes, dispatcher | 80 thousand | no event missed, close_on_disconnect closes |
| `filters` | bytes of 2 bits, 112 IP filters, 5 combinations, 7 key masks | 45 thousand | IP filters against the numbers, anchors were accepted |
| `thread_ops` | 2 slots reused, 5 programs, 1 buffer | 0.2 million | futures have one resolver, messages one owner, outcomes are true, interrupted calls return, the queue is drained before the exit |
| `conversation` | 2 sessions, 2 contexts, 2 connections each; all commands of `client.py`, or 1 fault | 0.48 million | slots have one holder, inboxes fit, sessions compute alone, everything settles |
| `subscription` | 2 clients with either key, 2 contexts, different topics, 2 events | 0.22 million | authenticated conversations, events to their subscriber in order, nothing left behind |
| `thread_pool` | a thread that submits, one that maps with three `buffersize`s, 2 workers, a buffer of 1 | 0.6 million | one way to each future, a quiet pool after `shutdown`, items settle, `shutdown` returns |

`async_ops` checks that an awaited future always has somebody who will resolve
it (with a GIL), never two (with or without), that a queued id always
names the operation that has this address now, and that a success is a real one
when the loop closes its own socket. The properties with a suffix `WithGil`,
`OnLoop` or `UnlessMissed` are the part of a stronger property that holds; the
violation run, or the lists in section 4, show the rest.

The type invariants (`TypeOK`) and `GroupAgrees` are not in the
runs: they are proved (section 5) for the modules that have theorems about them.

`conversation` and `subscription` ask of the same server two different questions:
whether its books stay right when requests are repeated and connections break, and
whether the layers above it keep what they promise when every exception counts.
`ServerSettles`, `SubscriptionsSettle` and `SubmittedIsSettled` say what must be
reached and kept; each names the exceptions that the code has (a manager started by
a request that came after its pipe's removal, a TaskGroup that ended, a killed worker,
ids that nng flushed).

### Bounds

* *Three threads* for the mutex: an owner, a waiter in the slow path and one
  that barges in between the waiter's unlock and its retry. *Two acquisitions*:
  a lock and a nested one; `MaxAcquire` is a parameter of the theorems.
* *Three operations* for the queue: one in the batch, one in the deque, one
  being pushed. `SockBuf = 2` is one more than is ever needed, so a
  superfluous byte would be seen. The theorems hold for any of both.
* *Two slots* in `AsyncOps`: a slot's operation and another that shares its
  manager and its queue; reuse gives sequences of calls of any length. *Two
  managers* (`Mgrs`): the one `close()` releases and the one a late call makes;
  no third can come, since `_check` fails after `close()`.
* *Two pipes* and *two threads* in `PipeTracking`: two list entries of which
  either goes first, and two updates at once, or an update and a close. Each pipe has a
  finite life, so the model ends; its runs do not check deadlock.
* *Two slots* in `ThreadOps`: two callers that compete for the `Message`, or one
  that reuses the address of the other. `Plans` is a set of programs, each giving
  every slot its calls, rather than all pairs of calls: together they have
  every kind of call, two that want the `Message`, and two in the queue at once. *One buffer* (`MaxViews`): the code tests the count against 0.
* *Bytes of two bits*, IPv4 addresses of two bytes and IPv6 addresses of three in
  `PipeFilters`: every address against every network and prefix, with prefixes
  below, at and above a byte's edge. Peers of the combinations differ in one key
  each, and two transports have no IP address, or no pid.
* *Two sessions, two contexts* in `Calculator`: one session can occupy a context
  while the other one's manager ends. *Two connections*: before and after the break.
  *Two managers per pipe*: the one that ended and the one that a late request starts;
  `MaxManagers` would only be met by a third late request on one pipe. *Two scenarios*: the
  sessions A and B of `client.py` in full, whose values an assumption compares with
  the comments there, so that two accumulators change next to each other; and
  two short sessions with *one fault*, a break or a repeated request at every moment.
  Both at once are too many states. Theorems cover the rest.
* *Two clients, one topic each* in `Subscription`, so that two PAIR sockets, tasks and
  conversations exist at once and topics can be mixed up; *two events*, so that there is
  an order. One client with two topics (6 thousand states) gives the same results;
  two clients of whom one has two topics have 2 million states, too many
  for the liveness property.
* *Two workers, three items* in `ThreadPool`: a busy worker, one that starts late, and
  an item behind a full buffer (`SendBuf = 1`) and a full window.
  `Buffersizes` has 1 (a window of 1, and no room behind the workers, so that an id in the
  buffer no longer fits), 4 (more than the maximum: the setter raises) and None.
* The liveness runs drop reuse, or the second thread, to keep them small. The
  races they are about (wakeup against sleep, release against poll) remain.

### Fairness

* `GilMutex`: weak fairness of the C++ steps; strong fairness of taking and dropping
  the GIL (CPython's switch interval forces a drop when another thread asks)
  and of leaving a critical section (straight-line code). None for
  winning the mutex: it has no queue, so there is no starvation freedom.
* `FdDispatchQueue`, `AsyncOps`: the loop thread takes a step when it has one, a
  trampoline that started returns, a `close()` that started goes on. Nothing
  obliges nng to complete an operation or anybody to cancel or close.
* `PipeTracking`: the trampoline pushes its sentinel, a thread goes on with what
  it began; the dispatcher's next update, and a close begun in a callback, get
  `_pipe_mutex` if it is free again and again (strong fairness). This is the one
  place that assumes more than the mutex alone gives: a user's thread that never
  stops updating could starve the dispatcher, but would process its events then.
  `pipes_live` has only the dispatcher, where weak fairness would do.

* `ThreadOps`: a call goes on when it can, nng runs the callback of an aio that
  ended, the dispatcher thread starts and runs. Nothing obliges nng to complete
  an operation, or the user to call, cancel, close or exit.

* `Calculator`, `Subscription`: weak fairness of the event loops and of nng's delivery
  together: some task that can run does. Faults, crashes and time-outs are never
  obliged to happen (in `Subscription` the time-out of a handshake is part of the
  loop's steps: it happens when nothing else can).
* `ThreadPool`: each thread goes on when it can, nng delivers. Nobody is obliged to
  cancel, to abandon a generator or to shut the pool down.

## 4. Known disagreements

Places where the code does not do what one of its comments, docstrings or documents
says. The run `async_false_success` shows the first; the properties of 2 to 4 are
defined in their modules (`AwaitHasResolver` in `AsyncOps`, `PortFilterByNumber` in
`PipeFilters`, `FailedSendKeepsMessage` in `ThreadOps`), for use with a
configuration of one slot or of the port filters, and in no run.

1. **A close by another thread can make `asend` succeed without sending.**
   `_prepare_submit` registers the operation, then the GIL is released for the nng
   call. A whole `Socket.close()` fits in: `release()` calls the registered
   callback, which finds an aio that is not busy and has result 0, and schedules
   success. The nng call then fails with `NNG_ECLOSED`. If its callback comes
   after the skip point, nobody looks at that result.
2. **Without a GIL, an await can be orphaned.** `release()` drops the dict
   between the creation of an operation, which has a reference to it, and the
   registration, which does not take the manager's lock. The poll callback
   of a released manager ignores what it drains.
3. **`PortFilter` decides by a port with its bytes swapped.** `sockaddr_port()`
   returns the port in network byte order, as its comment says, and `PortFilter`
   compares it with bounds in host order. The tests use the range 0-65535 only,
   where the order makes no difference.
4. **A failed `submit_send` loses the message.** The `Message` is emptied before
   the send; `send` gives the content back when it fails, `submit_send` does not,
   nor does it free it. `_message.pxi:80` says that ownership passes to nng
   "except when send fails".

More places where a model stops short of what a comment or a docstring
says; the properties state what does hold:

* `Socket.close()` fires no REMOVED callbacks (`_socket.pxi` 719-723 says it
  does): it drops the callback that `handle_status_change()` returns.
  `RemovalReportedUnlessMissed` excepts exactly these callbacks.
* A callback that is set on a `Pipe` whose removal was taken over before is never called,
  and nothing tells the caller (`_socket.pxi` 223-231); `RemovalReportedUnlessMissed` excepts it.
* `close_on_disconnect` misses a pipe that is added, active and removed before
  one update, as it never enters the list. `DisconnectCloses` covers
  pipes that do.
* In `first & other` a `FirstWinsFilter` locks on to a connection that `other` then
  rejects, though its docstring says "the first connection to pass". `AnchorPassed`
  covers filters in which nothing after the `FirstWinsFilter` can reject.
* A manager that a request starts after the removal of its pipe was handled is told
  of nothing any more (conversation `server.py`: the removal has been reported): it waits
  in `arecv()` until the server ends. `ServerSettles` allows it.
* A handshake that times out, or a late request that is parsed as a hello, raises what
  `_execute()` does not catch (`secure_rep.py` 124-175): the whole server ends, with
  the other clients. `StopsOnlyForTimeoutOrLateRequest` says that nothing else does.
* When the answer to a subscription cannot be sent, the PAIR socket that was bound for
  it stays open without a task (subscription `server.py` 261-273).
* A future cancelled while its function runs makes `set_result()` raise, and
  `set_exception()` after it (`threadpool.py` 160): the worker thread ends, with the id
  that nng had already delivered to it.
* A worker whose callback is registered after the removal of its pipe was reported never
  leaves `recv()` (`threadpool.py` 136), and `shutdown(wait=True)` never leaves `join()`.
* Ids that are in the PUSH socket's buffer when it is closed are lost; their futures
  stay in `_pending` and are never set. So are ids that no longer fit when `map()` lowers
  `send_buf` (`threadpool.py` 211), if nng flushes them. `FutureHasOnePath` and
  `SubmittedIsSettled` except a pool in which this happened, or a worker was killed.

## 5. Proofs

`GilMutexProofs` proves for every set of threads and every nesting, with and
without a GIL: types, mutual exclusion and balance of the count. None is inductive alone: exclusion says nothing
of the moment between the compare-and-swap and the count, nor of a thread that probes
in the slow path. The inductive invariant `IInv` therefore ties the two words
to the places in the code: `OwnerInv` (a thread is in `owner_` exactly when it
is in a place where it owns the mutex), `CountInv` (what the count is at each
place, lagging or not) and `PcInv` (a thread in the slow path holds nothing and
a nested acquisition is made by an owner). Assumptions: `NoThread` and `NoGil` are
no threads, and differ; `MaxAcquire` is positive.

`FdDispatchQueueProofs` proves for every set of operations and every buffer
size: types, no lost wakeup, one wakeup, and the refinement of the safety
part of `Mailbox`. The inductive invariant `WakeupInv` counts wakeups: outside
the drain exactly one is under way if the deque is not empty (a byte or a
trampoline about to send it) and none if it is empty; inside the drain
the deque is not empty, which is why a push then sends no byte and needs none.

`PipeFiltersProofs` proves for all peers, filters and programs and every choice of
keys that those whom a `FirstWinsFilter` lets through between two resets agree
in the selected keys. The property compares two of them, the code compares each
with the anchor, and `addrs_equal_ip` is not transitive; the inductive invariant
says that everybody in the group matches the anchor that is there now, and
the lemma `EqualThroughIp` that the comparison is transitive through an IP address.

`CalculatorProofs` proves for every set of clients and contexts, every script, every
number of connections and faults: `SlotHasOneHolder`, `InboxFits`, `RunningManagerIsKnown`
and `OneConversationPerSession`. The first three need each other and more. That a context has one holder is
kept by a release only because a manager does not hold a context twice, and that follows
from what its record may hold in each state of its task (`RecordOk`: nothing in hand when
ready, an inbox without a request while it works, four possible inboxes). That the None
fits follows from `KnownInv`: an inbox has a None only when the pipe is reported, and a
pipe is reported once. That the done callback does not forget a running manager follows
from its generalisation to every manager whose task is not over. One lemma per action
shows that `IInv` is kept; `SlotRelease`, `SlotTake` and `TaskStep` are the three ways in
which the holders of contexts change. The fourth rests on a second invariant, `LaterInv`,
kept with the help of the first: on a connection that a session made behind its
handshake, no handshake is on the wire or in a context, no manager reaches the loop, and
nothing but refusals is on the way back. A connection that is later in this sense stays
so until the client makes it, and REQ repeats the handshake on a new connection only
while it has no answer to it; so what is later never becomes more. Assumptions: the
bounds are positive, the marks `"none"` and `"gone"` are no contexts, and the commands of
a session do not contain the handshake, which `run_session()` sends itself.

`ThreadOpsProofs` proves for any number of calls and any programs, with and without
a GIL: types, `MessageHasOneOwner`, `OutcomeMatchesMessage`, `DispatchIsSound` and
the action property `BlockingCallSettles`. `CallInv` says what the place of a call, its
aio and its `nng_msg` have to do with each other, `TakerInv` that the content of the
`Message` is in the `Message` or with one call. `RegInv`, `CurInv`, `QueueInv` and
`PendingInv` follow an id from the registration through the queue to the dispatcher.
They hold until the callbacks are dropped, and need two facts that no property
states: only a submitted operation has a future, and once `_nng_fini` has dropped the
callbacks nothing is registered any more. Assumptions: `NoOp`
is no slot, the programs call the four methods, and the bound on views is a number.

`AsyncOpsProofs` proves for any number of operations, any reuse of addresses and every
closer: types, `AwaitHasResolverWithGil`, `OneResolver`, `QueuedIdIsCurrent` and
`OutcomesAreRealOnLoop`. `StageInv` ties the loop's place in the code to the one
operation whose coroutine runs, `MgrInv` says which manager is live, `RegInv` and
`QueueInv` what its dict and its queue hold, `WayInv` who has a callback that
was taken out of a dict; `PendingInv` then says that a submitted operation with a pending
future has a resolver, and `LoopInv` adds what holds when the loop's own thread closes.
Two parts were found by proofs that failed: a coroutine that is about to return was
cancelled or its future is done, and a callback that `release()` copied is never of
an operation whose coroutine has not reached its nng call, since the registration and
the copy are under the same lock. Every action has a lemma; most keep the dicts or change one
operation, and the lemmas `KeepDicts`, `KeepStep` and `OneSlot` say what follows from that.
Assumptions: `NoOp` is no slot, `Kinds` and `Closers` hold the ones of the code.

`ThreadPoolProofs` proves for any number of users, items and workers and any window and
buffer: types, `FutureHasOnePath` and `JoinedPoolIsQuiet`. The first has two parts: an
item never has two ways to be run, whatever happens, and one that is not set has one
under conditions. It counts ways and the
code counts nothing, so the invariant says instead that things are apart: `FreshInv`
(an id not handed out yet is nowhere), `PlaceInv` (an id is with one user, once in the
buffer, in one slot or in one hand), `OnceInv` (no future is known under two ids, run twice,
or run and still known) and `KnownInv` (what `_pending` knows was stored, and the id that a
user sends is that of its own item). `UserInv` says that the items after the current one have no
futures yet; without it `Submit_id` could make a second future for an item that is known.
`OpenInv` adds that nothing is lost while the PUSH socket is open, no worker was killed
and nothing was flushed: no
pipe is removed, no worker stops, and every id in `_pending` is at some place. `LiveInv` needs no
such condition, and with `JoinInv` gives the second property. Assumptions: those that map
are users, the workers are finitely many, each user has a number of items.

`SubscriptionProofs` proves for any number of clients, contexts, keys, topics and events:
`ConversationIsAuthenticated`, `StopsOnlyForTimeoutOrLateRequest`, `StreamsToSubscriber`
and `EventsOfOwnTopic`. None of them is inductive alone: that a box is the right one
needs that the messages it was made from are, and that nothing fails to decrypt needs
that both ends agree on the box and on how many messages it has sealed. One invariant
carries all four. Its first half, `ConvInv`, follows a client's requests. `Books` is
the server's (managers, contexts and their holders, as for the calculator);
`ExchangeInv` says that at most one request or one answer of a client is under way, that
it is the one both ends count, and what it holds at each step of the handshake; `AppInv`
that only the first manager of a pipe gets past the hello: a later one can only be made by a request
dispatched after the pipe was closed; `DownInv` why the server stopped. The second half,
`PairSide`, does the same for each PAIR socket and its stream: the messages in each
direction are determined by the places of the two ends, and the events on the way are
exactly those between what the stream has counted and what the server has sent.
`OpenedInv` and `StartedInv` join the halves: a conversation that has answered n
requests has opened the first n sockets, and the client has started no stream it has
not been answered for, so the socket at an address is the one that was opened
for this stream. `TaskRaises`, the step of an exception that no task catches, is shown never to
be possible.
Assumptions: those of `RepServer` and `Subscription` on the constants, and the ideal
cryptography of `Handshake`.

Left to TLC: liveness (all `~>` and `<>[]` properties, the fairness part of `Mailbox`), as
it needs fairness and ENABLED; all of `PipeTracking`; and what the sessions compute
(`SessionComputes`), which is a recursion over the script.
`IpFilterByPrefix` and `AnchorPassed` are about recursive functions, whose values
for every argument need an induction. `StillActive` is a fold over a sequence, so what it returns for every
list is out of the provers' reach, and `UpToDateWhenQuiet` with it.

## 6. Not modelled

* A second initialisation after `_nng_fini`, the message of `asend`, contexts as
  objects: planned, see below.
* PROACTOR and FALLBACK modes share `_dispatch_complete` and the skip point with
  POLL mode; they come next.
* Dialers and listeners beyond `start()` ending in `update_pipes`, TLS, errors
  and enumerations: wrappers and tables without control of their own.
* The service discovery, logging, multi-server and parallel request examples: next.
  The TLS, simple and dual channel examples, the benchmark and the stub generator have no
  state that outlives a call.
* In the applications: key files, encodings, argument parsing, logging; the
  recreation of a context in a wrong state, into which the code never puts one;
  an address in use when a PAIR socket is bound; an interrupted `main()` of the calculator (its TaskGroup's end is modelled in `SecureRep`).
* Exceptions raised in user callbacks (they are caught and logged), and the
  bytes of messages.

## 7. Plan

Done first because everything rests on it: the mutex, the wakeup queue, the
asyncio operations, the pipes and their filters, the operations of ordinary
threads with the dispatcher; then the applications that keep state: conversations,
secure sockets with subscriptions, the thread pool. Next, in this order:

1. The service discovery example: surveys with deadlines, answers after them.
2. The life cycle in `ThreadOps`: `_nng_fini` followed by `check_nng_init`.
   `_stopped` is never cleared and the queue is not emptied, so a restarted
   dispatcher exits at once.
3. The message of `asend` in `AsyncOps`: its owner when the send fails, is
   cancelled, or the socket is closed.
4. Contexts, dialers and listeners as objects; the PROACTOR and FALLBACK modes.
