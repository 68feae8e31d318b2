------------------------------ MODULE AsyncOps ------------------------------
(***************************************************************************)
(* asend() and arecv() of a Socket on one asyncio event loop, in POLL      *)
(* mode: nng/_aio_async.pxi (_AioSockASync, _AioAsyncManager), the socket  *)
(* methods that drive them (nng/_socket.pxi: get_aio_manager, asend,       *)
(* arecv, close) and DispatchQueueContainer (nng/cpp/platform.hpp).        *)
(*                                                                         *)
(* Three kinds of actors interleave:                                       *)
(*   - the loop thread: one coroutine or callback at a time (lpc);         *)
(*   - nng's threads: they complete aios and run the trampoline, which     *)
(*     needs neither the GIL nor a Python lock;                            *)
(*   - the caller of Socket.close(): the loop thread itself or another     *)
(*     Python thread (cpc).                                                *)
(*                                                                         *)
(* An operation is named by its slot, the address id(op) that travels      *)
(* through the queue.  A slot is reused by a later call as soon as nothing *)
(* refers to the old operation, as CPython reuses addresses.               *)
(*                                                                         *)
(* Python threads are switched only where the code can lose the GIL, or    *)
(* anywhere on a free-threaded interpreter.  The mutexes appear as the     *)
(* states in which they are held (GilMutex shows that they exclude).       *)
(***************************************************************************)
EXTENDS SockQueueOps, Functions

CONSTANTS Slots,         \* addresses of _AioSockASync objects
          NoOp,          \* no operation
          Kinds,         \* the calls made: subset of {"send", "recv"}
          Closers,       \* who may call close(): the loop's own thread, another
                         \* one, another one of an interpreter without GIL
          Reuse          \* bound: whether a freed address is used again

ASSUME SlotsAssumption   == NoOp \notin Slots
ASSUME KindsAssumption   == Kinds \subseteq {"send", "recv"}
ASSUME ClosersAssumption == Closers \subseteq {"loop", "thread", "freethread"}
ASSUME ReuseAssumption   == Reuse \in BOOLEAN

VARIABLES sock,   \* the Socket and its SocketHandle
          made,   \* how many _AioAsyncManagers were created
          mgr,    \* the managers
          op,     \* the _AioSockASync objects, their futures and coroutines
          aio,    \* their nng_aios and DispatchQueueContainers
          loop,   \* the loop thread
          soon,   \* what call_soon_threadsafe has scheduled on the loop
          close   \* the call of Socket.close()

vars == <<sock, made, mgr, op, aio, loop, soon, close>>

Mgrs   == 1..2    \* bound: the manager close() releases, and one made after
Errors == {"closed", "timeout", "canceled"}

SockType == [handle : BOOLEAN,            \* SocketHandle._sock.id # 0
             nng    : BOOLEAN,            \* nng accepts operations
             mgr    : {0} \cup Mgrs]      \* _aio_managers[loop]

MgrType == [live   : BOOLEAN,             \* _dispatch_callables is not None
            reg    : SUBSET Slots,        \* keys of that dict
            reader : BOOLEAN,             \* the loop watches the read fd
            q      : QueueType(Slots)]    \* _queue

OpType == [co     : {"free", "running", "await", "done"},   \* the coroutine
           kind   : {"send", "recv"},
           home   : {0} \cup Mgrs,        \* the manager that created it
           dict   : BOOLEAN,              \* _dispatch_callable is not None
           held   : BOOLEAN,              \* _future is not None
           fut    : {"pending", "ok", "cancelled"} \cup Errors,
           cancel : BOOLEAN,              \* task cancelled while awaiting
           out    : {"none", "ok", "cancelled", "typeerror", "internal"} \cup Errors]

AioType == [st     : {"new", "busy", "ended", "wake", "idle"},
            result : {"ok"} \cup Errors,  \* nng_aio_result()
            effect : BOOLEAN,             \* sent, or a message received
            skip   : BOOLEAN]             \* _skip_point_reached

LoopPcs  == {"select", "getmgr", "create", "prepare", "submit", "skip", "sync",
             "finish", "ready", "handle", "closing"}
ClosePcs == {"open", "nngclose", "clearid", "release", "resolve", "done"}

LoopType == [pc    : LoopPcs,
             cur   : Slots \cup {NoOp},   \* the coroutine that runs
             mgr   : {0} \cup Mgrs,       \* the manager whose poll callback runs
             batch : Seq(Slots),          \* its ready: the ids it has drained
             cbs   : SUBSET Slots]        \* its callbacks, in the order of ready

TypeOK ==
    /\ sock \in SockType
    /\ made \in 0..2
    /\ mgr \in [Mgrs -> MgrType]
    /\ op \in [Slots -> OpType]
    /\ aio \in [Slots -> AioType]
    /\ loop \in LoopType
    /\ soon \in [remove : SUBSET Mgrs, set : [Slots -> {"none", "ok"} \cup Errors]]
    /\ close \in [by : Closers, pc : ClosePcs, snap : SUBSET Slots]

NewMgr == [live |-> FALSE, reg |-> {}, reader |-> FALSE, q |-> EmptyQueue]
NewOp  == [co |-> "free", kind |-> "send", home |-> 0, dict |-> FALSE, held |-> FALSE,
           fut |-> "pending", cancel |-> FALSE, out |-> "none"]
NewAio == [st |-> "new", result |-> "ok", effect |-> FALSE, skip |-> FALSE]
Selecting == [pc |-> "select", cur |-> NoOp, mgr |-> 0, batch |-> <<>>, cbs |-> {}]

Init ==
    /\ sock = [handle |-> TRUE, nng |-> TRUE, mgr |-> 0]
    /\ made = 0
    /\ mgr = [m \in Mgrs |-> NewMgr]
    /\ op = [s \in Slots |-> NewOp]
    /\ aio = [s \in Slots |-> NewAio]
    /\ loop = Selecting
    /\ soon = [remove |-> {}, set |-> [s \in Slots |-> "none"]]
    /\ close \in [by : Closers, pc : {"open"}, snap : {{}}]

-----------------------------------------------------------------------------
(* Slips in the code that the properties must notice; no action uses them. *)

\* The synchronous path does not check the aio's result.
Mutant_ResultNotChecked(s) == "ok"

\* A cancelled call unregisters its operation, as the synchronous path does.
Mutant_CancelUnregisters ==
    /\ loop.pc = "finish"
    /\ aio[loop.cur].st = "idle"
    /\ mgr' = [mgr EXCEPT ![op[loop.cur].home].reg = @ \ {loop.cur}]
    /\ op' = [op EXCEPT ![loop.cur].co = "done", ![loop.cur].out = op[loop.cur].fut]
    /\ loop' = [loop EXCEPT !.pc = "select", !.cur = NoOp]
    /\ UNCHANGED <<sock, made, aio, soon, close>>

\* The poll callback reads the callbacks with get() instead of pop().
Mutant_PollKeepsRegistered ==
    /\ loop.pc = "ready"
    /\ mgr' = [mgr EXCEPT ![loop.mgr].q = DrainReady(@)]
    /\ loop' = [loop EXCEPT !.pc = "handle", !.batch = mgr[loop.mgr].q.items,
                            !.cbs = Range(mgr[loop.mgr].q.items)]
    /\ UNCHANGED <<sock, made, op, aio, soon, close>>

\* release() drops the dict without calling what was in it.
Mutant_ReleaseDropsCallbacks ==
    /\ close.pc = "release"
    /\ loop.pc \notin {"create", "prepare", "ready"}
    /\ close' = [close EXCEPT !.pc = "resolve"]
    /\ soon' = [soon EXCEPT !.remove = @ \cup ({sock.mgr} \ {0})]
    /\ mgr' = [m \in Mgrs |-> [mgr[m] EXCEPT !.live = @ /\ m # sock.mgr]]
    /\ UNCHANGED <<sock, made, op, aio, loop>>

\* release() leaves the reader of the file descriptor in the loop.
Mutant_ReleaseKeepsReader ==
    /\ close.pc = "release"
    /\ loop.pc \notin {"create", "prepare", "ready"}
    /\ close' = [close EXCEPT !.pc = "resolve",
                              !.snap = IF sock.mgr = 0 THEN {} ELSE mgr[sock.mgr].reg]
    /\ mgr' = [m \in Mgrs |-> [mgr[m] EXCEPT !.live = @ /\ m # sock.mgr]]
    /\ UNCHANGED <<sock, made, op, aio, loop, soon>>

-----------------------------------------------------------------------------
(* nng (external): an operation ends with a result while it is busy, and   *)
(* its callback then runs once on one of nng's threads.  nng_aio_busy      *)
(* holds until the callback has returned, nng_aio_wait waits for that.  A  *)
(* fresh aio is not busy and its result is 0.                              *)

Busy(s) == aio[s].st \in {"busy", "ended", "wake"}

Complete(s, r) ==
    /\ aio[s].st = "busy"
    /\ aio' = [aio EXCEPT ![s].st = "ended", ![s].result = r, ![s].effect = (r = "ok")]
    /\ UNCHANGED <<sock, made, mgr, op, loop, soon, close>>

\* nng_aio_cancel, nng_aio_stop and nng_socket_close end what is still busy.
Abort(a, r) == IF a.st = "busy" THEN [a EXCEPT !.st = "ended", !.result = r] ELSE a

-----------------------------------------------------------------------------
(* The trampoline: DispatchQueueContainer::fire().  Before the skip point  *)
(* it leaves the completion to the submitting coroutine, after it the op   *)
(* id goes to the queue of the manager that created the operation.         *)

Fire(s) ==
    /\ aio[s].st = "ended"
    /\ LET m == op[s].home
           q == mgr[m].q
       IN  \/ /\ ~aio[s].skip
              /\ aio' = [aio EXCEPT ![s].skip = TRUE, ![s].st = "idle"]
              /\ UNCHANGED mgr
           \/ /\ aio[s].skip
              /\ mgr' = [mgr EXCEPT ![m].q = PushBack(q, s)]
              /\ aio' = [aio EXCEPT ![s].st = IF WasEmpty(q) THEN "wake" ELSE "idle"]
    /\ UNCHANGED <<sock, made, op, loop, soon, close>>

FireWake(s) ==
    /\ aio[s].st = "wake"
    /\ mgr' = [mgr EXCEPT ![op[s].home].q = SendByte(@)]
    /\ aio' = [aio EXCEPT ![s].st = "idle"]
    /\ UNCHANGED <<sock, made, op, loop, soon, close>>

-----------------------------------------------------------------------------
(* asend/arecv on the loop thread, up to the await.                        *)

At(p) == loop.pc = p
Goto(p) == loop' = [loop EXCEPT !.pc = p]

\* The coroutine leaves its frame with outcome o.
Return(s, o) ==
    /\ op' = [op EXCEPT ![s].co = "done", ![s].out = o]
    /\ loop' = Selecting

\* _check(): a closed socket raises NngClosed before anything happens.
CallOnClosed == At("select") /\ ~sock.handle /\ UNCHANGED vars

Call(s, k) ==
    /\ At("select")
    /\ op[s].co = "free"
    /\ sock.handle
    /\ op' = [op EXCEPT ![s].co = "running", ![s].kind = k]
    /\ loop' = [loop EXCEPT !.pc = "getmgr", !.cur = s]
    /\ UNCHANGED <<sock, made, mgr, aio, soon, close>>

\* get_aio_manager(), under _aio_mgr_mutex, which close() holds while it
\* releases the managers and calls their callbacks.
GetManager ==
    /\ At("getmgr")
    /\ close.pc # "resolve"
    /\ LET m == IF sock.mgr = 0 THEN made + 1 ELSE sock.mgr
       IN  /\ made' = IF sock.mgr = 0 THEN m ELSE made
           /\ mgr' = IF sock.mgr = 0
                     THEN [mgr EXCEPT ![m].live = TRUE, ![m].reader = TRUE]
                     ELSE mgr
           /\ sock' = [sock EXCEPT !.mgr = m]
           /\ op' = [op EXCEPT ![loop.cur].home = m]
    /\ Goto("create")
    /\ UNCHANGED <<aio, soon, close>>

\* create_aio_for_socket(): a released manager hands out None as its dict.
CreateAio ==
    /\ At("create")
    /\ LET s == loop.cur
       IN  op' = [op EXCEPT ![s].dict = mgr[op[s].home].live, ![s].held = TRUE]
    /\ Goto("prepare")
    /\ UNCHANGED <<sock, made, mgr, aio, soon, close>>

\* _prepare_submit(): storing into None raises TypeError.
PrepareSubmit ==
    /\ At("prepare")
    /\ LET s == loop.cur
       IN  \/ /\ op[s].dict
              /\ mgr' = [mgr EXCEPT ![op[s].home].reg = @ \cup {s}]
              /\ Goto("submit")
              /\ UNCHANGED op
           \/ /\ ~op[s].dict
              /\ Return(s, "typeerror")
              /\ UNCHANGED mgr
    /\ UNCHANGED <<sock, made, aio, soon, close>>

\* nng_socket_send / nng_socket_recv, without the GIL.
Submit ==
    /\ At("submit")
    /\ LET s == loop.cur
       IN  aio' = [aio EXCEPT ![s] = IF sock.nng
                                     THEN [@ EXCEPT !.st = "busy"]
                                     ELSE [@ EXCEPT !.st = "ended", !.result = "closed"]]
    /\ Goto("skip")
    /\ UNCHANGED <<sock, made, mgr, op, soon, close>>

\* reach_skip_point(): true when the trampoline came first; the operation is
\* then finished and unregistered, else the coroutine awaits the future.
SkipPoint ==
    /\ At("skip")
    /\ LET s == loop.cur
       IN  \/ /\ aio[s].skip
              /\ mgr' = [mgr EXCEPT ![op[s].home].reg = @ \ {s}]
              /\ Goto("sync")
              /\ UNCHANGED <<op, aio>>
           \/ /\ ~aio[s].skip
              /\ aio' = [aio EXCEPT ![s].skip = TRUE]
              /\ op' = [op EXCEPT ![s].co = "await"]
              /\ loop' = Selecting
              /\ UNCHANGED mgr
    /\ UNCHANGED <<sock, made, soon, close>>

\* What the call makes of its nng_aio: check_err, then for arecv get_msg().
AioOutcome(s) ==
    IF aio[s].result # "ok" THEN aio[s].result
    ELSE IF op[s].kind = "recv" /\ ~aio[s].effect THEN "internal" ELSE "ok"

FinishSync ==
    /\ At("sync")
    /\ ~Busy(loop.cur)
    /\ Return(loop.cur, AioOutcome(loop.cur))
    /\ UNCHANGED <<sock, made, mgr, aio, soon, close>>

-----------------------------------------------------------------------------
(* The await.                                                              *)

\* Task.cancel() from the loop thread: the future is cancelled if it is
\* still pending, the coroutine gets CancelledError in any case.
CancelTask(s) ==
    /\ At("select")
    /\ op[s].co = "await"
    /\ ~op[s].cancel
    /\ op' = [op EXCEPT ![s].cancel = TRUE,
                        ![s].fut = IF @ = "pending" THEN "cancelled" ELSE @]
    /\ UNCHANGED <<sock, made, mgr, aio, loop, soon, close>>

\* The await ends: on_future_cancel() or ensure_finish() stop the aio ...
Resume(s) ==
    /\ At("select")
    /\ op[s].co = "await"
    /\ op[s].fut # "pending" \/ op[s].cancel
    /\ aio' = [aio EXCEPT ![s] = Abort(@, "canceled")]
    /\ op' = [op EXCEPT ![s].co = "running"]
    /\ loop' = [loop EXCEPT !.pc = "finish", !.cur = s]
    /\ UNCHANGED <<sock, made, mgr, soon, close>>

\* ... and wait for its callback; then arecv looks for its message.
AwaitOutcome(s) ==
    IF op[s].cancel THEN "cancelled"
    ELSE IF op[s].fut # "ok" THEN op[s].fut
    ELSE IF op[s].kind = "recv" /\ ~aio[s].effect THEN "internal" ELSE "ok"

Finish ==
    /\ At("finish")
    /\ ~Busy(loop.cur)
    /\ Return(loop.cur, AwaitOutcome(loop.cur))
    /\ UNCHANGED <<sock, made, mgr, aio, soon, close>>

\* The last reference goes: the dict of a live manager, a list of callbacks
\* and a running coroutine keep an operation alive; a dict that only its own
\* operations refer to is garbage with them.
Free(s) ==
    /\ Reuse
    /\ op[s].co = "done"
    /\ ~Busy(s)
    /\ s \notin loop.cbs \cup close.snap
    /\ \A m \in Mgrs : mgr[m].live => s \notin mgr[m].reg
    /\ mgr' = [m \in Mgrs |-> [mgr[m] EXCEPT !.reg = @ \ {s}]]
    /\ op' = [op EXCEPT ![s] = NewOp]
    /\ aio' = [aio EXCEPT ![s] = NewAio]
    /\ UNCHANGED <<sock, made, loop, soon, close>>

-----------------------------------------------------------------------------
(* _poll_readable_callback, on the loop thread, under the manager's lock   *)
(* up to the callbacks.                                                    *)

PollWakeup(m) ==
    /\ At("select")
    /\ mgr[m].reader
    /\ Readable(mgr[m].q)
    /\ mgr' = [mgr EXCEPT ![m].q = DrainWakeup(@)]
    /\ loop' = [loop EXCEPT !.pc = "ready", !.mgr = m]
    /\ UNCHANGED <<sock, made, op, aio, soon, close>>

\* drain_ready; a released manager drops the ids, a live one pops their
\* callbacks from the dict.
PollReady ==
    /\ At("ready")
    /\ LET m   == loop.mgr
           ids == mgr[m].q.items
       IN  /\ mgr' = [mgr EXCEPT ![m].q = DrainReady(@),
                                 ![m].reg = IF mgr[m].live THEN @ \ Range(ids) ELSE @]
           /\ loop' = IF mgr[m].live
                      THEN [loop EXCEPT !.pc = "handle", !.batch = ids,
                                         !.cbs = Range(ids) \cap mgr[m].reg]
                      ELSE Selecting
    /\ UNCHANGED <<sock, made, op, aio, soon, close>>

\* Setting a future does nothing when it is done already.
SetFuture(o, r) == [o EXCEPT !.fut = IF @ = "pending" THEN r ELSE @]

\* _dispatch_complete() on the loop's own thread: take the future, wait for
\* the callback to return, resolve the future with the aio's result.
DispatchComplete(s) ==
    IF op[s].held
    THEN /\ ~Busy(s)
         /\ op' = [op EXCEPT ![s] = SetFuture([@ EXCEPT !.held = FALSE], aio[s].result)]
    ELSE UNCHANGED op

PollHandle ==
    /\ At("handle")
    /\ \/ /\ loop.batch = <<>>
          /\ loop' = Selecting
          /\ UNCHANGED op
       \/ /\ loop.batch # <<>>
          /\ LET s == Head(loop.batch)
             IN  /\ IF s \in loop.cbs THEN DispatchComplete(s) ELSE UNCHANGED op
                 /\ loop' = [loop EXCEPT !.batch = Tail(@), !.cbs = @ \ {s}]
    /\ UNCHANGED <<sock, made, mgr, aio, soon, close>>

-----------------------------------------------------------------------------
(* What release() has scheduled on the loop.                               *)

RunRemoveReader(m) ==
    /\ At("select")
    /\ m \in soon.remove
    /\ mgr' = [mgr EXCEPT ![m].reader = FALSE]
    /\ soon' = [soon EXCEPT !.remove = @ \ {m}]
    /\ UNCHANGED <<sock, made, op, aio, loop, close>>

RunSetFuture(s) ==
    /\ At("select")
    /\ soon.set[s] # "none"
    /\ op' = [op EXCEPT ![s] = SetFuture(@, soon.set[s])]
    /\ soon' = [soon EXCEPT !.set[s] = "none"]
    /\ UNCHANGED <<sock, made, mgr, aio, loop, close>>

-----------------------------------------------------------------------------
(* Socket.close(), by a callback of the loop or by another thread.         *)

\* With a GIL another Python thread runs only where the loop thread can lose
\* it: not from the manager it looked up to its nng call.  (The one Python
\* call on the way, create_future(), is made under the manager's lock; the
\* lock of a Message that another thread uses is left out, as Messages are.)
GilAvailable == close.by = "freethread" \/ loop.pc \notin {"create", "prepare"}
CloseAt(p)   == close.pc = p /\ close' = [close EXCEPT !.pc = CASE p = "open"     -> "nngclose"
                                                                 [] p = "nngclose" -> "clearid"
                                                                 [] p = "clearid"  -> "release"
                                                                 [] p = "resolve"  -> "done"]

CloseStart ==
    /\ sock.handle
    /\ CloseAt("open")
    /\ IF close.by = "loop" THEN At("select") /\ Goto("closing")
                            ELSE GilAvailable /\ UNCHANGED loop
    /\ UNCHANGED <<sock, made, mgr, op, aio, soon>>

\* SocketHandle::close() without the GIL: nng_socket_close() ends every
\* outstanding operation, then the id is cleared.
CloseNng ==
    /\ CloseAt("nngclose")
    /\ sock' = [sock EXCEPT !.nng = FALSE]
    /\ aio' = [s \in Slots |-> Abort(aio[s], "closed")]
    /\ UNCHANGED <<made, mgr, op, loop, soon>>

CloseClearId ==
    /\ CloseAt("clearid")
    /\ sock' = [sock EXCEPT !.handle = FALSE]
    /\ UNCHANGED <<made, mgr, op, aio, loop, soon>>

\* _AioAsyncManager.release() of the cached manager, if there is one: under
\* the manager's lock (which the poll callback holds at "ready"), schedule
\* remove_reader, copy the callbacks, drop the dict.
CloseRelease ==
    /\ close.pc = "release"
    /\ GilAvailable
    /\ ~At("ready")
    /\ LET m == sock.mgr
       IN  /\ close' = [close EXCEPT !.pc = "resolve", !.snap = IF m = 0 THEN {} ELSE mgr[m].reg]
           /\ soon' = IF m = 0 THEN soon ELSE [soon EXCEPT !.remove = @ \cup {m}]
           /\ mgr' = IF m = 0 THEN mgr ELSE [mgr EXCEPT ![m].live = FALSE]
    /\ UNCHANGED <<sock, made, op, aio, loop>>

\* The copied callbacks: on the loop's thread the future is resolved at once,
\* elsewhere (_dispatch_complete_safe) through call_soon_threadsafe.
CloseResolve(s) ==
    /\ close.pc = "resolve"
    /\ s \in close.snap
    /\ GilAvailable
    /\ IF close.by = "loop"
       THEN DispatchComplete(s) /\ UNCHANGED soon
       ELSE IF op[s].held
       THEN /\ ~Busy(s)
            /\ op' = [op EXCEPT ![s].held = FALSE]
            /\ soon' = [soon EXCEPT !.set[s] = aio[s].result]
       ELSE UNCHANGED <<op, soon>>
    /\ close' = [close EXCEPT !.snap = @ \ {s}]
    /\ UNCHANGED <<sock, made, mgr, aio, loop>>

\* _aio_managers.clear(), and the mutex is released.
CloseEnd ==
    /\ CloseAt("resolve")
    /\ close.snap = {}
    /\ GilAvailable
    /\ sock' = [sock EXCEPT !.mgr = 0]
    /\ IF close.by = "loop" THEN loop' = Selecting ELSE UNCHANGED loop
    /\ UNCHANGED <<made, mgr, op, aio, soon>>

-----------------------------------------------------------------------------
CoroutineStep ==
    GetManager \/ CreateAio \/ PrepareSubmit \/ Submit \/ SkipPoint \/ FinishSync \/ Finish

PollStep == PollReady \/ PollHandle

NngCallback(s) == Fire(s) \/ FireWake(s)

CloseStep ==
    \/ CloseNng \/ CloseClearId \/ CloseRelease \/ CloseEnd
    \/ \E s \in Slots : CloseResolve(s)

\* Whatever the loop thread has to do.
LoopStep ==
    \/ CoroutineStep
    \/ PollStep
    \/ \E m \in Mgrs : PollWakeup(m) \/ RunRemoveReader(m)
    \/ \E s \in Slots : Resume(s) \/ RunSetFuture(s)

Next ==
    \/ \E s \in Slots, k \in Kinds : Call(s, k)
    \/ CallOnClosed
    \/ LoopStep
    \/ \E s \in Slots : CancelTask(s) \/ Free(s)
    \/ \E s \in Slots, r \in {"ok", "timeout"} : Complete(s, r)
    \/ \E s \in Slots : NngCallback(s)
    \/ CloseStart
    \/ CloseStep

Spec == Init /\ [][Next]_vars

(* The loop thread does not idle while it has something to do, nng runs    *)
(* the callback of an operation that ended, close() goes on once called.   *)
(* Nothing obliges nng to complete an operation, a caller to make or to    *)
(* cancel a call, or anybody to close the socket.                          *)
Fairness ==
    /\ WF_vars(LoopStep)
    /\ WF_vars(CloseStep)
    /\ \A s \in Slots : WF_vars(NngCallback(s))

FairSpec == Spec /\ Fairness

-----------------------------------------------------------------------------
(* Every future that somebody awaits has exactly one way to be resolved:   *)
(* the dict of a live manager, the callbacks the poll callback has popped, *)
(* the ones release() has copied, or a scheduled call.  None: the await    *)
(* never ends.                                                             *)
Resolvers(s) ==
    {r \in {"dict", "batch", "snap", "soon"} :
        \/ r = "dict"  /\ op[s].home # 0 /\ mgr[op[s].home].live /\ s \in mgr[op[s].home].reg
        \/ r = "batch" /\ s \in loop.cbs
        \/ r = "snap"  /\ s \in close.snap
        \/ r = "soon"  /\ soon.set[s] # "none"}

AwaitHasResolver ==
    \A s \in Slots : op[s].co = "await" /\ op[s].fut = "pending" => Resolvers(s) # {}

(* The same, on an interpreter with a GIL.                                 *)
AwaitHasResolverWithGil == close.by # "freethread" => AwaitHasResolver

(* The poll callback on the loop thread and release() on the closing       *)
(* thread never both hold the completion of one operation.                 *)
OneResolver ==
    \A s \in Slots : \A r1, r2 \in Resolvers(s) : r1 = r2

(* An id in the queue of a live manager is the completion of the operation *)
(* that has this address now: it is there once, its callback has run and   *)
(* its registration is still to be popped.  An address is never reused     *)
(* while an old completion is on its way.                                  *)
QueuedIdIsCurrent ==
    \A m \in Mgrs :
        mgr[m].live =>
            LET ids == mgr[m].q.items
            IN  /\ \A i, j \in DOMAIN ids : ids[i] = ids[j] => i = j
                /\ \A s \in Range(ids) :
                      /\ s \in mgr[m].reg /\ op[s].home = m
                      /\ aio[s].st \in {"wake", "idle"} /\ op[s].held

(* A call that succeeds has really sent its message or received one, and   *)
(* no call fails otherwise than with nng's error or a cancellation.        *)
OutcomeIsReal(s) ==
    /\ op[s].out = "ok" => aio[s].effect
    /\ op[s].out \notin {"typeerror", "internal"}

OutcomesAreReal == \A s \in Slots : OutcomeIsReal(s)

(* The same, when the socket is only ever closed from the loop's thread.   *)
OutcomesAreRealOnLoop == close.by = "loop" => OutcomesAreReal

(* An operation that nng has ended, or that is outstanding when the socket *)
(* was closed, returns to its caller.                                      *)
EndedCallReturns ==
    \A s \in Slots : aio[s].st = "ended" ~> op[s].co \in {"done", "free"}

(* Once close() has returned, every call on the socket returns ...         *)
CloseEndsCalls ==
    \A s \in Slots :
        close.pc = "done" /\ op[s].co = "await" ~> op[s].co \in {"done", "free"}

(* ... and the loop ends up watching no file descriptor of the socket.     *)
CloseRemovesReaders ==
    close.pc = "done" ~> \A m \in Mgrs : ~mgr[m].reader
CloseRemovesReadersOnLoop == close.by # "loop" \/ CloseRemovesReaders
=============================================================================
