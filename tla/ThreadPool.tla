----------------------------- MODULE ThreadPool -----------------------------
(* NngThreadPool of the PULL-PUSH example.  submit() keeps the work item in  *)
(* _pending and sends its call id through a PUSH socket; each worker thread  *)
(* receives ids on a PULL socket of its own, takes the item out of _pending  *)
(* and sets its future.  shutdown() closes the PUSH socket; a worker ends    *)
(* when the callback of its pipe has closed its PULL socket.                 *)
(*                                                                           *)
(* nng is external: PUSH hands an id to one pipe that can take one, a pipe   *)
(* holds one id its socket has not received, and what a closed socket or     *)
(* pipe holds is lost.                                                       *)
EXTENDS Integers, Sequences, FiniteSets

CONSTANTS
    Users,        \* threads that submit work
    Mappers,      \* those that use map(), the others use submit()
    Workers,      \* the worker threads
    Tasks,        \* bound: the number of work items of each user
    Buffersizes,  \* the values users pass to map(), NoBuffersize for None
    SendBuf       \* send_buf of the PUSH socket, and its maximum (8192)

NoBuffersize == -1

ASSUME ThreadPoolAssumption ==
    /\ Mappers \subseteq Users
    /\ IsFiniteSet(Workers)
    /\ Tasks \in [Users -> Nat]
    /\ Buffersizes \subseteq Nat \cup {NoBuffersize} /\ SendBuf \in Nat

VARIABLES
    shut,      \* _shutdown
    nextId,    \* _next_id
    pending,   \* _pending: a dict from call ids to futures
    push,      \* nng: the PUSH socket is open, its buffer and its limit;
               \* flushed is kept for the properties
    fut,       \* the futures
    usr,       \* the users: where they are in submit() or map()
    own,       \* the owner of the pool: where it is in shutdown()
    wrk        \* the workers

vars == <<shut, nextId, pending, push, fut, usr, own, wrk>>

\* The i-th work item of a user; call ids are 0, 1, ...
Futures == UNION {{u} \X (1..Tasks[u]) : u \in Users}
NoFuture == <<>>
NoId == -1

\* d[i] = f, and d.pop(i, None), of a dict.
Put(d, i, f) == [j \in DOMAIN d \cup {i} |-> IF j = i THEN f ELSE d[j]]
Pop(d, i) == [j \in DOMAIN d \ {i} |-> d[j]]
Popped(d, i) == IF i \in DOMAIN d THEN d[i] ELSE NoFuture

\* __init__(): the workers are started and have not dialled yet.
\* killed and late are kept for the properties.
NewWorker == [pc |-> "dial", pipe |-> "none", cb |-> FALSE, told |-> FALSE,
              pull |-> TRUE, slot |-> NoId, id |-> NoId, run |-> NoFuture,
              killed |-> FALSE, late |-> FALSE]

Init ==
    /\ shut = FALSE
    /\ nextId = 0
    /\ pending = [i \in {} |-> NoFuture]
    /\ push = [open |-> TRUE, buf |-> <<>>, limit |-> SendBuf, flushed |-> FALSE]
    /\ fut = [f \in Futures |-> "none"]
    /\ usr = [u \in Users |-> [pc |-> IF u \in Mappers THEN "map" ELSE "idle",
                               made |-> 0, got |-> 0, id |-> NoId, win |-> 0]]
    /\ own = [pc |-> "body", wait |-> FALSE]
    /\ wrk = [w \in Workers |-> NewWorker]

Settled(f) == fut[f] \in {"result", "exception", "cancelled"}

UserPcs == {"map", "idle", "id", "store", "send", "over"}
OwnerPcs == {"body", "cancel", "close", "join", "back"}
WorkerPcs == {"dial", "pipe", "register", "recv", "got", "run", "over"}

PushType == [open : BOOLEAN, buf : Seq(Nat), limit : Nat, flushed : BOOLEAN]
UserType == [pc : UserPcs, made : Nat, got : Nat, id : Nat \cup {NoId}, win : Nat]
WorkerType == [pc : WorkerPcs, pipe : {"none", "open", "removed"}, cb : BOOLEAN,
               told : BOOLEAN, pull : BOOLEAN, slot : Nat \cup {NoId},
               id : Nat \cup {NoId}, run : Futures \cup {NoFuture},
               killed : BOOLEAN, late : BOOLEAN]

TypeOK ==
    /\ shut \in BOOLEAN
    /\ nextId \in Nat
    /\ pending \in [DOMAIN pending -> Futures] /\ DOMAIN pending \subseteq Nat
    /\ push \in PushType
    /\ fut \in [Futures -> {"none", "pending", "result", "exception", "cancelled"}]
    /\ usr \in [Users -> UserType]
    /\ own \in [pc : OwnerPcs, wait : BOOLEAN]
    /\ wrk \in [Workers -> WorkerType]

----------------------------------------------------------------------------
(* submit(), called by user u.                                             *)

Current(u) == <<u, usr[u].made + 1>>

\* The next item is submitted; map() does it while its window is not full,
\* and tests that behind the first item of an empty window.
Window(u) == usr[u].made - usr[u].got
Full(u) == Window(u) > 0 /\ Window(u) >= usr[u].win

CanSubmit(u) ==
    /\ usr[u].pc = "idle"
    /\ usr[u].made < Tasks[u]
    /\ u \in Mappers => ~Full(u)

\* The test of _shutdown.
Submit_check(u) ==
    /\ CanSubmit(u)
    /\ usr' = [usr EXCEPT ![u].pc = IF shut THEN "over" ELSE "id"]
    /\ UNCHANGED <<shut, nextId, pending, push, fut, own, wrk>>

\* Variant: without the lock another thread may have read the same id.
Submit_id_unlocked(u) ==
    /\ usr[u].pc = "id"
    /\ \E id \in {nextId} \cup {usr[v].id : v \in {v \in Users : usr[v].pc = "store"}} :
          /\ usr' = [usr EXCEPT ![u].pc = "store", ![u].id = id]
          /\ nextId' = id + 1
    /\ fut' = [fut EXCEPT ![Current(u)] = "pending"]
    /\ UNCHANGED <<shut, pending, push, own, wrk>>

Submit_id(u) ==
    /\ usr[u].pc = "id"
    /\ usr' = [usr EXCEPT ![u].pc = "store", ![u].id = nextId]
    /\ nextId' = nextId + 1
    /\ fut' = [fut EXCEPT ![Current(u)] = "pending"]
    /\ UNCHANGED <<shut, pending, push, own, wrk>>

Submit_store(u) ==
    /\ usr[u].pc = "store"
    /\ pending' = Put(pending, usr[u].id, Current(u))
    /\ usr' = [usr EXCEPT ![u].pc = "send"]
    /\ UNCHANGED <<shut, nextId, push, fut, own, wrk>>

\* nng: a pipe of the PUSH socket that can take an id.
Ready(w) == wrk[w].pipe = "open" /\ wrk[w].slot = NoId

\* _push.send(): to a pipe, or into the buffer; it blocks while there is no
\* room and raises when the socket is closed.  submit() then returns the
\* future, or raises, which leaves the entry behind.
Submit_send(u) ==
    /\ usr[u].pc = "send"
    /\ \/ /\ push.open /\ push.buf = <<>>
          /\ \E w \in Workers :
                Ready(w) /\ wrk' = [wrk EXCEPT ![w].slot = usr[u].id]
          /\ UNCHANGED push
       \/ /\ push.open /\ Len(push.buf) < push.limit
          /\ push' = [push EXCEPT !.buf = Append(@, usr[u].id)]
          /\ UNCHANGED wrk
       \/ /\ ~push.open
          /\ UNCHANGED <<push, wrk>>
    /\ usr' = [usr EXCEPT ![u].pc = IF push.open THEN "idle" ELSE "over",
                          ![u].made = IF push.open THEN @ + 1 ELSE @,
                          ![u].id = NoId]
    /\ UNCHANGED <<shut, nextId, pending, fut, own>>

\* nng: the next id of the buffer goes to a pipe.
Deliver(w) ==
    /\ push.open
    /\ push.buf # <<>>
    /\ Ready(w)
    /\ wrk' = [wrk EXCEPT ![w].slot = Head(push.buf)]
    /\ push' = [push EXCEPT !.buf = Tail(@)]
    /\ UNCHANGED <<shut, nextId, pending, fut, usr, own>>

\* A user that has the future of its work item may cancel it.
Cancel(f) ==
    /\ f[1] \notin Mappers
    /\ f[2] <= usr[f[1]].made
    /\ fut[f] = "pending"
    /\ fut' = [fut EXCEPT ![f] = "cancelled"]
    /\ UNCHANGED <<shut, nextId, pending, push, usr, own, wrk>>

----------------------------------------------------------------------------
(* map(), iterated to its end by user u.                                   *)

\* nng: the limit of a buffer is set.  What does not fit any more is kept, or
\* the last ids are flushed: the binding does not say which.
Resized(p, n) ==
    {[p EXCEPT !.limit = n, !.buf = SubSeq(@, 1, k), !.flushed = @ \/ k < Len(p.buf)] :
        k \in {Len(p.buf), IF n < Len(p.buf) THEN n ELSE Len(p.buf)}}

\* max(0, buffersize - self._num_workers)
Surplus(size) ==
    IF size > Cardinality(Workers) THEN size - Cardinality(Workers) ELSE 0

Map(u) ==
    /\ usr[u].pc = "map"
    /\ \E size \in Buffersizes :
          \/ /\ size # NoBuffersize
             /\ push.open /\ Surplus(size) <= SendBuf
             /\ push' \in Resized(push, Surplus(size))
             /\ usr' = [usr EXCEPT ![u].pc = "idle", ![u].win = size]
          \/ /\ size = NoBuffersize
             /\ usr' = [usr EXCEPT ![u].pc = "idle", ![u].win = SendBuf]
             /\ UNCHANGED push
    /\ UNCHANGED <<shut, nextId, pending, fut, own, wrk>>

\* The setter of send_buf raises: the socket is closed, or the value is above
\* the maximum.
Map_raises(u) ==
    /\ usr[u].pc = "map"
    /\ \E size \in Buffersizes \ {NoBuffersize} : ~push.open \/ Surplus(size) > SendBuf
    /\ usr' = [usr EXCEPT ![u].pc = "over"]
    /\ UNCHANGED <<shut, nextId, pending, push, fut, own, wrk>>

\* The oldest result is waited for: it is yielded, or raised out of map(),
\* which then does not restore the buffer.
Map_result(u) ==
    LET f == <<u, usr[u].got + 1>>
    IN  /\ u \in Mappers
        /\ usr[u].pc = "idle"
        /\ Window(u) > 0
        /\ Full(u) \/ usr[u].made = Tasks[u]
        /\ Settled(f)
        /\ usr' = [usr EXCEPT ![u].pc = IF fut[f] = "result" THEN @ ELSE "over",
                              ![u].got = IF fut[f] = "result" THEN @ + 1 ELSE @]
        /\ UNCHANGED <<shut, nextId, pending, push, fut, own, wrk>>

\* The limit is the maximum again, so nothing is flushed here.
Map_end(u) ==
    /\ u \in Mappers
    /\ usr[u].pc = "idle"
    /\ usr[u].got = Tasks[u]
    /\ usr' = [usr EXCEPT ![u].pc = "over"]
    /\ push' = [push EXCEPT !.limit = IF push.open THEN SendBuf ELSE @]
    /\ UNCHANGED <<shut, nextId, pending, fut, own, wrk>>

\* result(timeout) expires, or the consumer drops the generator.
Map_abandoned(u) ==
    /\ u \in Mappers
    /\ usr[u].pc = "idle"
    /\ Window(u) > 0
    /\ usr' = [usr EXCEPT ![u].pc = "over"]
    /\ UNCHANGED <<shut, nextId, pending, push, fut, own, wrk>>

----------------------------------------------------------------------------
(* shutdown(), called by the owner or by __exit__().  A second call finds  *)
(* _shutdown set and returns at once, whether the workers have ended or not. *)

Shutdown(wait, cancel) ==
    /\ own.pc = "body"
    /\ own' = [pc |-> IF cancel THEN "cancel" ELSE "close", wait |-> wait]
    /\ shut' = TRUE
    /\ UNCHANGED <<nextId, pending, push, fut, usr, wrk>>

\* popitem() and cancel(), until _pending is empty.
Shutdown_cancel ==
    /\ own.pc = "cancel"
    /\ \/ \E i \in DOMAIN pending :
             /\ pending' = Pop(pending, i)
             /\ fut' = [fut EXCEPT ![pending[i]] = IF @ = "pending" THEN "cancelled" ELSE @]
             /\ UNCHANGED own
       \/ /\ DOMAIN pending = {}
          /\ own' = [own EXCEPT !.pc = "close"]
          /\ UNCHANGED <<pending, fut>>
    /\ UNCHANGED <<shut, nextId, push, usr, wrk>>

\* _push.close(): every pipe is removed, with what it holds.
Unplugged(r) ==
    [r EXCEPT !.pipe = IF @ = "open" THEN "removed" ELSE @, !.slot = NoId]

Shutdown_close ==
    /\ own.pc = "close"
    /\ push' = [push EXCEPT !.open = FALSE, !.buf = <<>>]
    /\ wrk' = [w \in Workers |-> Unplugged(wrk[w])]
    /\ own' = [own EXCEPT !.pc = IF own.wait THEN "join" ELSE "back"]
    /\ UNCHANGED <<shut, nextId, pending, fut, usr>>

\* join() of every worker.
SomeWorkerOver == \E w \in Workers : wrk[w].pc = "over"     \* variant
AllWorkersOver == \A w \in Workers : wrk[w].pc = "over"

Shutdown_join ==
    /\ own.pc = "join"
    /\ AllWorkersOver
    /\ own' = [own EXCEPT !.pc = "back"]
    /\ UNCHANGED <<shut, nextId, pending, push, fut, usr, wrk>>

----------------------------------------------------------------------------
(* _worker_loop() of worker w.                                             *)

\* The thread ends and its socket is closed.
Ended(r) == [Unplugged(r) EXCEPT !.pc = "over", !.pull = FALSE, !.run = NoFuture, !.id = NoId]

\* dialer.start(block=True): raises when nobody listens.
Worker_dial(w) ==
    /\ wrk[w].pc = "dial"
    /\ wrk' = [wrk EXCEPT ![w] = IF push.open
                                 THEN [@ EXCEPT !.pc = "pipe", !.pipe = "open"]
                                 ELSE Ended(@)]
    /\ UNCHANGED <<shut, nextId, pending, push, fut, usr, own>>

\* dialer.pipe: the assertion fails when the pipe has gone.
Worker_pipe(w) ==
    /\ wrk[w].pc = "pipe"
    /\ wrk' = [wrk EXCEPT ![w] = IF wrk[w].pipe = "open"
                                 THEN [@ EXCEPT !.pc = "register"] ELSE Ended(@)]
    /\ UNCHANGED <<shut, nextId, pending, push, fut, usr, own>>

\* on_status_change is set; the setter does not look at the status.
Worker_register(w) ==
    /\ wrk[w].pc = "register"
    /\ wrk' = [wrk EXCEPT ![w].pc = "recv", ![w].cb = TRUE,
                          ![w].late = wrk[w].told]
    /\ UNCHANGED <<shut, nextId, pending, push, fut, usr, own>>

\* The dispatcher thread reports the removal of the pipe: the callback, if
\* there is one, closes the PULL socket.
StatusIgnored(r) == [r EXCEPT !.told = TRUE]    \* variant: another status is tested
OnPipeStatusChange(r) == [r EXCEPT !.told = TRUE, !.pull = IF r.cb THEN FALSE ELSE @]

PipeRemoved(w) ==
    /\ wrk[w].pipe = "removed"
    /\ ~wrk[w].told
    /\ wrk[w].pc # "over"
    /\ wrk' = [wrk EXCEPT ![w] = OnPipeStatusChange(@)]
    /\ UNCHANGED <<shut, nextId, pending, push, fut, usr, own>>

\* pull.recv() returns an id, or raises, and the loop is left.
Worker_recv(w) ==
    /\ wrk[w].pc = "recv"
    /\ \/ /\ wrk[w].pull /\ wrk[w].slot # NoId
          /\ wrk' = [wrk EXCEPT ![w].pc = "got", ![w].id = wrk[w].slot, ![w].slot = NoId]
       \/ /\ ~wrk[w].pull
          /\ wrk' = [wrk EXCEPT ![w] = Ended(@)]
    /\ UNCHANGED <<shut, nextId, pending, push, fut, usr, own>>

\* pop() of the entry: nothing is done without one, or if it is cancelled.
Worker_pop(w) ==
    /\ wrk[w].pc = "got"
    /\ LET f == Popped(pending, wrk[w].id)
           work == f # NoFuture /\ fut[f] # "cancelled"
       IN  wrk' = [wrk EXCEPT ![w].pc = IF work THEN "run" ELSE "recv",
                              ![w].run = IF work THEN f ELSE NoFuture, ![w].id = NoId]
    /\ pending' = Pop(pending, wrk[w].id)
    /\ UNCHANGED <<shut, nextId, push, fut, usr, own>>

\* Variant: an exception of the function is swallowed.
Worker_run_swallows(w) ==
    /\ wrk[w].pc = "run"
    /\ \/ fut' = [fut EXCEPT ![wrk[w].run] = IF @ = "pending" THEN "result" ELSE @]
       \/ UNCHANGED fut
    /\ wrk' = [wrk EXCEPT ![w].pc = "recv", ![w].run = NoFuture]
    /\ UNCHANGED <<shut, nextId, pending, push, usr, own>>

\* The function returns or raises.  On a future cancelled since the test,
\* set_result() raises, the handler's set_exception() raises again, and the
\* thread ends.
Worker_run(w) ==
    /\ wrk[w].pc = "run"
    /\ \/ /\ fut[wrk[w].run] = "pending"
          /\ \E outcome \in {"result", "exception"} :
                fut' = [fut EXCEPT ![wrk[w].run] = outcome]
          /\ wrk' = [wrk EXCEPT ![w].pc = "recv", ![w].run = NoFuture]
       \/ /\ fut[wrk[w].run] # "pending"
          /\ wrk' = [wrk EXCEPT ![w] = [Ended(@) EXCEPT !.killed = TRUE]]
          /\ UNCHANGED fut
    /\ UNCHANGED <<shut, nextId, pending, push, usr, own>>

----------------------------------------------------------------------------
SubmitStep(u) ==
    Submit_check(u) \/ Submit_id(u) \/ Submit_store(u) \/ Submit_send(u)

MapStep(u) == Map(u) \/ Map_raises(u) \/ Map_result(u) \/ Map_end(u)

ShutdownStep == Shutdown_cancel \/ Shutdown_close \/ Shutdown_join

WorkerStep(w) ==
    \/ Worker_dial(w)
    \/ Worker_pipe(w)
    \/ Worker_register(w)
    \/ Worker_recv(w)
    \/ Worker_pop(w)
    \/ Worker_run(w)

NngStep(w) == Deliver(w) \/ PipeRemoved(w)

Next ==
    \/ \E u \in Users : SubmitStep(u) \/ MapStep(u) \/ Map_abandoned(u)
    \/ \E f \in Futures : Cancel(f)
    \/ \E wait, cancel \in BOOLEAN : Shutdown(wait, cancel)
    \/ ShutdownStep
    \/ \E w \in Workers : WorkerStep(w) \/ NngStep(w)

\* Threads are scheduled, functions return and nng delivers.  Nobody need
\* cancel a future, drop a generator or call shutdown().
Spec ==
    /\ Init /\ [][Next]_vars
    /\ \A u \in Users : WF_vars(SubmitStep(u) \/ MapStep(u))
    /\ WF_vars(ShutdownStep)
    /\ \A w \in Workers : WF_vars(WorkerStep(w))
    /\ WF_vars(\E w \in Workers : NngStep(w))

----------------------------------------------------------------------------
(* Properties.                                                             *)

\* Where the call id of future f is, and who runs it.
IdsOf(f) == {i \in DOMAIN pending : pending[i] = f}
Queued(i) == {n \in 1..Len(push.buf) : push.buf[n] = i}
Sending(f) == {u \in Users : usr[u].pc = "send" /\ Current(u) = f /\ usr[u].id \in IdsOf(f)}
InHand(i) == {w \in Workers : i \in {wrk[w].slot, wrk[w].id}}
RunBy(f) == {w \in Workers : wrk[w].run = f}

Paths(f) ==
    Cardinality(Sending(f)) + Cardinality(RunBy(f))
        + Cardinality({p \in IdsOf(f) \X (1..Len(push.buf)) : p[2] \in Queued(p[1])})
        + Cardinality({p \in IdsOf(f) \X Workers : p[2] \in InHand(p[1])})

Stored(f) == fut[f] = "pending" /\ ~(usr[f[1]].pc = "store" /\ Current(f[1]) = f)
WorkerKilled == \E w \in Workers : wrk[w].killed

(* No work item ever has two ways to be run.  And until the PUSH socket is *)
(* closed, a future that is not set has exactly one: one call id under     *)
(* which _pending knows it and which is being sent, in the buffer or with  *)
(* one worker, or one worker that has popped it; unless a worker was       *)
(* killed by a cancel() that came while it ran, or map() lowered send_buf  *)
(* below what was queued and nng flushed ids.                              *)
FutureHasOnePath ==
    \A f \in Futures :
        /\ Paths(f) <= 1
        /\ push.open /\ ~WorkerKilled /\ ~push.flushed /\ Stored(f) => Paths(f) = 1

(* shutdown(wait=True) comes back to a quiet pool: no worker runs, and     *)
(* every item that a worker took was finished; what is left was lost with  *)
(* the PUSH socket, stays in _pending, and its future is never set.        *)
JoinedPoolIsQuiet ==
    own.pc = "back" /\ own.wait =>
        /\ \A w \in Workers : wrk[w].pc = "over"
        /\ \A f \in Futures : Stored(f) => IdsOf(f) # {}

(* Every work item whose future was returned is settled in the end, with   *)
(* full buffers, windows and failing functions, unless the pool is shut    *)
(* down, a worker was killed, or map() lowered send_buf below what was     *)
(* queued and nng flushed ids.                                             *)
SubmittedIsSettled ==
    <>[](\/ shut
         \/ WorkerKilled
         \/ push.flushed
         \/ \A f \in Futures : f[2] <= usr[f[1]].made => Settled(f))

(* shutdown() comes back, unless a worker registered its callback after    *)
(* the removal of its pipe was reported: that worker waits in recv() for   *)
(* ever, and join() for it.                                                *)
ShutdownReturns == shut ~> own.pc = "back" \/ \E w \in Workers : wrk[w].late

=============================================================================
