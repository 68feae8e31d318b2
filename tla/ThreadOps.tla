------------------------------ MODULE ThreadOps ------------------------------
(***************************************************************************)
(* Operations from ordinary threads: the blocking send() and recv() of a   *)
(* Socket (nng/_socket.pxi), submit_send() and submit_recv(), which return *)
(* a concurrent.futures.Future (nng/_aio_cb_sync.pxi), the dispatcher      *)
(* thread that resolves these futures (nng/_nng.pyx, nng/cpp/dispatch.hpp) *)
(* and the start and the end of the library.  It follows the nng_msg of    *)
(* each call: who owns it, and who has to free it.                         *)
(*                                                                         *)
(* A slot is one call; for submit_*() it is also the address of the        *)
(* _AioCbSync object, the id that travels through _DISPATCH_QUEUE.  One    *)
(* Message object is shared by all callers, and they may also send bytes,  *)
(* which are copied into a message of their own.                           *)
(***************************************************************************)
EXTENDS Naturals, Sequences, Functions, FiniteSets

CONSTANTS Slots,      \* calls; addresses of _AioCbSync objects
          NoOp,       \* the dispatcher is between two operations
          Plans,      \* the programs: which calls each makes in which slot
          Gil,        \* whether the interpreter has one
          MaxViews    \* bound: buffers exported from the Message at once

Blocking == {"send", "nonblock", "recv", "nonblock_recv"}
Futures  == {"submit_send", "submit_recv"}
Sends    == {"send", "nonblock", "submit_send"}

\* A method and what it is given: the shared Message, bytes, or nothing.
CallKinds == (Sends \X {"message", "copy"}) \cup ({"recv", "nonblock_recv", "submit_recv"} \X {"none"})

ASSUME SlotsAssumption == NoOp \notin Slots
ASSUME PlansAssumption == Plans \subseteq [Slots -> SUBSET CallKinds]
ASSUME GilAssumption   == Gil \in BOOLEAN
ASSUME ViewsAssumption == MaxViews \in Nat

VARIABLES plan,    \* the calls the program makes in each slot
          lib,     \* the library: _nng_initialized, _stopped, how far _nng_fini is
          disp,    \* the dispatcher thread and the operation it resolves
          queue,   \* _DISPATCH_QUEUE
          reg,     \* keys of _DISPATCH_CALLABLES
          sock,    \* the SocketHandle
          msg,     \* the shared Message
          call,    \* the calls, their futures and their nng_msg
          aio      \* their nng_aios

vars == <<plan, lib, disp, queue, reg, sock, msg, call, aio>>

Results == {"ok", "error"}

CallType == [pc   : {"free", "nng", "first", "poll", "signal", "returned", "cancelling",
                     "cancelwait", "done"},
             kind : Blocking \cup Futures,
             src  : {"message", "copy", "none"},       \* what is sent
             ptr  : {"none", "call", "nng", "message", "user", "freed"},  \* who owns the nng_msg
             held : BOOLEAN,                           \* _future is not None
             fut  : {"none", "pending", "cancelled"} \cup Results,
             out  : {"none", "signal"} \cup Results]   \* how a blocking call ended

AioType == [st : {"new", "busy", "ended", "pushed", "idle"}, result : Results]

TypeOK ==
    /\ plan \in Plans
    /\ lib \in [init : BOOLEAN, stopped : BOOLEAN, late : BOOLEAN,
                fini : {"no", "join", "clear", "down"}]
    /\ disp \in [pc : {"none", "drain", "check", "wait", "complete", "set", "exited"},
                 cur : Slots \cup {NoOp}]
    /\ queue \in Seq(Slots)
    /\ reg \subseteq Slots
    /\ sock \in [open : BOOLEAN, nng : BOOLEAN]
    /\ msg \in [full : BOOLEAN, views : 0..MaxViews]
    /\ call \in [Slots -> CallType]
    /\ aio \in [Slots -> AioType]

NewCall == [pc |-> "free", kind |-> "recv", src |-> "none", ptr |-> "none", held |-> FALSE,
            fut |-> "none", out |-> "none"]
NewAio  == [st |-> "new", result |-> "ok"]

\* The Socket is the one that the program opens once the library is up.
Init ==
    /\ plan \in Plans
    /\ lib = [init |-> FALSE, stopped |-> FALSE, late |-> FALSE, fini |-> "no"]
    /\ disp = [pc |-> "none", cur |-> NoOp]
    /\ queue = <<>>
    /\ reg = {}
    /\ sock = [open |-> TRUE, nng |-> TRUE]
    /\ msg = [full |-> TRUE, views |-> 0]
    /\ call = [s \in Slots |-> NewCall]
    /\ aio = [s \in Slots |-> NewAio]

-----------------------------------------------------------------------------
(* Slips in the code that the properties must notice; no action uses them. *)

\* The call uses the Message's pointer without emptying the Message.
Mutant_MessageNotEmptied(s, k, src) ==
    /\ lib.init /\ ~lib.stopped /\ sock.open
    /\ call[s].pc = "free"
    /\ src = "message" => msg.full /\ msg.views = 0
    /\ call' = [call EXCEPT ![s] =
                   [NewCall EXCEPT !.pc = "nng", !.kind = k, !.src = src,
                                   !.ptr = IF src = "none" THEN "none" ELSE "call",
                                   !.held = k \in Futures,
                                   !.fut = IF k \in Futures THEN "pending" ELSE "none"]]
    /\ reg' = IF k \in Futures THEN reg \cup {s} ELSE reg
    /\ UNCHANGED <<plan, lib, disp, queue, sock, aio, msg>>

\* _prepare_submit() is not called.
Mutant_NotRegistered(s, k) == reg' = reg

\* A signal does not cancel the aio.
Mutant_SignalDoesNotCancel(s) ==
    /\ call[s].pc = "poll"
    /\ call' = [call EXCEPT ![s].pc = "signal"]
    /\ UNCHANGED <<plan, lib, disp, queue, reg, sock, msg, aio>>

\* A signal raises without a look at the aio's result.
Mutant_SignalDropsMessage(s) ==
    /\ call[s].pc = "signal"
    /\ aio[s].st \notin {"busy", "ended", "pushed"}
    /\ call' = [call EXCEPT ![s].pc = "done", ![s].out = "signal"]
    /\ UNCHANGED <<plan, lib, disp, queue, reg, sock, msg, aio>>

\* The dispatcher looks at _stopped before it drains the queue.
Mutant_StopsBeforeDrained ==
    /\ disp.pc = "drain"
    /\ disp' = [disp EXCEPT !.pc = "check"]
    /\ UNCHANGED <<plan, lib, queue, reg, sock, msg, call, aio>>

\* _dispatch_complete() does not look at the result of a send.
Mutant_ResultIgnored ==
    /\ disp.pc = "set"
    /\ call' = [call EXCEPT ![disp.cur].fut = IF @ = "pending" THEN "ok" ELSE @]
    /\ disp' = [pc |-> "drain", cur |-> NoOp]
    /\ UNCHANGED <<plan, lib, queue, reg, sock, msg, aio>>

-----------------------------------------------------------------------------
(* nng (external).  An aio with a callback ends, runs it on one of nng's   *)
(* threads and is busy until it has returned; an aio without one is done   *)
(* when it ends.  nng owns the message of a send that succeeds.            *)

IsFuture(s) == call[s].kind \in Futures
Busy(s)     == aio[s].st \in {"busy", "ended", "pushed"}

EndAio(s, r) == [st |-> IF IsFuture(s) THEN "ended" ELSE "idle", result |-> r]

Abort(s) == IF aio[s].st = "busy" THEN EndAio(s, "error") ELSE aio[s]

Complete(s, r) ==
    /\ aio[s].st = "busy"
    /\ aio' = [aio EXCEPT ![s] = EndAio(s, r)]
    /\ call' = IF r # "ok" THEN call
               ELSE [call EXCEPT ![s].ptr = IF call[s].kind \in Sends THEN "nng" ELSE "call"]
    /\ UNCHANGED <<plan, lib, disp, queue, reg, sock, msg>>

-----------------------------------------------------------------------------
(* The shared Message, each method under its _lock.                        *)

\* _check_full_ownership() and _steal_ptr()
CanSteal == msg.full /\ msg.views = 0

GetBuffer ==
    /\ msg.full
    /\ msg.views < MaxViews
    /\ msg' = [msg EXCEPT !.views = @ + 1]
    /\ UNCHANGED <<plan, lib, disp, queue, reg, sock, call, aio>>

ReleaseBuffer ==
    /\ msg.views > 0
    /\ msg' = [msg EXCEPT !.views = @ - 1]
    /\ UNCHANGED <<plan, lib, disp, queue, reg, sock, call, aio>>

-----------------------------------------------------------------------------
(* The first half of every call: _check(), take the message (a Message is  *)
(* emptied, bytes are copied), and for submit_*() create the operation     *)
(* with its future and register it.                                        *)

PrepareSubmit(s, k) == reg' = IF k \in Futures THEN reg \cup {s} ELSE reg

Call(s, k, src) ==
    /\ lib.init /\ ~lib.stopped
    /\ sock.open
    /\ call[s].pc = "free"
    /\ src = "message" => CanSteal
    /\ msg' = IF src = "message" THEN [msg EXCEPT !.full = FALSE] ELSE msg
    /\ call' = [call EXCEPT ![s] =
                   [NewCall EXCEPT !.pc = "nng", !.kind = k, !.src = src,
                                   !.ptr = IF src = "none" THEN "none" ELSE "call",
                                   !.held = k \in Futures,
                                   !.fut = IF k \in Futures THEN "pending" ELSE "none"]]
    /\ PrepareSubmit(s, k)
    /\ UNCHANGED <<plan, lib, disp, queue, sock, aio>>

\* The other half: nng_socket_send or nng_socket_recv, without the GIL.
NngCall(s) ==
    /\ call[s].pc = "nng"
    /\ call[s].kind \notin {"nonblock", "nonblock_recv"}
    /\ aio' = [aio EXCEPT ![s] = IF sock.nng THEN [@ EXCEPT !.st = "busy"] ELSE EndAio(s, "error")]
    /\ call' = [call EXCEPT ![s].pc = IF IsFuture(s) THEN "returned" ELSE "first"]
    /\ UNCHANGED <<plan, lib, disp, queue, reg, sock, msg>>

-----------------------------------------------------------------------------
(* The blocking calls.                                                     *)

\* The call ends with outcome o: a send that failed frees its copy or gives
\* the message back, a recv that succeeded hands its message to heir.
Leave(s, o, failed, heir) ==
    /\ call' = [call EXCEPT ![s].pc = "done", ![s].out = o,
                            ![s].ptr = IF @ # "call" THEN @
                                       ELSE IF ~failed THEN heir
                                       ELSE IF call[s].src = "message" THEN "message" ELSE "freed"]
    /\ msg' = IF failed /\ call[s].src = "message" THEN [msg EXCEPT !.full = TRUE] ELSE msg
    /\ aio' = [aio EXCEPT ![s] = NewAio]
    /\ UNCHANGED <<plan, lib, disp, queue, reg, sock>>

\* send(nonblock=True): nng_sendmsg, then the same.
SendNonblock(s, r) ==
    /\ call[s].pc = "nng"
    /\ call[s].kind = "nonblock"
    /\ r = "ok" => sock.nng
    /\ Leave(s, r, r # "ok", "nng")

\* recv(nonblock=True): nng_recvmsg.
RecvNonblock(s, r) ==
    /\ call[s].pc = "nng"
    /\ call[s].kind = "nonblock_recv"
    /\ r = "ok" => sock.nng
    /\ call' = [call EXCEPT ![s].pc = "done", ![s].out = r,
                            ![s].ptr = IF r = "ok" THEN "user" ELSE "none"]
    /\ UNCHANGED <<plan, lib, disp, queue, reg, sock, msg, aio>>

\* nng_aio_wait_until says busy after 100 ms.
WaitTimesOut(s) ==
    /\ call[s].pc = "first"
    /\ Busy(s)
    /\ call' = [call EXCEPT ![s].pc = "poll"]
    /\ UNCHANGED <<plan, lib, disp, queue, reg, sock, msg, aio>>

\* The wait ends because the aio has: check_err, or hand the message over.
Settle(s) ==
    /\ call[s].pc \in {"first", "poll"}
    /\ ~Busy(s)
    /\ Leave(s, aio[s].result, aio[s].result # "ok", "user")

\* PyErr_CheckSignals() raises between two waits: cancel what is busy ...
Signal(s) ==
    /\ call[s].pc = "poll"
    /\ aio' = [aio EXCEPT ![s] = Abort(s)]
    /\ call' = [call EXCEPT ![s].pc = "signal"]
    /\ UNCHANGED <<plan, lib, disp, queue, reg, sock, msg>>

\* ... and look at the result: a send may have succeeded, a recv may have a
\* message, which is freed.
SignalRaise(s) ==
    /\ call[s].pc = "signal"
    /\ ~Busy(s)
    /\ Leave(s, "signal", aio[s].result # "ok", "freed")

-----------------------------------------------------------------------------
(* The completion of a future: the trampoline on nng's thread, which still *)
(* has to return once the id is in the queue, then the dispatcher.         *)

Trampoline(s) ==
    /\ aio[s].st = "ended"
    /\ queue' = Append(queue, s)
    /\ aio' = [aio EXCEPT ![s].st = "pushed"]
    /\ UNCHANGED <<plan, lib, disp, reg, sock, msg, call>>

CallbackReturns(s) ==
    /\ aio[s].st = "pushed"
    /\ aio' = [aio EXCEPT ![s].st = "idle"]
    /\ UNCHANGED <<plan, lib, disp, queue, reg, sock, msg, call>>

\* get_ready() or wait_for() yields an id, _dispatch_one() pops its callback.
DispatchOne ==
    LET s == Head(queue)
    IN  /\ queue' = Tail(queue)
        /\ reg' = reg \ {s}
        /\ disp' = IF s \in reg THEN [pc |-> "complete", cur |-> s]
                                ELSE [pc |-> "drain", cur |-> NoOp]

DispDrain ==
    /\ disp.pc = "drain"
    /\ \/ queue # <<>> /\ DispatchOne
       \/ queue = <<>> /\ disp' = [disp EXCEPT !.pc = "check"] /\ UNCHANGED <<queue, reg>>
    /\ UNCHANGED <<plan, lib, sock, msg, call, aio>>

DispCheck ==
    /\ disp.pc = "check"
    /\ disp' = [disp EXCEPT !.pc = IF lib.stopped THEN "exited" ELSE "wait"]
    /\ UNCHANGED <<plan, lib, queue, reg, sock, msg, call, aio>>

\* wait_for(): an id, or nothing after 150 ms or once the queue is stopped.
DispWait ==
    /\ disp.pc = "wait"
    /\ \/ queue # <<>> /\ DispatchOne
       \/ queue = <<>> /\ disp' = [disp EXCEPT !.pc = "drain"] /\ UNCHANGED <<queue, reg>>
    /\ UNCHANGED <<plan, lib, sock, msg, call, aio>>

\* _dispatch_complete(): take the future, and if it is not done ...
DispComplete ==
    /\ disp.pc = "complete"
    /\ LET s == disp.cur
       IN  /\ call' = [call EXCEPT ![s].held = FALSE]
           /\ disp' = IF call[s].held /\ call[s].fut = "pending"
                      THEN [disp EXCEPT !.pc = "set"]
                      ELSE [pc |-> "drain", cur |-> NoOp]
    /\ UNCHANGED <<plan, lib, queue, reg, sock, msg, aio>>

\* ... resolve it.  Cancelled meanwhile, it raises InvalidStateError, which
\* _dispatch_one() prints; the Message that was made goes with it.
DispSet ==
    /\ disp.pc = "set"
    /\ LET s == disp.cur
           pending == call[s].fut = "pending"
           received == call[s].kind = "submit_recv" /\ call[s].ptr = "call"
       IN  call' = [call EXCEPT ![s].fut = IF pending THEN aio[s].result ELSE @,
                                ![s].ptr = IF ~received THEN @
                                           ELSE IF pending THEN "user" ELSE "freed"]
    /\ disp' = [pc |-> "drain", cur |-> NoOp]
    /\ UNCHANGED <<plan, lib, queue, reg, sock, msg, aio>>

-----------------------------------------------------------------------------
(* Future.cancel() by the caller: the future is cancelled, then _on_cancel *)
(* cancels the aio and waits for its callback.                             *)

Cancel(s) ==
    /\ call[s].pc = "returned"
    /\ call[s].fut = "pending"
    /\ call' = [call EXCEPT ![s].pc = "cancelling", ![s].fut = "cancelled"]
    /\ UNCHANGED <<plan, lib, disp, queue, reg, sock, msg, aio>>

OnFutureCancel(s) ==
    /\ call[s].pc = "cancelling"
    /\ aio' = [aio EXCEPT ![s] = Abort(s)]
    /\ call' = [call EXCEPT ![s].pc = "cancelwait"]
    /\ UNCHANGED <<plan, lib, disp, queue, reg, sock, msg>>

CancelReturns(s) ==
    /\ call[s].pc = "cancelwait"
    /\ ~Busy(s)
    /\ call' = [call EXCEPT ![s].pc = "returned"]
    /\ UNCHANGED <<plan, lib, disp, queue, reg, sock, msg, aio>>

\* A blocking call's frame goes when it returns.  An operation goes when the
\* caller has dropped its future, whose done callbacks refer to it, and the
\* dispatcher does not need it: ~AioHandle() stops an aio that is busy.
Free(s) ==
    /\ \/ call[s].pc = "done"
       \/ call[s].pc = "returned" /\ s \notin reg /\ disp.cur # s
    /\ ~Busy(s)
    /\ call' = [call EXCEPT ![s] = NewCall]
    /\ aio' = [aio EXCEPT ![s] = NewAio]
    /\ UNCHANGED <<plan, lib, disp, queue, reg, sock, msg>>

-----------------------------------------------------------------------------
(* Socket.close(): nng_socket_close ends what is busy, then the id goes.   *)

CloseNng ==
    /\ sock.open
    /\ sock.nng
    /\ sock' = [sock EXCEPT !.nng = FALSE]
    /\ aio' = [s \in Slots |-> Abort(s)]
    /\ UNCHANGED <<plan, lib, disp, queue, reg, msg, call>>

CloseClearId ==
    /\ ~sock.nng
    /\ sock.open
    /\ sock' = [sock EXCEPT !.open = FALSE]
    /\ UNCHANGED <<plan, lib, disp, queue, reg, msg, call, aio>>

-----------------------------------------------------------------------------
(* The library: check_nng_init() or initialize(), and _nng_fini() at exit. *)

NngInit ==
    /\ ~lib.init
    /\ lib.fini = "no"
    /\ lib' = [lib EXCEPT !.init = TRUE]
    /\ UNCHANGED <<plan, disp, queue, reg, sock, msg, call, aio>>

StartDispatchThread ==
    /\ lib.init
    /\ disp.pc = "none"
    /\ disp' = [disp EXCEPT !.pc = "drain"]
    /\ UNCHANGED <<plan, lib, queue, reg, sock, msg, call, aio>>

\* With a GIL not between the dispatcher's last get_ready() and is_stopped().
FiniStop ==
    /\ lib.init
    /\ lib.fini = "no"
    /\ Gil => disp.pc # "check"
    /\ lib' = [lib EXCEPT !.stopped = TRUE, !.fini = "join"]
    /\ UNCHANGED <<plan, disp, queue, reg, sock, msg, call, aio>>

\* join(timeout=2.0)
FiniJoin ==
    /\ lib.fini = "join"
    /\ lib' = [lib EXCEPT !.fini = "clear", !.late = disp.pc # "exited"]
    /\ UNCHANGED <<plan, disp, queue, reg, sock, msg, call, aio>>

\* The registered callbacks are dropped, then nng_fini() closes every socket.
FiniClear ==
    /\ lib.fini = "clear"
    /\ lib' = [lib EXCEPT !.fini = "down", !.init = FALSE]
    /\ reg' = {}
    /\ sock' = [sock EXCEPT !.nng = FALSE]
    /\ aio' = [s \in Slots |-> Abort(s)]
    /\ UNCHANGED <<plan, disp, queue, msg, call>>

-----------------------------------------------------------------------------
CallStep(s) ==
    NngCall(s) \/ Settle(s) \/ SignalRaise(s) \/ OnFutureCancel(s) \/ CancelReturns(s)

DispatchStep == DispDrain \/ DispCheck \/ DispWait \/ DispComplete \/ DispSet

NngCallback(s) == Trampoline(s) \/ CallbackReturns(s)

FiniStep == FiniJoin \/ FiniClear

Next ==
    \/ \E s \in Slots : \E c \in plan[s] : Call(s, c[1], c[2])
    \/ \E s \in Slots : CallStep(s) \/ NngCallback(s)
    \/ \E s \in Slots : WaitTimesOut(s) \/ Signal(s) \/ Cancel(s) \/ Free(s)
    \/ \E s \in Slots, r \in Results : SendNonblock(s, r) \/ RecvNonblock(s, r)
    \/ \E s \in Slots, r \in Results : Complete(s, r)
    \/ GetBuffer \/ ReleaseBuffer
    \/ DispatchStep
    \/ CloseNng \/ CloseClearId
    \/ NngInit \/ StartDispatchThread
    \/ FiniStop \/ FiniStep

Spec == Init /\ [][Next]_vars

(* A call goes on when it can, nng runs the callback of an aio that ended, *)
(* the dispatcher thread starts and runs.  Nothing obliges nng to complete *)
(* an operation, or a user to call, to cancel, to close or to exit.        *)
Fairness ==
    /\ \A s \in Slots : WF_vars(CallStep(s)) /\ WF_vars(NngCallback(s))
    /\ WF_vars(StartDispatchThread)
    /\ WF_vars(DispatchStep)

FairSpec == Spec /\ Fairness

-----------------------------------------------------------------------------
(* Until _nng_fini() has dropped the callbacks, an id in the queue is the  *)
(* completion of the operation that has this address now: it is there      *)
(* once, its registration keeps the operation alive, and its future has    *)
(* not been resolved by another completion.                                *)
QueuedIdIsCurrent ==
    /\ \A i, j \in DOMAIN queue : queue[i] = queue[j] => i = j
    /\ \A s \in Range(queue) :
          /\ s \in reg /\ s # disp.cur
          /\ IsFuture(s) /\ call[s].held /\ aio[s].st \in {"pushed", "idle"}

(* A future that its caller waits for has exactly one thing that will      *)
(* resolve it: its aio, its id in the queue, or the dispatcher.            *)
Dispatches(s) ==
    {d \in {"aio", "queue", "dispatcher"} :
        \/ d = "aio" /\ aio[s].st \in {"busy", "ended"} /\ s \in reg
        \/ d = "queue" /\ s \in Range(queue) /\ s \in reg
        \/ d = "dispatcher" /\ s = disp.cur}

FutureHasDispatch ==
    \A s \in Slots :
        call[s].pc = "returned" /\ call[s].fut = "pending" => Cardinality(Dispatches(s)) = 1

(* Operations are known to the dispatcher by address only: until           *)
(* _nng_fini() drops the callbacks, no id is dispatched to an operation    *)
(* that later got the address, none is dispatched twice, and no future     *)
(* that its caller waits for is without the step that resolves it.         *)
DispatchIsSound == lib.fini # "down" => QueuedIdIsCurrent /\ FutureHasDispatch

(* What a call reports is what happened to its message: success means that *)
(* nng has it, or that the caller got one; after an error nng does not     *)
(* have it, so that the caller may send it again.                          *)
OutcomeMatchesMessage ==
    \A s \in Slots :
        LET o == IF IsFuture(s) THEN call[s].fut ELSE call[s].out
        IN  /\ o = "ok" => call[s].ptr = IF call[s].kind \in Sends THEN "nng" ELSE "user"
            /\ o = "error" => call[s].ptr \notin {"nng", "user"}

(* The content of a Message belongs to the Message or to one call, and     *)
(* nobody sends, and nng so never frees, a body that a buffer looks into.  *)
Holders == {s \in Slots : call[s].src = "message" /\ call[s].ptr = "call"}
MessageHasOneOwner ==
    /\ Cardinality(Holders) <= 1
    /\ msg.full => Holders = {}
    /\ msg.views > 0 => msg.full

(* A blocking call that returns or raises has nothing left to free, and a  *)
(* Message that was not sent is whole again, also when a signal interrupts *)
(* the call or the socket is closed under it.                              *)
BlockingCallSettles ==
    [][\A s \in Slots :
          call[s].pc # "done" /\ call'[s].pc = "done" =>
              /\ call'[s].ptr # "call"
              /\ call'[s].src = "message" => (msg'.full <=> call'[s].ptr # "nng")]_vars

(* The documentation of Message: its content passes to nng "except when    *)
(* send fails", so whatever method has failed to send it does not keep it. *)
FailedSendKeepsMessage ==
    \A s \in Slots :
        call[s].src = "message" /\ "error" \in {call[s].out, call[s].fut} => call[s].ptr = "message"

(* A completion that is in the queue when _nng_fini() stops it is still    *)
(* dispatched ("exit once the queue is drained"), unless join() times out. *)
(* Without a GIL it is not: a push and the stop can both come between the  *)
(* dispatcher's last get_ready() and its is_stopped().                     *)
CompletionDelivered ==
    \A s \in Slots :
        s \in Range(queue) /\ ~lib.stopped ~> call[s].fut # "pending" \/ lib.late

(* close() gets blocking callers out, a signal gets one out, and cancel()  *)
(* of a future comes back although it waits for nng's callback.            *)
Interrupted(s) ==
    \/ call[s].pc \in {"first", "poll"} /\ ~sock.nng
    \/ call[s].pc \in {"signal", "cancelling", "cancelwait"}
InterruptedCallReturns ==
    \A s \in Slots : Interrupted(s) ~> call[s].pc \in {"done", "returned", "free"}
=============================================================================
