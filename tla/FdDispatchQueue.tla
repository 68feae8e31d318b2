-------------------------- MODULE FdDispatchQueue --------------------------
(***************************************************************************)
(* The wakeup protocol of the asyncio path: nng's callback threads call    *)
(* SockDispatchQueue::push, and the event loop runs                        *)
(* _AioAsyncManager._poll_readable_callback whenever the read end of the   *)
(* socket pair is readable.  The push and the byte are two steps, and the  *)
(* loop reads bytes and ids in two steps, so every overlap is possible.    *)
(*                                                                         *)
(* An id is the address of an operation that completes once; the address   *)
(* is reused by a new operation only after the old one was handled.        *)
(***************************************************************************)
EXTENDS SockQueueOps, Functions

CONSTANT Ops   \* ids of operations; each has the thread that completes it

VARIABLES q,       \* the queue
          tpc,     \* trampoline: "idle", or "wake" between push_back and send
          lpc,     \* loop: "select", "recv", "ready", "handle"
          batch    \* callbacks popped and not called yet

vars == <<q, tpc, lpc, batch>>

TypeOK ==
    /\ q \in QueueType(Ops)
    /\ tpc \in [Ops -> {"idle", "wake"}]
    /\ lpc \in {"select", "recv", "ready", "handle"}
    /\ batch \in Seq(Ops)

Init ==
    /\ q = EmptyQueue
    /\ tpc = [o \in Ops |-> "idle"]
    /\ lpc = "select"
    /\ batch = <<>>

-----------------------------------------------------------------------------
(* A slip in _poll_readable_callback: the bytes are read once more after   *)
(* the callbacks, to quieten the socket.                                   *)
Mutant_DrainsAfterCallbacks ==
    /\ lpc = "handle"
    /\ IF batch # <<>>
       THEN batch' = Tail(batch) /\ UNCHANGED <<lpc, q>>
       ELSE lpc' = "select" /\ q' = DrainWakeup(q) /\ UNCHANGED batch
    /\ UNCHANGED tpc

-----------------------------------------------------------------------------
(* push(op_id), called by the trampoline.                                  *)

Push(o) ==
    /\ tpc[o] = "idle"
    /\ o \notin Range(q.items) \cup Range(batch)
    /\ q' = PushBack(q, o)
    /\ tpc' = [tpc EXCEPT ![o] = IF WasEmpty(q) THEN "wake" ELSE "idle"]
    /\ UNCHANGED <<lpc, batch>>

Wake(o) ==
    /\ tpc[o] = "wake"
    /\ q' = SendByte(q)
    /\ tpc' = [tpc EXCEPT ![o] = "idle"]
    /\ UNCHANGED <<lpc, batch>>

-----------------------------------------------------------------------------
(* _poll_readable_callback on the event-loop thread.                       *)

Select ==
    /\ lpc = "select"
    /\ Readable(q)
    /\ lpc' = "recv"
    /\ UNCHANGED <<q, tpc, batch>>

\* drain_wakeup: recv() until it would block.
Recv ==
    /\ lpc = "recv"
    /\ IF Readable(q)
       THEN q' = DrainWakeup(q) /\ UNCHANGED lpc
       ELSE lpc' = "ready" /\ UNCHANGED q
    /\ UNCHANGED <<tpc, batch>>

Ready ==
    /\ lpc = "ready"
    /\ batch' = q.items
    /\ q' = DrainReady(q)
    /\ lpc' = "handle"
    /\ UNCHANGED tpc

\* The callbacks in FIFO order; then back to the selector.
Handle ==
    /\ lpc = "handle"
    /\ IF batch # <<>>
       THEN batch' = Tail(batch) /\ UNCHANGED lpc
       ELSE lpc' = "select" /\ UNCHANGED batch
    /\ UNCHANGED <<q, tpc>>

LoopStep == Select \/ Recv \/ Ready \/ Handle

Next == LoopStep \/ \E o \in Ops : Push(o) \/ Wake(o)

Spec == Init /\ [][Next]_vars

(* The event loop keeps running and a trampoline that started returns; no  *)
(* operation is obliged to complete.                                       *)
FairSpec == Spec /\ WF_vars(LoopStep) /\ \A o \in Ops : WF_vars(Wake(o))

-----------------------------------------------------------------------------
(* The inductive invariant: while the loop is not draining there is exactly *)
(* one wakeup in flight if the deque is not empty (a byte in the socket, or *)
(* a trampoline about to send it), and none if it is empty.                *)

Waking == {o \in Ops : tpc[o] = "wake"}

WakeupInv ==
    /\ \A o, p \in Waking : o = p
    /\ lpc \in {"select", "handle"} /\ q.items # <<>> => (q.bytes = 1 <=> Waking = {})
    /\ lpc \in {"select", "handle"} /\ q.items = <<>> => q.bytes = 0 /\ Waking = {}
    /\ lpc \in {"recv", "ready"} => q.items # <<>> /\ Waking = {}
    /\ lpc = "ready" => q.bytes = 0
    /\ q.bytes \in {0, 1}
    /\ lpc # "handle" => batch = <<>>

IInv == TypeOK /\ WakeupInv

(* No lost wakeup: when the loop sits in the selector on an unreadable     *)
(* socket and the deque is not empty, the trampoline that found it empty   *)
(* has still to send its byte.  It depends on push_back coming before the  *)
(* byte and on drain_wakeup coming before drain_ready.                     *)
NoLostWakeup ==
    q.items # <<>> /\ lpc \in {"select", "handle"} =>
        Readable(q) \/ \E o \in Ops : tpc[o] = "wake"

(* At most one wakeup is in flight, byte in the socket or trampoline about *)
(* to send it: so the send() whose result push() ignores never meets a     *)
(* full socket, and a burst of completions wakes the loop once.            *)
OneWakeup ==
    /\ q.bytes <= 1
    /\ \A o, p \in Waking : o = p
    /\ Waking # {} => q.bytes = 0

(* The deque with its socket pair implements a mailbox: ids are handled in *)
(* the order they were pushed, none is lost or repeated, and none waits    *)
(* for ever although the byte and the id travel separately.                *)
Abstract == INSTANCE Mailbox WITH Ids <- Ops, pending <- q.items
ImplementsMailbox == Abstract!FairSpec
=============================================================================
