---------------------------- MODULE SockQueueOps ----------------------------
(***************************************************************************)
(* SockDispatchQueue (nng/cpp/platform.hpp): a deque of op ids behind a    *)
(* mutex, and a socket pair whose bytes tell the event loop that the deque *)
(* is worth looking at.  A queue is a record; each operator is what one    *)
(* critical section, or one call on the socket pair, does to it.           *)
(***************************************************************************)
EXTENDS Naturals, Sequences

CONSTANT SockBuf   \* bytes the socket pair holds before send() drops one

ASSUME SockBufAssumption == SockBuf \in Nat \ {0}

EmptyQueue == [items |-> <<>>, bytes |-> 0]

QueueType(Ids) == [items : Seq(Ids), bytes : 0..SockBuf]

-----------------------------------------------------------------------------
(* Slips in platform.hpp that the properties of the modules that use the   *)
(* queue must notice; no action uses them.                                 *)

\* was_empty is read after the push_back.
Mutant_WasEmptyAfterPush(q) == FALSE

\* The byte is sent by every push.
Mutant_WakesAlways(q) == TRUE

\* push_front instead of push_back.
Mutant_PushFront(q, id) == [q EXCEPT !.items = <<id>> \o @]

-----------------------------------------------------------------------------
(* push(): was_empty and push_back under the mutex, then the wakeup byte,  *)
(* outside it.  send(MSG_DONTWAIT) on a full socket pair loses the byte.   *)

WasEmpty(q) == q.items = <<>>

PushBack(q, id) == [q EXCEPT !.items = Append(@, id)]

SendByte(q) == [q EXCEPT !.bytes = IF @ < SockBuf THEN @ + 1 ELSE @]

Readable(q) == q.bytes > 0

(* drain_wakeup reads until recv() would block; drain_ready takes all ids. *)
DrainWakeup(q) == [q EXCEPT !.bytes = 0]

DrainReady(q) == [q EXCEPT !.items = <<>>]
=============================================================================
