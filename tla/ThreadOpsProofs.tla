-------------------------- MODULE ThreadOpsProofs --------------------------
(***************************************************************************)
(* What ThreadOps promises, for any number of calls, any programs, with    *)
(* and without a GIL, before and after _nng_fini().  The inductive         *)
(* invariant has four parts beside the type: what a call's state says      *)
(* about its aio and its nng_msg (CallInv), where the content of the       *)
(* Message is (TakerInv), what the dispatcher holds (RegInv, CurInv), and  *)
(* how ids travel until the callbacks are dropped (QueueInv, PendingInv).  *)
(***************************************************************************)
EXTENDS ThreadOps, FiniteSetTheorems, TLAPS

USE SlotsAssumption, PlansAssumption, GilAssumption, ViewsAssumption

FuturePcs == {"returned", "cancelling", "cancelwait"}

\* Where the nng_msg of call c is while its aio is a: with nng once a send
\* has succeeded, with the call once a recv has, until somebody takes it.
PtrOK(c, a) ==
    /\ a.st = "busy" => c.ptr = IF c.kind \in Sends THEN "call" ELSE "none"
    /\ a.st \in {"ended", "pushed", "idle"} =>
          c.ptr \in IF c.kind \in Sends
                    THEN IF a.result = "ok" THEN {"nng"} ELSE {"call"}
                    ELSE IF a.result # "ok" THEN {"none"}
                    ELSE IF c.kind \notin Futures \/ c.fut = "pending" THEN {"call"}
                    ELSE IF c.fut = "ok" THEN {"user"}
                    ELSE {"call", "freed"}

\* A call that has returned reports what happened to its message.
DoneOK(c) ==
    /\ c.out = "ok" => c.ptr = IF c.kind \in Sends THEN "nng" ELSE "user"
    /\ c.out = "error" => c.ptr \notin {"nng", "user"}

CallOK(c, a) ==
    /\ c.kind \in Sends <=> c.src # "none"
    /\ c.pc = "free" => c = NewCall
    /\ c.pc \in {"free", "nng", "done"} => a.st = "new"
    /\ c.pc = "nng" => /\ c.ptr = IF c.src = "none" THEN "none" ELSE "call"
                       /\ c.kind \in Futures => c.fut = "pending"
    /\ c.pc \in {"first", "poll", "signal"} => c.kind \in {"send", "recv"} /\ a.st \in {"busy", "idle"}
    /\ c.pc \in FuturePcs => c.kind \in Futures /\ a.st # "new"
    /\ c.pc \in {"cancelling", "cancelwait"} => c.fut = "cancelled"
    /\ c.pc = "done" => c.kind \notin Futures /\ DoneOK(c)
    /\ c.pc # "done" => c.out = "none"
    /\ c.kind \in Futures <=> c.fut # "none"
    /\ c.fut \in Results => c.fut = a.result /\ a.st \in {"pushed", "idle"}
    /\ PtrOK(c, a)

CallInv == \A s \in Slots : CallOK(call[s], aio[s])

\* The content of the Message is in the Message or with the one call that
\* took it, which keeps it or has passed it to nng.
Takes(c) == c.src = "message" /\ c.ptr \in {"call", "nng"}

TakerInv ==
    /\ \A s, t \in Slots : Takes(call[s]) /\ Takes(call[t]) => s = t
    /\ \A s \in Slots : Takes(call[s]) => ~msg.full
    /\ \A s \in Slots : call[s].src = "message" /\ call[s].pc # "done" => Takes(call[s])
    /\ msg.views > 0 => msg.full

\* A registered operation is alive and holds its future; the callbacks once
\* dropped, nothing is registered again.
RegInv ==
    /\ \A s \in reg : /\ IsFuture(s) /\ call[s].held
                      /\ call[s].pc \in FuturePcs \cup {"nng"}
    /\ lib.fini = "down" => ~lib.init /\ reg = {}

\* The operation the dispatcher works on is alive and not registered.
CurInv ==
    /\ disp.pc \in {"complete", "set"} <=> disp.cur # NoOp
    /\ disp.cur # NoOp =>
          /\ disp.cur \notin reg
          /\ IsFuture(disp.cur) /\ aio[disp.cur].st \in {"pushed", "idle"}
    /\ disp.pc = "complete" => call[disp.cur].held

Injective(q) == \A i, j \in DOMAIN q : q[i] = q[j] => i = j

\* Until the callbacks are dropped a queued id is registered once ...
QueueInv ==
    lib.fini # "down" =>
        /\ Injective(queue)
        /\ \A s \in Range(queue) :
              s \in reg /\ s # disp.cur /\ aio[s].st \in {"pushed", "idle"}

\* ... and a future that is not resolved has an aio, an id or the dispatcher.
PendingInv ==
    lib.fini # "down" =>
        \A s \in Slots : IsFuture(s) =>
            /\ call[s].pc = "nng" \/ aio[s].st \in {"busy", "ended"} => s \in reg
            /\ call[s].pc # "nng" /\ call[s].fut = "pending" =>
                  aio[s].st \in {"busy", "ended"} \/ s \in Range(queue) \/ s = disp.cur

IInv == TypeOK /\ CallInv /\ TakerInv /\ RegInv /\ CurInv /\ QueueInv /\ PendingInv

-----------------------------------------------------------------------------
(* Queues of ids.                                                          *)

(* push_back puts an id that is not queued behind the others.              *)
LEMMA AppendQueue ==
    ASSUME NEW q \in Seq(Slots), NEW s \in Slots, Injective(q), s \notin Range(q)
    PROVE  /\ Append(q, s) \in Seq(Slots)
           /\ Range(Append(q, s)) = Range(q) \cup {s}
           /\ Injective(Append(q, s))
<1> DEFINE r == Append(q, s)
<1>1. /\ r \in Seq(Slots) /\ Len(r) = Len(q) + 1 /\ Len(q) \in Nat
      /\ DOMAIN q = 1..Len(q) /\ DOMAIN r = 1..(Len(q) + 1)
      /\ \A i \in 1..Len(q) : r[i] = q[i]
      /\ r[Len(q) + 1] = s
  OBVIOUS
<1> HIDE DEF r
<1>2. Range(r) = Range(q) \cup {s}
  <2>1. ASSUME NEW x \in Range(r) PROVE x \in Range(q) \cup {s}
    BY <1>1, <2>1 DEF Range
  <2>2. ASSUME NEW x \in Range(q) PROVE x \in Range(r)
    BY <1>1, <2>2 DEF Range
  <2>3. s \in Range(r)
    BY <1>1 DEF Range
  <2> QED BY <2>1, <2>2, <2>3
<1>3. Injective(r)
  <2>1. SUFFICES ASSUME NEW i \in 1..(Len(q) + 1), NEW j \in 1..(Len(q) + 1), r[i] = r[j]
                 PROVE  i = j
    BY <1>1 DEF Injective
  <2>2. \A k \in 1..Len(q) : q[k] # s
    BY <1>1 DEF Range
  <2>3. CASE i = Len(q) + 1 /\ j = Len(q) + 1
    BY <2>3
  <2>4. CASE i \in 1..Len(q) /\ j \in 1..Len(q)
    BY <1>1, <2>1, <2>4 DEF Injective
  <2>5. CASE i \in 1..Len(q) /\ j = Len(q) + 1
    BY <1>1, <2>1, <2>2, <2>5
  <2>6. CASE i = Len(q) + 1 /\ j \in 1..Len(q)
    BY <1>1, <2>1, <2>2, <2>6
  <2> QED BY <1>1, <2>3, <2>4, <2>5, <2>6
<1> QED BY <1>1, <1>2, <1>3 DEF r

(* get_ready and wait_for take the first id, and it is gone from the queue. *)
LEMMA TailQueue ==
    ASSUME NEW q \in Seq(Slots), q # <<>>, Injective(q)
    PROVE  /\ Head(q) \in Slots /\ Tail(q) \in Seq(Slots)
           /\ Range(q) = Range(Tail(q)) \cup {Head(q)}
           /\ Head(q) \notin Range(Tail(q))
           /\ Injective(Tail(q))
<1> DEFINE r == Tail(q)
<1>1. /\ r \in Seq(Slots) /\ Len(q) \in Nat \ {0} /\ Head(q) \in Slots /\ Head(q) = q[1]
      /\ DOMAIN q = 1..Len(q) /\ DOMAIN r = 1..(Len(q) - 1)
      /\ \A i \in 1..(Len(q) - 1) : r[i] = q[i + 1]
  OBVIOUS
<1> HIDE DEF r
<1>2. Range(q) = Range(r) \cup {Head(q)}
  <2>1. ASSUME NEW i \in 1..Len(q) PROVE q[i] \in Range(r) \cup {Head(q)}
    <3>1. CASE i = 1 BY <1>1, <3>1
    <3>2. CASE i # 1
      <4>1. i - 1 \in DOMAIN r /\ r[i - 1] = q[i]
        BY <1>1, <3>2
      <4> QED BY <4>1 DEF Range
    <3> QED BY <3>1, <3>2
  <2>2. ASSUME NEW i \in 1..(Len(q) - 1) PROVE r[i] \in Range(q)
    <3>1. i + 1 \in DOMAIN q /\ r[i] = q[i + 1]
      BY <1>1
    <3> QED BY <3>1 DEF Range
  <2>3. Head(q) \in Range(q)
    BY <1>1 DEF Range
  <2>4. ASSUME NEW x \in Range(q) PROVE x \in Range(r) \cup {Head(q)}
    BY <1>1, <2>1, <2>4 DEF Range
  <2>5. ASSUME NEW x \in Range(r) PROVE x \in Range(q)
    BY <1>1, <2>2, <2>5 DEF Range
  <2> QED BY <2>3, <2>4, <2>5
<1>3. Head(q) \notin Range(r)
  <2>1. ASSUME NEW i \in 1..(Len(q) - 1) PROVE r[i] # Head(q)
    <3>1. i + 1 \in 1..Len(q) /\ 1 \in 1..Len(q) /\ i + 1 # 1
      BY <1>1
    <3>2. q[i + 1] # q[1]
      BY <1>1, <3>1 DEF Injective
    <3> QED BY <1>1, <3>2
  <2> QED BY <1>1, <2>1 DEF Range
<1>4. Injective(r)
  BY <1>1 DEF Injective
<1> QED BY <1>1, <1>2, <1>3, <1>4 DEF r

-----------------------------------------------------------------------------
(* The type invariant.                                                     *)

Pcs   == {"free", "nng", "first", "poll", "signal", "returned", "cancelling", "cancelwait", "done"}
Kinds == Blocking \cup Futures
Srcs  == {"message", "copy", "none"}
Ptrs  == {"none", "call", "nng", "message", "user", "freed"}
Futs  == {"none", "pending", "cancelled"} \cup Results
Outs  == {"none", "signal"} \cup Results
Sts   == {"new", "busy", "ended", "pushed", "idle"}

(* The fields of a call and of an aio, with their sets named.              *)
LEMMA Types ==
    /\ CallType = [pc : Pcs, kind : Kinds, src : Srcs, ptr : Ptrs, held : BOOLEAN,
                   fut : Futs, out : Outs]
    /\ AioType = [st : Sts, result : Results]
BY DEF CallType, AioType, Pcs, Kinds, Srcs, Ptrs, Futs, Outs, Sts

(* The updates of a call that the actions make keep its type.              *)
LEMMA Updates ==
    ASSUME NEW c \in CallType, NEW p \in Pcs, NEW o \in Outs, NEW q \in Ptrs,
           NEW h \in BOOLEAN, NEW f \in Futs
    PROVE  /\ [c EXCEPT !.pc = p] \in CallType
           /\ [c EXCEPT !.pc = p, !.out = o, !.ptr = q] \in CallType
           /\ [c EXCEPT !.pc = p, !.fut = f] \in CallType
           /\ [c EXCEPT !.fut = f, !.ptr = q] \in CallType
           /\ [c EXCEPT !.held = h] \in CallType
           /\ [c EXCEPT !.ptr = q] \in CallType
BY Types

(* A call is replaced, the others stay.                                    *)
LEMMA CallUpdate ==
    ASSUME TypeOK, NEW s \in Slots, NEW d \in CallType, call' = [call EXCEPT ![s] = d]
    PROVE  /\ call' \in [Slots -> CallType]
           /\ call'[s] = d
           /\ \A t \in Slots \ {s} : call'[t] = call[t]
BY DEF TypeOK

(* An aio is replaced, the others stay.                                    *)
LEMMA AioUpdate ==
    ASSUME TypeOK, NEW s \in Slots, NEW a \in AioType, aio' = [aio EXCEPT ![s] = a]
    PROVE  /\ aio' \in [Slots -> AioType]
           /\ aio'[s] = a
           /\ \A t \in Slots \ {s} : aio'[t] = aio[t]
BY DEF TypeOK

(* What a new call and a new aio are.                                      *)
LEMMA NewType == NewCall \in CallType /\ NewAio \in AioType
BY Types DEF NewCall, NewAio, Pcs, Kinds, Srcs, Ptrs, Futs, Outs, Sts, Results, Blocking, Futures

-----------------------------------------------------------------------------
(* Frames.                                                                 *)

\* Only call s and its aio change, and perhaps the Message.
OnlySlot(s) ==
    /\ call' \in [Slots -> CallType] /\ aio' \in [Slots -> AioType]
    /\ \A t \in Slots \ {s} : call'[t] = call[t] /\ aio'[t] = aio[t]
    /\ UNCHANGED <<plan, lib, disp, queue, reg, sock>>

\* The call keeps its method and its argument.
SameCall(s) ==
    /\ call'[s].kind = call[s].kind
    /\ call'[s].src = call[s].src
    /\ call'[s].held = call[s].held

\* What the dispatcher relies on is not disturbed.
SameDispatch(s) ==
    IsFuture(s) =>
        /\ call'[s].pc \in FuturePcs
        /\ aio[s].st \in {"pushed", "idle"} => aio'[s].st \in {"pushed", "idle"}
        /\ aio'[s].st \in {"busy", "ended"} <=> call[s].pc = "nng" \/ aio[s].st \in {"busy", "ended"}
        /\ call'[s].fut = "pending" => call[s].fut = "pending"

(* A step of one call that keeps to these frames keeps the invariant.      *)
LEMMA SlotStep ==
    ASSUME IInv, NEW s \in Slots, OnlySlot(s), SameCall(s), SameDispatch(s),
           msg' \in [full : BOOLEAN, views : 0..MaxViews],
           CallOK(call'[s], aio'[s]), TakerInv'
    PROVE  IInv'
<1> USE DEF OnlySlot
<1>1. TypeOK'
  BY DEF IInv, TypeOK
<1>2. CallInv'
  BY DEF IInv, CallInv
<1>3. RegInv'
  BY DEF IInv, RegInv, SameCall, SameDispatch, IsFuture, TypeOK
<1>4. CurInv'
  <2>1. SUFFICES ASSUME disp.cur # NoOp
                 PROVE  /\ IsFuture(disp.cur)' /\ aio'[disp.cur].st \in {"pushed", "idle"}
                        /\ call'[disp.cur].held = call[disp.cur].held
    BY DEF IInv, CurInv
  <2>2. disp.cur \in Slots /\ IsFuture(disp.cur) /\ aio[disp.cur].st \in {"pushed", "idle"}
    BY <2>1 DEF IInv, CurInv, TypeOK
  <2>3. CASE disp.cur = s
    BY <2>2, <2>3 DEF SameCall, SameDispatch, IsFuture
  <2>4. CASE disp.cur # s
    BY <2>2, <2>4 DEF IsFuture
  <2> QED BY <2>3, <2>4
<1>5. QueueInv'
  <2>1. SUFFICES ASSUME lib.fini # "down", NEW t \in Range(queue)
                 PROVE  aio'[t].st \in {"pushed", "idle"}
    BY DEF IInv, QueueInv
  <2>2. t \in Slots /\ IsFuture(t) /\ aio[t].st \in {"pushed", "idle"}
    BY <2>1 DEF IInv, QueueInv, RegInv, TypeOK
  <2>3. CASE t = s
    BY <2>2, <2>3 DEF SameDispatch
  <2>4. CASE t # s
    BY <2>2, <2>4
  <2> QED BY <2>3, <2>4
<1>6. PendingInv'
  <2>1. SUFFICES ASSUME lib.fini # "down", NEW t \in Slots, IsFuture(t)'
                 PROVE  /\ call'[t].pc = "nng" \/ aio'[t].st \in {"busy", "ended"} => t \in reg
                        /\ call'[t].pc # "nng" /\ call'[t].fut = "pending" =>
                              aio'[t].st \in {"busy", "ended"} \/ t \in Range(queue) \/ t = disp.cur
    BY DEF PendingInv
  <2>2. IsFuture(t)
    BY <2>1 DEF SameCall, IsFuture
  <2>3. /\ call[t].pc = "nng" \/ aio[t].st \in {"busy", "ended"} => t \in reg
        /\ call[t].pc # "nng" /\ call[t].fut = "pending" =>
              aio[t].st \in {"busy", "ended"} \/ t \in Range(queue) \/ t = disp.cur
    BY <2>1, <2>2 DEF IInv, PendingInv
  <2>4. CASE t = s
    BY <2>2, <2>3, <2>4 DEF SameDispatch, FuturePcs
  <2>5. CASE t # s
    BY <2>3, <2>5
  <2> QED BY <2>4, <2>5
<1> QED BY <1>1, <1>2, <1>3, <1>4, <1>5, <1>6 DEF IInv

(* A call that neither takes the content of the Message nor returns it.    *)
LEMMA TakerSame ==
    ASSUME TakerInv, NEW s \in Slots, msg' = msg,
           \A t \in Slots \ {s} : call'[t] = call[t],
           Takes(call'[s]) => Takes(call[s]),
           call'[s].src = "message" /\ call'[s].pc # "done" => Takes(call'[s])
    PROVE  TakerInv'
<1>1. ASSUME NEW t \in Slots, Takes(call'[t]) PROVE Takes(call[t])
  BY <1>1
<1>2. ASSUME NEW t \in Slots, call'[t].src = "message" /\ call'[t].pc # "done"
      PROVE  Takes(call'[t])
  BY <1>2 DEF TakerInv
<1>3. ASSUME NEW t \in Slots, NEW u \in Slots, Takes(call'[t]), Takes(call'[u]) PROVE t = u
  BY <1>1, <1>3 DEF TakerInv
<1>4. ASSUME NEW t \in Slots, Takes(call'[t]) PROVE ~msg'.full
  BY <1>1, <1>4 DEF TakerInv
<1> QED BY <1>2, <1>3, <1>4 DEF TakerInv

(* A step of one call that leaves the Message and its nng_msg alone.       *)
LEMMA QuietStep ==
    ASSUME IInv, NEW s \in Slots, OnlySlot(s), SameCall(s), SameDispatch(s), msg' = msg,
           CallOK(call'[s], aio'[s]), call'[s].ptr = call[s].ptr, call[s].pc # "done"
    PROVE  IInv'
<1>1. TakerInv'
  BY TakerSame DEF IInv, OnlySlot, SameCall, Takes, TakerInv
<1> QED BY <1>1, SlotStep DEF IInv, TypeOK

(* From the action to the frame.                                           *)
LEMMA ToFrame ==
    ASSUME IInv, NEW s \in Slots, NEW d \in CallType, NEW a \in AioType,
           call' = [call EXCEPT ![s] = d], aio' = [aio EXCEPT ![s] = a],
           UNCHANGED <<plan, lib, disp, queue, reg, sock>>
    PROVE  OnlySlot(s) /\ call'[s] = d /\ aio'[s] = a
BY CallUpdate, AioUpdate DEF OnlySlot, IInv

-----------------------------------------------------------------------------
(* The actions of one call.                                                *)

\* What an action of call s may cite: the state of the call and of its aio.
SlotOK(s) == call[s] \in CallType /\ aio[s] \in AioType /\ CallOK(call[s], aio[s])

(* The invariant, seen from one call.                                      *)
LEMMA AtSlot == ASSUME IInv, NEW s \in Slots PROVE SlotOK(s)
BY DEF IInv, TypeOK, CallInv, SlotOK

(* An aio that is aborted: if it was busy, the operation fails.            *)
LEMMA AbortOK ==
    ASSUME NEW s \in Slots, SlotOK(s)
    PROVE  /\ Abort(s) \in AioType
           /\ CallOK(call[s], Abort(s))
           /\ call[s].kind \in Futures =>
                 /\ aio[s].st \in {"pushed", "idle"} => Abort(s).st \in {"pushed", "idle"}
                 /\ aio[s].st \in {"busy", "ended"} <=> Abort(s).st \in {"busy", "ended"}
           /\ aio[s].st # "new" => Abort(s).st # "new"
<1>1. CASE aio[s].st # "busy"
  BY <1>1 DEF SlotOK, Abort
<1>2. CASE aio[s].st = "busy"
  <2> DEFINE a == Abort(s)
  <2>1. /\ a = [st |-> IF call[s].kind \in Futures THEN "ended" ELSE "idle", result |-> "error"]
    BY <1>2 DEF Abort, EndAio, IsFuture
  <2>2. a \in AioType
    BY <2>1, Types DEF Sts, Results
  <2>3. /\ a.st = IF call[s].kind \in Futures THEN "ended" ELSE "idle"
        /\ a.result = "error"
    BY <2>1
  <2> HIDE DEF a
  <2>4. CallOK(call[s], a)
    BY <1>2, <2>3 DEF SlotOK, CallOK, PtrOK, Results, Futures, FuturePcs
  <2> QED BY <1>2, <2>2, <2>3, <2>4 DEF a
<1> QED BY <1>1, <1>2

(* nng_socket_send, nng_socket_recv.                                       *)
LEMMA NngCallStep == ASSUME IInv, NEW s \in Slots, NngCall(s) PROVE IInv'
<1> USE DEF NngCall
<1>0. SlotOK(s)
  BY AtSlot
<1> DEFINE p == IF IsFuture(s) THEN "returned" ELSE "first"
           d == [call[s] EXCEPT !.pc = p]
           a == IF sock.nng THEN [aio[s] EXCEPT !.st = "busy"] ELSE EndAio(s, "error")
<1>1. d \in CallType /\ a \in AioType
  <2>1. p \in Pcs
    BY DEF Pcs
  <2>2. a \in AioType
    BY <1>0, Types DEF SlotOK, EndAio, Sts, Results
  <2> HIDE DEF p, a
  <2> QED BY <1>0, <2>1, <2>2, Updates DEF SlotOK, Outs, Ptrs, Futs, Results
<1>2. call' = [call EXCEPT ![s] = d] /\ aio' = [aio EXCEPT ![s] = a]
  BY DEF IInv, TypeOK
<1>3. /\ d.pc = p /\ d.kind = call[s].kind /\ d.src = call[s].src /\ d.ptr = call[s].ptr
      /\ d.held = call[s].held /\ d.fut = call[s].fut /\ d.out = call[s].out
  BY <1>0, Types DEF SlotOK
<1>4. /\ sock.nng => a.st = "busy"
      /\ ~sock.nng => a.result = "error" /\ a.st = IF IsFuture(s) THEN "ended" ELSE "idle"
  BY <1>0, Types DEF SlotOK, EndAio
<1> HIDE DEF d, a
<1>5. OnlySlot(s) /\ call'[s] = d /\ aio'[s] = a
  BY <1>1, <1>2, ToFrame
<1>6. call[s].pc = "nng" /\ call[s].kind \notin {"nonblock", "nonblock_recv"}
  OBVIOUS
<1>7. CallOK(d, a)
  BY <1>0, <1>1, <1>3, <1>4, <1>6, Types
     DEF SlotOK, CallOK, PtrOK, IsFuture, Results, Futures, Blocking, Kinds, Sends, FuturePcs
<1>8. SameCall(s) /\ SameDispatch(s)
  BY <1>0, <1>3, <1>4, <1>5, <1>6 DEF SameCall, SameDispatch, SlotOK, CallOK, IsFuture, FuturePcs
<1> QED BY <1>3, <1>5, <1>6, <1>7, <1>8, QuietStep

(* A call that goes on to place p, where its aio is a.                     *)
LEMMA PcStep ==
    ASSUME IInv, NEW s \in Slots, NEW p \in Pcs \ {"free", "nng", "done"}, NEW a \in AioType,
           call' = [call EXCEPT ![s] = [call[s] EXCEPT !.pc = p]],
           aio' = [aio EXCEPT ![s] = a],
           UNCHANGED <<plan, lib, disp, queue, reg, sock, msg>>,
           call[s].pc \notin {"nng", "done"}, CallOK(call[s], a),
           p \in {"poll", "signal"} => call[s].pc \in {"first", "poll"},
           p \in FuturePcs => call[s].kind \in Futures /\ a.st # "new",
           p = "first" => FALSE,
           p \in {"cancelling", "cancelwait"} => call[s].fut = "cancelled",
           call[s].kind \in Futures =>
               /\ p \in FuturePcs
               /\ aio[s].st \in {"pushed", "idle"} => a.st \in {"pushed", "idle"}
               /\ aio[s].st \in {"busy", "ended"} <=> a.st \in {"busy", "ended"}
    PROVE  IInv'
<1>0. SlotOK(s)
  BY AtSlot
<1> DEFINE d == [call[s] EXCEPT !.pc = p]
<1>1. d \in CallType
  BY <1>0, Types DEF SlotOK
<1>3. /\ d.pc = p /\ d.kind = call[s].kind /\ d.src = call[s].src /\ d.ptr = call[s].ptr
      /\ d.held = call[s].held /\ d.fut = call[s].fut /\ d.out = call[s].out
  BY <1>0, Types DEF SlotOK
<1>2. call' = [call EXCEPT ![s] = d]
  OBVIOUS
<1>4. aio' = [aio EXCEPT ![s] = a] /\ UNCHANGED <<plan, lib, disp, queue, reg, sock>>
  OBVIOUS
<1> HIDE DEF d
<1>5. OnlySlot(s) /\ call'[s] = d /\ aio'[s] = a
  <2>1. call' \in [Slots -> CallType] /\ call'[s] = d
    BY <1>1, <1>2, CallUpdate DEF IInv
  <2>2. \A t \in Slots \ {s} : call'[t] = call[t]
    BY <1>1, <1>2, CallUpdate DEF IInv
  <2>3. aio' \in [Slots -> AioType] /\ aio'[s] = a /\ \A t \in Slots \ {s} : aio'[t] = aio[t]
    BY <1>4, AioUpdate DEF IInv
  <2> QED BY <1>4, <2>1, <2>2, <2>3 DEF OnlySlot
<1>7. CallOK(d, a)
  BY <1>3 DEF CallOK, PtrOK, Pcs, FuturePcs
<1>8. SameCall(s) /\ SameDispatch(s)
  BY <1>3, <1>5 DEF SameCall, SameDispatch, IsFuture
<1> QED BY <1>3, <1>5, <1>7, <1>8, QuietStep

(* The waits of a blocking call, a signal, and the steps of cancel().      *)
LEMMA WaitSteps ==
    ASSUME IInv, NEW s \in Slots,
           \/ WaitTimesOut(s)
           \/ Signal(s)
           \/ OnFutureCancel(s)
           \/ CancelReturns(s)
    PROVE  IInv'
<1>0. SlotOK(s)
  BY AtSlot
<1>a. aio = [aio EXCEPT ![s] = aio[s]] /\ aio[s] \in AioType /\ CallOK(call[s], aio[s])
  BY DEF IInv, TypeOK, CallInv
<1>1. CASE WaitTimesOut(s)
  <2>1. call[s].kind \notin Futures
    BY <1>0, <1>1 DEF WaitTimesOut, SlotOK, CallOK, Futures
  <2>2. /\ call' = [call EXCEPT ![s] = [call[s] EXCEPT !.pc = "poll"]]
        /\ aio' = [aio EXCEPT ![s] = aio[s]]
        /\ UNCHANGED <<plan, lib, disp, queue, reg, sock, msg>> /\ call[s].pc = "first"
    BY <1>1, <1>a DEF WaitTimesOut
  <2>3. "poll" \in Pcs \ {"free", "nng", "done"} /\ "poll" \notin FuturePcs
    BY DEF Pcs, FuturePcs
  <2> QED BY <1>a, <2>1, <2>2, <2>3, PcStep
<1>2. CASE Signal(s)
  <2>1. call[s].kind \notin Futures
    BY <1>0, <1>2 DEF Signal, SlotOK, CallOK, Futures
  <2>2. /\ call' = [call EXCEPT ![s] = [call[s] EXCEPT !.pc = "signal"]]
        /\ aio' = [aio EXCEPT ![s] = Abort(s)]
        /\ UNCHANGED <<plan, lib, disp, queue, reg, sock, msg>> /\ call[s].pc = "poll"
    BY <1>2 DEF Signal
  <2>3. "signal" \in Pcs \ {"free", "nng", "done"} /\ "signal" \notin FuturePcs
    BY DEF Pcs, FuturePcs
  <2> QED BY <1>0, <2>1, <2>2, <2>3, PcStep, AbortOK
<1>3. CASE OnFutureCancel(s)
  <2>1. call[s].kind \in Futures /\ call[s].fut = "cancelled" /\ aio[s].st # "new"
    BY <1>0, <1>3 DEF OnFutureCancel, SlotOK, CallOK, FuturePcs
  <2>2. /\ call' = [call EXCEPT ![s] = [call[s] EXCEPT !.pc = "cancelwait"]]
        /\ aio' = [aio EXCEPT ![s] = Abort(s)]
        /\ UNCHANGED <<plan, lib, disp, queue, reg, sock, msg>> /\ call[s].pc = "cancelling"
    BY <1>3 DEF OnFutureCancel
  <2>3. "cancelwait" \in Pcs \ {"free", "nng", "done"} /\ "cancelwait" \in FuturePcs
    BY DEF Pcs, FuturePcs
  <2> QED BY <1>0, <2>1, <2>2, <2>3, PcStep, AbortOK
<1>4. CASE CancelReturns(s)
  <2>1. call[s].kind \in Futures /\ aio[s].st # "new"
    BY <1>0, <1>4 DEF CancelReturns, SlotOK, CallOK, FuturePcs
  <2>2. /\ call' = [call EXCEPT ![s] = [call[s] EXCEPT !.pc = "returned"]]
        /\ aio' = [aio EXCEPT ![s] = aio[s]]
        /\ UNCHANGED <<plan, lib, disp, queue, reg, sock, msg>> /\ call[s].pc = "cancelwait"
    BY <1>4, <1>a DEF CancelReturns
  <2>3. "returned" \in Pcs \ {"free", "nng", "done"} /\ "returned" \in FuturePcs
    BY DEF Pcs, FuturePcs
  <2> QED BY <1>a, <2>1, <2>2, <2>3, PcStep
<1> QED BY <1>1, <1>2, <1>3, <1>4

(* Future.cancel(): a future that is pending becomes cancelled.            *)
LEMMA CancelStep == ASSUME IInv, NEW s \in Slots, Cancel(s) PROVE IInv'
<1> USE DEF Cancel
<1>0. SlotOK(s)
  BY AtSlot
<1> DEFINE d == [call[s] EXCEPT !.pc = "cancelling", !.fut = "cancelled"]
<1>1. d \in CallType /\ aio[s] \in AioType
  BY <1>0, Types DEF SlotOK, Pcs, Futs
<1>2. call' = [call EXCEPT ![s] = d] /\ aio' = [aio EXCEPT ![s] = aio[s]]
  BY DEF IInv, TypeOK
<1>3. /\ d.pc = "cancelling" /\ d.kind = call[s].kind /\ d.src = call[s].src
      /\ d.ptr = call[s].ptr /\ d.held = call[s].held /\ d.fut = "cancelled" /\ d.out = call[s].out
  BY <1>0, Types DEF SlotOK
<1> HIDE DEF d
<1>5. OnlySlot(s) /\ call'[s] = d /\ aio'[s] = aio[s]
  BY <1>1, <1>2, ToFrame
<1>6. call[s].pc = "returned" /\ call[s].fut = "pending"
  OBVIOUS
<1>7. CallOK(d, aio[s])
  BY <1>0, <1>3, <1>6 DEF SlotOK, CallOK, PtrOK, Results, FuturePcs
<1>8. SameCall(s) /\ SameDispatch(s)
  BY <1>0, <1>3, <1>5, <1>6 DEF SameCall, SameDispatch, SlotOK, IsFuture, FuturePcs
<1> QED BY <1>3, <1>5, <1>6, <1>7, <1>8, QuietStep

(* The callback has returned: the aio is idle.                             *)
LEMMA CallbackReturnsStep == ASSUME IInv, NEW s \in Slots, CallbackReturns(s) PROVE IInv'
<1> USE DEF CallbackReturns
<1>0. SlotOK(s)
  BY AtSlot
<1> DEFINE a == [aio[s] EXCEPT !.st = "idle"]
<1>1. call[s] \in CallType /\ a \in AioType
  BY <1>0, Types DEF SlotOK, Sts
<1>2. call' = [call EXCEPT ![s] = call[s]] /\ aio' = [aio EXCEPT ![s] = a]
  BY DEF IInv, TypeOK
<1>3. a.st = "idle" /\ a.result = aio[s].result
  BY <1>0, Types DEF SlotOK
<1> HIDE DEF a
<1>5. OnlySlot(s) /\ call'[s] = call[s] /\ aio'[s] = a
  BY <1>1, <1>2, ToFrame
<1>6. aio[s].st = "pushed"
  OBVIOUS
<1>7. CallOK(call[s], a) /\ call[s].pc \notin {"nng", "done"}
  BY <1>0, <1>3, <1>6 DEF SlotOK, CallOK, PtrOK, FuturePcs
<1>8. SameCall(s) /\ SameDispatch(s)
  BY <1>0, <1>1, <1>3, <1>5, <1>6, <1>7, Types
     DEF SameCall, SameDispatch, SlotOK, CallOK, IsFuture, FuturePcs, Pcs, NewCall, Futures
<1> QED BY <1>5, <1>6, <1>7, <1>8, QuietStep

(* The operation ends: nng has the message of a send, the call that of a   *)
(* recv.                                                                   *)
LEMMA CompleteStep == ASSUME IInv, NEW s \in Slots, NEW r \in Results, Complete(s, r) PROVE IInv'
<1> USE DEF Complete
<1>0. SlotOK(s)
  BY AtSlot
<1> DEFINE q == IF r # "ok" THEN call[s].ptr
                ELSE IF call[s].kind \in Sends THEN "nng" ELSE "call"
           d == [call[s] EXCEPT !.ptr = q]
           a == EndAio(s, r)
<1>1. d \in CallType /\ a \in AioType
  <2>1. q \in Ptrs
    BY <1>0, Types DEF SlotOK, Ptrs
  <2>2. a \in AioType
    BY Types DEF EndAio, Sts
  <2> HIDE DEF q, a
  <2> QED BY <1>0, <2>1, <2>2, Types DEF SlotOK
<1>2. call' = [call EXCEPT ![s] = d] /\ aio' = [aio EXCEPT ![s] = a]
  <2>1. CASE r = "ok"
    BY <2>1 DEF IInv, TypeOK
  <2>2. CASE r # "ok"
    <3>1. d = call[s]
      BY <1>0, <2>2, Types DEF SlotOK
    <3> QED BY <2>2, <3>1 DEF IInv, TypeOK
  <2> QED BY <2>1, <2>2
<1>3. /\ d.pc = call[s].pc /\ d.kind = call[s].kind /\ d.src = call[s].src /\ d.ptr = q
      /\ d.held = call[s].held /\ d.fut = call[s].fut /\ d.out = call[s].out
      /\ a.st = (IF IsFuture(s) THEN "ended" ELSE "idle") /\ a.result = r
  BY <1>0, Types DEF SlotOK, EndAio
<1> HIDE DEF d, a
<1>5. OnlySlot(s) /\ call'[s] = d /\ aio'[s] = a
  BY <1>1, <1>2, ToFrame
<1>6. aio[s].st = "busy" /\ msg' = msg /\ call[s].pc \notin {"free", "nng", "done"}
  BY <1>0 DEF SlotOK, CallOK
<1>7. CallOK(d, a)
  BY <1>0, <1>3, <1>6, Types
     DEF SlotOK, CallOK, PtrOK, IsFuture, Results, Futures, Sends, FuturePcs, Kinds, Blocking
<1>8. SameCall(s) /\ SameDispatch(s)
  <2>1. IsFuture(s) => call[s].pc \in FuturePcs
    BY <1>0, <1>6, Types DEF SlotOK, CallOK, IsFuture, Futures, FuturePcs, Pcs
  <2> QED BY <1>3, <1>5, <1>6, <2>1 DEF SameCall, SameDispatch, IsFuture
<1>9. TakerInv'
  <2>1. call[s].src = "message" => Takes(call[s]) /\ Takes(d)
    BY <1>0, <1>3, <1>6 DEF SlotOK, CallOK, PtrOK, Takes
  <2>2. d.src = call[s].src
    BY <1>3
  <2> QED BY <1>5, <1>6, <2>1, <2>2, TakerSame DEF IInv, OnlySlot, Takes
<1> QED BY <1>5, <1>6, <1>7, <1>8, <1>9, SlotStep DEF IInv, TypeOK

(* A blocking call ends: its aio has nothing more, and a Message that was  *)
(* not sent is whole again.                                                *)
LEMMA LeaveStep ==
    ASSUME IInv, NEW s \in Slots, NEW o \in Outs \ {"none"}, NEW failed \in BOOLEAN,
           NEW heir \in {"nng", "user", "freed"}, Leave(s, o, failed, heir),
           call[s].pc \in {"nng", "first", "poll", "signal"}, call[s].kind \notin Futures,
           failed => call[s].ptr = IF call[s].kind \in Sends THEN "call" ELSE "none",
           ~failed => call[s].ptr # "none",
           ~failed /\ call[s].kind \in Sends => call[s].ptr = "nng" \/ heir = "nng",
           ~failed /\ call[s].kind \notin Sends => call[s].ptr = "call",
           o = "ok" => ~failed /\ (call[s].kind \notin Sends => heir = "user"),
           o = "error" => failed
    PROVE  /\ IInv'
           /\ call'[s].ptr # "call"
           /\ call'[s].src = "message" => (msg'.full <=> call'[s].ptr # "nng")
           /\ \A t \in Slots \ {s} : call'[t] = call[t]
<1> USE DEF Leave
<1>0. SlotOK(s)
  BY AtSlot
<1> DEFINE q == IF call[s].ptr # "call" THEN call[s].ptr
                ELSE IF ~failed THEN heir
                ELSE IF call[s].src = "message" THEN "message" ELSE "freed"
           d == [call[s] EXCEPT !.pc = "done", !.out = o, !.ptr = q]
<1>1. d \in CallType /\ NewAio \in AioType
  <2>1. q \in Ptrs /\ "done" \in Pcs /\ o \in Outs
    BY <1>0, Types DEF SlotOK, Ptrs, Pcs
  <2> HIDE DEF q
  <2> QED BY <1>0, <2>1, Types, NewType DEF SlotOK
<1>2. call' = [call EXCEPT ![s] = d] /\ aio' = [aio EXCEPT ![s] = NewAio]
  BY DEF IInv, TypeOK
<1>3. /\ d.pc = "done" /\ d.kind = call[s].kind /\ d.src = call[s].src /\ d.ptr = q
      /\ d.held = call[s].held /\ d.fut = call[s].fut /\ d.out = o
      /\ NewAio.st = "new" /\ NewAio.result = "ok"
  BY <1>0, Types DEF SlotOK, NewAio
<1>4. /\ msg' \in [full : BOOLEAN, views : 0..MaxViews] /\ msg'.views = msg.views
      /\ failed /\ call[s].src = "message" => msg'.full
      /\ ~(failed /\ call[s].src = "message") => msg' = msg
      /\ UNCHANGED <<plan, lib, disp, queue, reg, sock>>
  BY DEF IInv, TypeOK
<1> HIDE DEF d, Leave
<1>5. OnlySlot(s) /\ call'[s] = d /\ aio'[s] = NewAio
  <2> HIDE DEF q
  <2>1. UNCHANGED <<plan, lib, disp, queue, reg, sock>>
    BY <1>4
  <2>2. call' = [call EXCEPT ![s] = d]
    BY <1>2
  <2>3. aio' = [aio EXCEPT ![s] = NewAio]
    BY <1>2
  <2> QED BY <1>1, <2>1, <2>2, <2>3, ToFrame
<1>7. CallOK(d, NewAio)
  <2>1. call[s].fut \notin Results
    BY <1>0 DEF SlotOK, CallOK, Results
  <2> QED BY <1>0, <1>3, <2>1, Types DEF SlotOK, CallOK, PtrOK, DoneOK, FuturePcs, Outs, Results
<1>8. SameCall(s) /\ SameDispatch(s)
  BY <1>3, <1>5 DEF SameCall, SameDispatch, IsFuture
<1>9. call[s].src = "message" => Takes(call[s])
  BY <1>0 DEF SlotOK, CallOK, IInv, TakerInv
<1>10. TakerInv'
  <2>1. CASE failed /\ call[s].src = "message"
    <3>1. call[s].kind \in Sends /\ call[s].ptr = "call" /\ ~Takes(d)
      BY <1>0, <1>3, <2>1 DEF SlotOK, CallOK, Takes
    <3>2. \A t \in Slots : ~Takes(call'[t])
      BY <1>5, <1>9, <2>1, <3>1 DEF IInv, TakerInv, OnlySlot
    <3>3. \A t \in Slots : call'[t].src = "message" => call'[t].pc = "done"
      BY <1>3, <1>5, <3>2 DEF IInv, TakerInv, OnlySlot
    <3> QED BY <1>4, <2>1, <3>2, <3>3 DEF TakerInv
  <2>2. CASE ~(failed /\ call[s].src = "message")
    <3>1. Takes(d) => Takes(call[s])
      BY <1>3, <1>9 DEF Takes
    <3> QED BY <1>3, <1>4, <1>5, <2>2, <3>1, TakerSame DEF IInv, OnlySlot
  <2> QED BY <2>1, <2>2
<1>11. IInv'
  BY <1>4, <1>5, <1>7, <1>8, <1>10, SlotStep
<1>12. d.ptr # "call"
  BY <1>3
<1>13. d.src = "message" => (msg'.full <=> d.ptr # "nng")
  <2>1. CASE failed
    BY <1>0, <1>3, <1>4, <2>1 DEF SlotOK, CallOK
  <2>2. CASE ~failed
    <3>1. call[s].src = "message" => ~msg.full /\ call[s].kind \in Sends
      BY <1>0, <1>9 DEF IInv, TakerInv, SlotOK, CallOK
    <3> QED BY <1>3, <1>4, <1>9, <2>2, <3>1 DEF Takes
  <2> QED BY <2>1, <2>2
<1> QED BY <1>5, <1>11, <1>12, <1>13 DEF OnlySlot

\* What BlockingCallSettles says of one call.
Settles(s) ==
    call[s].pc # "done" /\ call'[s].pc = "done" =>
        /\ call'[s].ptr # "call"
        /\ call'[s].src = "message" => (msg'.full <=> call'[s].ptr # "nng")

(* The four ways a blocking call ends keep the invariant and settle the    *)
(* call.                                                                   *)
LEMMA BlockingSteps ==
    ASSUME IInv, NEW s \in Slots, NEW r \in Results,
           SendNonblock(s, r) \/ RecvNonblock(s, r) \/ Settle(s) \/ SignalRaise(s)
    PROVE  IInv' /\ \A t \in Slots : Settles(t)
<1>0. SlotOK(s)
  BY AtSlot
<1>a. SUFFICES /\ IInv'
               /\ call'[s].ptr # "call"
               /\ call'[s].src = "message" => (msg'.full <=> call'[s].ptr # "nng")
               /\ \A t \in Slots \ {s} : call'[t] = call[t]
  BY <1>a DEF Settles
<1>r. r \in Outs \ {"none"} /\ "signal" \in Outs \ {"none"}
  BY DEF Outs, Results
<1>1. CASE SendNonblock(s, r)
  <2>1. call[s].kind \notin Futures /\ call[s].kind \in Sends /\ call[s].ptr = "call"
    BY <1>0, <1>1 DEF SendNonblock, SlotOK, CallOK, Futures, Sends
  <2>2. r = "error" => r # "ok"
    OBVIOUS
  <2>3. Leave(s, r, r # "ok", "nng") /\ call[s].pc = "nng"
    BY <1>1 DEF SendNonblock
  <2> QED BY <1>r, <2>1, <2>2, <2>3, LeaveStep
<1>2. CASE RecvNonblock(s, r)
  <2> USE <1>2 DEF RecvNonblock
  <2> DEFINE q == IF r = "ok" THEN "user" ELSE "none"
             d == [call[s] EXCEPT !.pc = "done", !.out = r, !.ptr = q]
  <2>1. d \in CallType /\ aio[s] \in AioType
    <3>1. q \in Ptrs /\ "done" \in Pcs /\ r \in Outs
      BY <1>r DEF Ptrs, Pcs
    <3> HIDE DEF q
    <3> QED BY <1>0, <3>1, Types DEF SlotOK
  <2>2. call' = [call EXCEPT ![s] = d] /\ aio' = [aio EXCEPT ![s] = aio[s]]
    BY DEF IInv, TypeOK
  <2>3. /\ d.pc = "done" /\ d.kind = call[s].kind /\ d.src = call[s].src /\ d.ptr = q
        /\ d.held = call[s].held /\ d.fut = call[s].fut /\ d.out = r
    BY <1>0, Types DEF SlotOK
  <2>4. call[s].pc = "nng" /\ call[s].kind = "nonblock_recv"
    OBVIOUS
  <2> HIDE DEF d
  <2>5. OnlySlot(s) /\ call'[s] = d /\ aio'[s] = aio[s]
    BY <2>1, <2>2, ToFrame
  <2>6. call[s].kind \notin Futures /\ call[s].kind \notin Sends /\ call[s].src = "none"
    BY <1>0, <2>4 DEF SlotOK, CallOK, Futures, Sends
  <2>7. CallOK(d, aio[s])
    BY <1>0, <2>3, <2>4, <2>6 DEF SlotOK, CallOK, PtrOK, DoneOK, FuturePcs, Results
  <2>8. SameCall(s) /\ SameDispatch(s)
    BY <2>3, <2>5, <2>6 DEF SameCall, SameDispatch, IsFuture
  <2>9. TakerInv'
    BY <2>3, <2>5, <2>6, TakerSame DEF IInv, OnlySlot, Takes
  <2>10. IInv'
    BY <2>5, <2>7, <2>8, <2>9, SlotStep DEF IInv, TypeOK
  <2> QED BY <2>3, <2>5, <2>6, <2>10 DEF OnlySlot
<1>b. CASE Settle(s) \/ SignalRaise(s)
  <2>1. /\ call[s].pc \in {"first", "poll", "signal"} /\ ~Busy(s)
        /\ call[s].kind \in {"send", "recv"}
    BY <1>0, <1>b DEF Settle, SignalRaise, SlotOK, CallOK
  <2>2. aio[s].st = "idle" /\ aio[s].result \in Results
    BY <1>0, <2>1, Types DEF SlotOK, CallOK, Busy
  <2>3. call[s].kind \notin Futures
    BY <2>1 DEF Futures
  <2>4. /\ aio[s].result = "ok" => call[s].ptr = IF call[s].kind \in Sends THEN "nng" ELSE "call"
        /\ aio[s].result # "ok" => call[s].ptr = IF call[s].kind \in Sends THEN "call" ELSE "none"
    BY <1>0, <2>2, <2>3 DEF SlotOK, CallOK, PtrOK
  <2>5. aio[s].result \in Outs \ {"none"} /\ (aio[s].result = "error" => aio[s].result # "ok")
    BY <2>2 DEF Outs, Results
  <2>6. CASE Settle(s)
    <3>1. Leave(s, aio[s].result, aio[s].result # "ok", "user")
      BY <2>6 DEF Settle
    <3> QED BY <2>1, <2>3, <2>4, <2>5, <3>1, LeaveStep
  <2>7. CASE SignalRaise(s)
    <3>1. Leave(s, "signal", aio[s].result # "ok", "freed")
      BY <2>7 DEF SignalRaise
    <3> QED BY <1>r, <2>1, <2>3, <2>4, <3>1, LeaveStep
  <2> QED BY <1>b, <2>6, <2>7
<1> QED BY <1>1, <1>2, <1>b

(* The frame or the operation goes away.                                   *)
LEMMA FreeStep == ASSUME IInv, NEW s \in Slots, Free(s) PROVE IInv'
<1> USE DEF Free
<1>0. SlotOK(s)
  BY AtSlot
<1>1. /\ call' = [call EXCEPT ![s] = NewCall] /\ aio' = [aio EXCEPT ![s] = NewAio]
      /\ UNCHANGED <<plan, lib, disp, queue, reg, sock>> /\ msg' = msg
  OBVIOUS
<1>2. OnlySlot(s) /\ call'[s] = NewCall /\ aio'[s] = NewAio
  BY <1>1, NewType, ToFrame
<1>3. s \notin reg /\ disp.cur # s
  <2>1. CASE call[s].pc = "done"
    <3>1. call[s].kind \notin Futures
      BY <1>0, <2>1 DEF SlotOK, CallOK
    <3>2. disp.cur # s
      <4>1. SUFFICES ASSUME disp.cur = s PROVE FALSE
        OBVIOUS
      <4>2. disp.cur # NoOp
        BY <4>1, SlotsAssumption
      <4> QED BY <3>1, <4>1, <4>2 DEF IInv, CurInv, IsFuture
    <3> QED BY <3>1, <3>2 DEF IInv, RegInv, IsFuture
  <2> QED BY <2>1
<1>4. /\ NewCall.pc = "free" /\ NewCall.kind = "recv" /\ NewCall.src = "none" /\ NewCall.ptr = "none"
      /\ NewCall.held = FALSE /\ NewCall.fut = "none" /\ NewCall.out = "none"
      /\ NewAio.st = "new" /\ NewAio.result = "ok"
      /\ NewCall.kind \notin Futures /\ NewCall.kind \notin Sends
  BY DEF NewCall, NewAio, Futures, Sends
<1>5. CallOK(NewCall, NewAio)
  BY <1>4 DEF CallOK, PtrOK, FuturePcs, Results
<1>6. TypeOK'
  BY <1>1, <1>2 DEF OnlySlot, IInv, TypeOK
<1>7. CallInv'
  BY <1>2, <1>5 DEF OnlySlot, IInv, CallInv
<1>8. TakerInv'
  BY <1>1, <1>2, <1>4, TakerSame DEF IInv, OnlySlot, Takes
<1>9. RegInv'
  BY <1>1, <1>2, <1>3 DEF OnlySlot, IInv, RegInv, IsFuture, TypeOK
<1>10. CurInv'
  BY <1>1, <1>2, <1>3 DEF OnlySlot, IInv, CurInv, IsFuture, TypeOK
<1>11. QueueInv'
  <2>1. SUFFICES ASSUME lib.fini # "down", NEW t \in Range(queue)
                 PROVE  aio'[t].st \in {"pushed", "idle"}
    BY <1>1 DEF IInv, QueueInv
  <2>2. t \in Slots \ {s} /\ aio[t].st \in {"pushed", "idle"}
    BY <1>3, <2>1 DEF IInv, QueueInv, TypeOK
  <2> QED BY <1>2, <2>2 DEF OnlySlot
<1>12. PendingInv'
  <2>1. SUFFICES ASSUME lib.fini # "down", NEW t \in Slots, IsFuture(t)'
                 PROVE  /\ call'[t].pc = "nng" \/ aio'[t].st \in {"busy", "ended"} => t \in reg
                        /\ call'[t].pc # "nng" /\ call'[t].fut = "pending" =>
                              aio'[t].st \in {"busy", "ended"} \/ t \in Range(queue) \/ t = disp.cur
    BY <1>1 DEF PendingInv
  <2>2. t # s
    BY <1>2, <1>4, <2>1 DEF IsFuture
  <2>3. call'[t] = call[t] /\ aio'[t] = aio[t]
    BY <1>2, <2>2 DEF OnlySlot
  <2> QED BY <2>1, <2>3 DEF IInv, PendingInv, IsFuture
<1> QED BY <1>6, <1>7, <1>8, <1>9, <1>10, <1>11, <1>12 DEF IInv

(* The first half of a call: it takes the Message, and for submit_*() the  *)
(* operation is registered.                                                *)
LEMMA CallFirstStep ==
    ASSUME IInv, NEW s \in Slots, NEW k, NEW src, <<k, src>> \in CallKinds, Call(s, k, src)
    PROVE  IInv'
<1> USE DEF Call, PrepareSubmit
<1>0. SlotOK(s)
  BY AtSlot
<1>k. k \in Kinds /\ src \in Srcs /\ (k \in Sends <=> src # "none")
  BY DEF CallKinds, Kinds, Srcs, Blocking, Futures, Sends
<1> DEFINE q == IF src = "none" THEN "none" ELSE "call"
           h == k \in Futures
           f == IF k \in Futures THEN "pending" ELSE "none"
           d == [NewCall EXCEPT !.pc = "nng", !.kind = k, !.src = src, !.ptr = q, !.held = h, !.fut = f]
<1>1. d \in CallType
  <2>1. q \in Ptrs /\ "nng" \in Pcs /\ f \in Futs /\ h \in BOOLEAN
    BY DEF Ptrs, Pcs, Futs
  <2> HIDE DEF q, f, h
  <2> QED BY <1>k, <2>1, NewType, Types
<1>2. call' = [call EXCEPT ![s] = d] /\ aio' = [aio EXCEPT ![s] = aio[s]]
  BY DEF IInv, TypeOK
<1>3. /\ d.pc = "nng" /\ d.kind = k /\ d.src = src /\ d.ptr = q
      /\ d.held = h /\ d.fut = f /\ d.out = "none"
  BY DEF NewCall
<1>4. /\ call[s].pc = "free" /\ aio[s].st = "new" /\ aio[s] \in AioType
      /\ call[s].kind \notin Futures /\ call[s].src = "none"
  BY <1>0 DEF SlotOK, CallOK, NewCall, Futures
<1>5. /\ call' \in [Slots -> CallType] /\ call'[s] = d
      /\ \A t \in Slots \ {s} : call'[t] = call[t]
  <2> HIDE DEF d
  <2> QED BY <1>1, <1>2, CallUpdate DEF IInv
<1>6. /\ aio' = aio /\ disp' = disp /\ queue' = queue /\ lib' = lib
      /\ reg' = IF h THEN reg \cup {s} ELSE reg
      /\ UNCHANGED <<plan, lib, disp, queue, sock, aio>> /\ lib.init
  OBVIOUS
<1>7. /\ src = "message" => msg.full /\ msg.views = 0
      /\ src = "message" => ~msg'.full /\ msg'.views = msg.views
      /\ src # "message" => msg' = msg
      /\ msg' \in [full : BOOLEAN, views : 0..MaxViews]
  BY DEF CanSteal, IInv, TypeOK
<1> HIDE DEF Call, PrepareSubmit, d
<1>8. TypeOK'
  BY <1>5, <1>6, <1>7 DEF IInv, TypeOK
<1>9. CallInv'
  <2>1. CallOK(d, aio[s])
    BY <1>3, <1>4, <1>k DEF CallOK, PtrOK, FuturePcs, Results
  <2> QED BY <1>5, <1>6, <2>1 DEF IInv, CallInv
<1>10. TakerInv'
  <2>1. CASE src = "message"
    <3>1. \A t \in Slots : ~Takes(call[t])
      BY <1>7, <2>1 DEF IInv, TakerInv
    <3>2. Takes(d)
      BY <1>3, <2>1 DEF Takes
    <3>3. \A t \in Slots : Takes(call'[t]) => t = s
      BY <1>5, <3>1
    <3>4. \A t \in Slots : call'[t].src = "message" /\ call'[t].pc # "done" => Takes(call'[t])
      BY <1>5, <3>2 DEF IInv, TakerInv
    <3>5. ~msg'.full /\ msg'.views = 0
      BY <1>7, <2>1
    <3> QED BY <3>3, <3>4, <3>5 DEF TakerInv
  <2>2. CASE src # "message"
    BY <1>3, <1>5, <1>7, <2>2, TakerSame DEF IInv, Takes
  <2> QED BY <2>1, <2>2
<1>11. RegInv'
  <2>1. SUFFICES ASSUME NEW t \in reg'
                 PROVE  IsFuture(t)' /\ call'[t].held /\ call'[t].pc \in FuturePcs \cup {"nng"}
    BY <1>6 DEF IInv, RegInv
  <2>2. CASE t = s
    <3>1. h
      BY <1>4, <1>6, <2>1, <2>2 DEF IInv, RegInv, IsFuture
    <3> QED BY <1>3, <1>5, <2>2, <3>1 DEF IsFuture
  <2>3. CASE t # s
    <3>1. t \in reg /\ t \in Slots
      BY <1>6, <2>1, <2>3 DEF IInv, TypeOK
    <3> QED BY <1>5, <2>3, <3>1 DEF IInv, RegInv, IsFuture
  <2> QED BY <2>2, <2>3
<1>12. CurInv'
  <2>1. disp.cur # s
    BY <1>4, SlotsAssumption DEF IInv, CurInv
  <2>2. disp.cur # NoOp => disp.cur \notin reg' /\ call'[disp.cur] = call[disp.cur]
    BY <1>5, <1>6, <2>1 DEF IInv, CurInv, TypeOK
  <2>3. disp.pc = "complete" => disp.cur # NoOp
    BY DEF IInv, CurInv
  <2> QED BY <1>6, <2>2, <2>3 DEF IInv, CurInv, IsFuture
<1>13. QueueInv'
  BY <1>6 DEF IInv, QueueInv
<1>14. PendingInv'
  <2>1. SUFFICES ASSUME lib.fini # "down", NEW t \in Slots, IsFuture(t)'
                 PROVE  /\ call'[t].pc = "nng" \/ aio[t].st \in {"busy", "ended"} => t \in reg'
                        /\ call'[t].pc # "nng" /\ call'[t].fut = "pending" =>
                              aio[t].st \in {"busy", "ended"} \/ t \in Range(queue) \/ t = disp.cur
    BY <1>6 DEF PendingInv
  <2>2. CASE t = s
    BY <1>3, <1>5, <1>6, <2>1, <2>2 DEF IsFuture
  <2>3. CASE t # s
    BY <1>5, <1>6, <2>1, <2>3 DEF IInv, PendingInv, IsFuture
  <2> QED BY <2>2, <2>3
<1> QED BY <1>8, <1>9, <1>10, <1>11, <1>12, <1>13, <1>14 DEF IInv

-----------------------------------------------------------------------------
(* The way of a completion.                                                *)

(* The trampoline queues the id of an operation that has just ended.       *)
LEMMA TrampolineStep == ASSUME IInv, NEW s \in Slots, Trampoline(s) PROVE IInv'
<1> USE DEF Trampoline
<1>0. SlotOK(s)
  BY AtSlot
<1> DEFINE a == [aio[s] EXCEPT !.st = "pushed"]
<1>1. a \in AioType /\ a.st = "pushed" /\ a.result = aio[s].result
  BY <1>0, Types DEF SlotOK, Sts
<1>2. aio' = [aio EXCEPT ![s] = a] /\ aio[s].st = "ended"
  BY DEF IInv, TypeOK
<1>3. /\ UNCHANGED <<plan, lib, disp, reg, sock, msg, call>>
      /\ queue' = Append(queue, s)
  OBVIOUS
<1> HIDE DEF Trampoline, a
<1>4. aio' \in [Slots -> AioType] /\ aio'[s] = a /\ \A t \in Slots \ {s} : aio'[t] = aio[t]
  BY <1>1, <1>2, AioUpdate DEF IInv
<1>5. IsFuture(s)
  BY <1>0, <1>2, Types DEF SlotOK, CallOK, IsFuture, Pcs, FuturePcs
<1>6. CallOK(call[s], a)
  BY <1>0, <1>1, <1>2 DEF SlotOK, CallOK, PtrOK
<1>7. TypeOK'
  <2>1. queue' \in Seq(Slots)
    BY <1>3 DEF IInv, TypeOK
  <2> QED BY <1>3, <1>4, <2>1 DEF IInv, TypeOK
<1>8. CallInv'
  BY <1>3, <1>4, <1>6 DEF IInv, CallInv
<1>9. TakerInv' /\ RegInv'
  BY <1>3 DEF IInv, TakerInv, RegInv, IsFuture
<1>10. CurInv'
  BY <1>1, <1>3, <1>4 DEF IInv, CurInv, IsFuture, TypeOK
<1>11. ASSUME lib.fini # "down"
       PROVE  /\ s \in reg /\ s # disp.cur
              /\ Range(queue') = Range(queue) \cup {s} /\ Injective(queue')
  <2>1. s \in reg /\ s \notin Range(queue) /\ Injective(queue)
    BY <1>2, <1>5, <1>11 DEF IInv, PendingInv, QueueInv
  <2>2. s # disp.cur
    BY <1>2, SlotsAssumption DEF IInv, CurInv
  <2>3. queue \in Seq(Slots)
    BY DEF IInv, TypeOK
  <2> QED BY <1>3, <2>1, <2>2, <2>3, AppendQueue
<1>12. QueueInv'
  <2>1. SUFFICES ASSUME lib.fini # "down"
                 PROVE  /\ Injective(queue')
                        /\ \A t \in Range(queue') : t \in reg /\ t # disp.cur /\ aio'[t].st \in {"pushed", "idle"}
    BY <1>3 DEF QueueInv
  <2>2. ASSUME NEW t \in Range(queue)
        PROVE  t \in reg /\ t # disp.cur /\ aio'[t].st \in {"pushed", "idle"}
    BY <1>1, <1>4, <2>1, <2>2 DEF IInv, QueueInv, TypeOK
  <2> QED BY <1>1, <1>4, <1>11, <2>1, <2>2
<1>13. PendingInv'
  <2>1. SUFFICES ASSUME lib.fini # "down", NEW t \in Slots, IsFuture(t)
                 PROVE  /\ call[t].pc = "nng" \/ aio'[t].st \in {"busy", "ended"} => t \in reg
                        /\ call[t].pc # "nng" /\ call[t].fut = "pending" =>
                              aio'[t].st \in {"busy", "ended"} \/ t \in Range(queue') \/ t = disp.cur
    BY <1>3 DEF PendingInv, IsFuture
  <2>2. CASE t = s
    BY <1>11, <2>1, <2>2
  <2>3. CASE t # s
    BY <1>4, <1>11, <2>1, <2>3 DEF IInv, PendingInv
  <2> QED BY <2>2, <2>3
<1> QED BY <1>7, <1>8, <1>9, <1>10, <1>12, <1>13 DEF IInv

\* The dispatcher moves; no call and no aio does.
OnlyDispatch == UNCHANGED <<plan, lib, sock, msg, call, aio>>

(* _dispatch_one(): the first id is registered, and its callback is now    *)
(* the dispatcher's.                                                       *)
LEMMA DispatchOneStep ==
    ASSUME IInv, OnlyDispatch, disp.pc \in {"drain", "wait"}, queue # <<>>, DispatchOne
    PROVE  IInv'
<1> USE DEF OnlyDispatch
<1> DEFINE s == Head(queue)
<1>1. queue \in Seq(Slots) /\ s \in Slots /\ queue' \in Seq(Slots)
  BY DEF DispatchOne, IInv, TypeOK
<1>2. /\ queue' = Tail(queue) /\ reg' = reg \ {s}
      /\ s \in reg => disp' = [pc |-> "complete", cur |-> s]
      /\ s \notin reg => disp' = [pc |-> "drain", cur |-> NoOp]
  BY DEF DispatchOne
<1> HIDE DEF s
<1>3. TypeOK'
  BY <1>1, <1>2 DEF IInv, TypeOK
<1>4. CallInv' /\ TakerInv' /\ RegInv'
  BY <1>2 DEF IInv, CallInv, TakerInv, RegInv, IsFuture
<1>5. disp.cur = NoOp
  BY DEF IInv, CurInv
<1>6. CASE lib.fini = "down"
  <2>1. reg = {} /\ disp' = [pc |-> "drain", cur |-> NoOp]
    BY <1>2, <1>6 DEF IInv, RegInv
  <2> QED BY <1>3, <1>4, <1>6, <2>1 DEF IInv, CurInv, QueueInv, PendingInv
<1>7. CASE lib.fini # "down"
  <2>1. /\ Injective(queue) /\ Injective(queue') /\ s \notin Range(queue')
        /\ Range(queue) = Range(queue') \cup {s}
    BY <1>1, <1>2, <1>7, TailQueue DEF IInv, QueueInv, s
  <2>2. s \in reg /\ aio[s].st \in {"pushed", "idle"} /\ IsFuture(s) /\ call[s].held
    BY <1>7, <2>1 DEF IInv, QueueInv, RegInv
  <2>3. disp'.pc = "complete" /\ disp'.cur = s /\ s # NoOp /\ s \notin reg'
    BY <1>1, <1>2, <2>2, SlotsAssumption
  <2>4. CurInv'
    BY <2>2, <2>3 DEF CurInv, IsFuture
  <2>5. QueueInv'
    BY <1>2, <1>7, <2>1, <2>3 DEF IInv, QueueInv
  <2>6. PendingInv'
    <3>1. SUFFICES ASSUME NEW t \in Slots, IsFuture(t)
                   PROVE  /\ call[t].pc = "nng" \/ aio[t].st \in {"busy", "ended"} => t \in reg'
                          /\ call[t].pc # "nng" /\ call[t].fut = "pending" =>
                                aio[t].st \in {"busy", "ended"} \/ t \in Range(queue') \/ t = disp'.cur
      BY DEF PendingInv, IsFuture
    <3>2. call[s].pc # "nng"
      BY <1>1, <2>2 DEF IInv, CallInv, CallOK
    <3> QED BY <1>2, <1>5, <1>7, <2>1, <2>2, <2>3, <3>1, <3>2, SlotsAssumption DEF IInv, PendingInv
  <2> QED BY <1>3, <1>4, <2>4, <2>5, <2>6 DEF IInv
<1> QED BY <1>6, <1>7

(* The dispatcher between two operations.                                  *)
LEMMA DispIdleSteps ==
    ASSUME IInv, OnlyDispatch, UNCHANGED <<queue, reg>>,
           disp.pc \notin {"complete", "set"},
           NEW p \in {"drain", "check", "wait", "exited"}, disp' = [disp EXCEPT !.pc = p]
    PROVE  IInv'
<1> USE DEF OnlyDispatch
<1>1. disp'.pc = p /\ disp'.cur = disp.cur /\ disp.cur = NoOp
  BY DEF IInv, TypeOK, CurInv
<1>2. TypeOK'
  BY DEF IInv, TypeOK
<1> QED BY <1>1, <1>2 DEF IInv, CallInv, TakerInv, RegInv, CurInv, QueueInv, PendingInv, IsFuture

(* _dispatch_complete() takes the future.                                  *)
LEMMA DispCompleteStep == ASSUME IInv, DispComplete PROVE IInv'
<1> DEFINE s == disp.cur
           d == [call[s] EXCEPT !.held = FALSE]
<1>1. /\ disp.pc = "complete" /\ s \in Slots /\ s # NoOp /\ s \notin reg
      /\ IsFuture(s) /\ aio[s].st \in {"pushed", "idle"} /\ call[s].held
  BY DEF DispComplete, IInv, CurInv, TypeOK
<1>2. /\ call' = [call EXCEPT ![s] = d]
      /\ disp' = IF call[s].held /\ call[s].fut = "pending" THEN [disp EXCEPT !.pc = "set"]
                 ELSE [pc |-> "drain", cur |-> NoOp]
      /\ UNCHANGED <<plan, lib, queue, reg, sock, msg, aio>>
  BY <1>1 DEF DispComplete, IInv, TypeOK
<1>3. SlotOK(s)
  BY <1>1, AtSlot
<1>4. /\ d \in CallType /\ d.pc = call[s].pc /\ d.kind = call[s].kind /\ d.src = call[s].src
      /\ d.ptr = call[s].ptr /\ d.fut = call[s].fut /\ d.out = call[s].out
  BY <1>3, Types DEF SlotOK
<1>5. /\ call[s].fut = "pending" => disp'.pc = "set" /\ disp'.cur = s
      /\ call[s].fut # "pending" => disp' = [pc |-> "drain", cur |-> NoOp]
      /\ disp' \in [pc : {"set", "drain"}, cur : Slots \cup {NoOp}]
  BY <1>1, <1>2 DEF IInv, TypeOK
<1> HIDE DEF s, d
<1>6. call' \in [Slots -> CallType] /\ call'[s] = d /\ \A t \in Slots \ {s} : call'[t] = call[t]
  BY <1>1, <1>2, <1>4, CallUpdate DEF IInv
<1>7. TypeOK'
  BY <1>2, <1>5, <1>6 DEF IInv, TypeOK
<1>8. CallInv'
  <2>1. CallOK(d, aio[s])
    BY <1>1, <1>3, <1>4 DEF SlotOK, CallOK, PtrOK, DoneOK, IsFuture
  <2> QED BY <1>2, <1>6, <2>1 DEF IInv, CallInv
<1>9. TakerInv'
  BY <1>1, <1>2, <1>4, <1>6, TakerSame DEF IInv, Takes, TakerInv
<1>10. RegInv'
  BY <1>1, <1>2, <1>6 DEF IInv, RegInv, IsFuture, TypeOK
<1>11. CurInv'
  <2>1. CASE call[s].fut = "pending"
    BY <1>1, <1>2, <1>4, <1>5, <1>6, <2>1 DEF CurInv, IsFuture
  <2>2. CASE call[s].fut # "pending"
    BY <1>5, <2>2 DEF CurInv
  <2> QED BY <2>1, <2>2
<1>12. QueueInv'
  <2>1. \A t \in Range(queue) : t \in Slots => t # NoOp
    BY SlotsAssumption
  <2>2. \A t \in Range(queue) : lib.fini # "down" => t \in Slots
    BY DEF IInv, QueueInv, TypeOK
  <2>3. disp'.cur \in {s, NoOp}
    BY <1>5
  <2> QED BY <1>2, <2>1, <2>2, <2>3 DEF IInv, QueueInv, s
<1>13. PendingInv'
  <2>1. SUFFICES ASSUME lib.fini # "down", NEW t \in Slots, IsFuture(t)'
                 PROVE  /\ call'[t].pc = "nng" \/ aio[t].st \in {"busy", "ended"} => t \in reg
                        /\ call'[t].pc # "nng" /\ call'[t].fut = "pending" =>
                              aio[t].st \in {"busy", "ended"} \/ t \in Range(queue) \/ t = disp'.cur
    BY <1>2 DEF PendingInv
  <2>2. call'[t].pc = call[t].pc /\ call'[t].fut = call[t].fut /\ IsFuture(t)
    BY <1>4, <1>6, <2>1 DEF IsFuture
  <2>3. t = disp.cur /\ call[t].fut = "pending" => t = disp'.cur
    BY <1>5 DEF s
  <2> QED BY <2>1, <2>2, <2>3 DEF IInv, PendingInv
<1> QED BY <1>7, <1>8, <1>9, <1>10, <1>11, <1>12, <1>13 DEF IInv

(* The future gets the result, unless it was cancelled meanwhile.          *)
LEMMA DispSetStep == ASSUME IInv, DispSet PROVE IInv'
<1> DEFINE s == disp.cur
           pending == call[s].fut = "pending"
           received == call[s].kind = "submit_recv" /\ call[s].ptr = "call"
           f == IF pending THEN aio[s].result ELSE call[s].fut
           q == IF ~received THEN call[s].ptr ELSE IF pending THEN "user" ELSE "freed"
           d == [call[s] EXCEPT !.fut = f, !.ptr = q]
<1>1. /\ disp.pc = "set" /\ s \in Slots /\ s # NoOp /\ s \notin reg
      /\ IsFuture(s) /\ aio[s].st \in {"pushed", "idle"}
  BY DEF DispSet, IInv, CurInv, TypeOK
<1>2. /\ call' = [call EXCEPT ![s] = d]
      /\ disp' = [pc |-> "drain", cur |-> NoOp]
      /\ UNCHANGED <<plan, lib, queue, reg, sock, msg, aio>>
  BY <1>1 DEF DispSet, IInv, TypeOK
<1>3. SlotOK(s)
  BY <1>1, AtSlot
<1>4. f \in Futs /\ q \in Ptrs
  BY <1>3, Types DEF SlotOK, Futs, Ptrs
<1>5. /\ d \in CallType /\ d.pc = call[s].pc /\ d.kind = call[s].kind /\ d.src = call[s].src
      /\ d.ptr = q /\ d.fut = f /\ d.out = call[s].out /\ d.held = call[s].held
  <2> HIDE DEF f, q
  <2> QED BY <1>3, <1>4, Types DEF SlotOK
<1> HIDE DEF s, d
<1>6. call' \in [Slots -> CallType] /\ call'[s] = d /\ \A t \in Slots \ {s} : call'[t] = call[t]
  BY <1>1, <1>2, <1>5, CallUpdate DEF IInv
<1>7. TypeOK'
  BY <1>2, <1>6 DEF IInv, TypeOK
<1>8. CallInv'
  <2>1. CallOK(d, aio[s])
    <3>1. call[s].pc \in FuturePcs /\ call[s].kind \in {"submit_send", "submit_recv"}
      BY <1>1, <1>3, Types DEF SlotOK, CallOK, IsFuture, Futures, FuturePcs, Pcs, NewCall
    <3>2. aio[s].result \in Results
      BY <1>3, Types DEF SlotOK
    <3> QED BY <1>1, <1>3, <1>5, <3>1, <3>2
            DEF SlotOK, CallOK, PtrOK, Results, Futures, FuturePcs, Sends, IsFuture
  <2> QED BY <1>2, <1>6, <2>1 DEF IInv, CallInv
<1>9. TakerInv'
  <2>1. Takes(d) <=> Takes(call[s])
    BY <1>3, <1>5 DEF Takes, SlotOK, CallOK, Sends
  <2> QED BY <1>1, <1>2, <1>5, <1>6, <2>1, TakerSame DEF IInv, TakerInv
<1>10. RegInv'
  BY <1>1, <1>2, <1>6 DEF IInv, RegInv, IsFuture, TypeOK
<1>11. CurInv'
  BY <1>2 DEF CurInv
<1>12. QueueInv'
  <2>1. \A t \in Range(queue) : lib.fini # "down" => t \in Slots /\ t # NoOp
    BY SlotsAssumption DEF IInv, QueueInv, TypeOK
  <2> QED BY <1>2, <2>1 DEF IInv, QueueInv
<1>13. PendingInv'
  <2>1. SUFFICES ASSUME lib.fini # "down", NEW t \in Slots, IsFuture(t)'
                 PROVE  /\ call'[t].pc = "nng" \/ aio[t].st \in {"busy", "ended"} => t \in reg
                        /\ call'[t].pc # "nng" /\ call'[t].fut = "pending" =>
                              aio[t].st \in {"busy", "ended"} \/ t \in Range(queue) \/ t = disp'.cur
    BY <1>2 DEF PendingInv
  <2>2. call'[t].pc = call[t].pc /\ IsFuture(t)
    BY <1>5, <1>6, <2>1 DEF IsFuture
  <2>3. CASE t = s
    <3>1. call'[t].fut # "pending"
      BY <1>3, <1>5, <1>6, <2>3, Types DEF SlotOK, Results
    <3> QED BY <2>1, <2>2, <3>1 DEF IInv, PendingInv
  <2>4. CASE t # s
    BY <1>6, <2>1, <2>2, <2>4 DEF IInv, PendingInv, s
  <2> QED BY <2>3, <2>4
<1> QED BY <1>7, <1>8, <1>9, <1>10, <1>11, <1>12, <1>13 DEF IInv

-----------------------------------------------------------------------------
(* The socket, the Message and the library.                                *)

(* Every busy aio is aborted: by Socket.close(), and by nng_fini() after   *)
(* the callbacks were dropped.                                             *)
LEMMA AbortAllSteps == ASSUME IInv, CloseNng \/ FiniClear PROVE IInv'
<1>1. /\ aio' = [s \in Slots |-> Abort(s)]
      /\ UNCHANGED <<plan, disp, queue, msg, call>>
  BY DEF CloseNng, FiniClear
<1>2. \A s \in Slots : SlotOK(s)
  BY AtSlot
<1>3. ASSUME NEW s \in Slots
      PROVE  /\ aio'[s] \in AioType
             /\ CallOK(call[s], aio'[s])
             /\ IsFuture(s) =>
                   /\ aio[s].st \in {"pushed", "idle"} => aio'[s].st \in {"pushed", "idle"}
                   /\ aio[s].st \in {"busy", "ended"} <=> aio'[s].st \in {"busy", "ended"}
  BY <1>1, <1>2, AbortOK DEF IsFuture
<1>4. \/ lib' = lib /\ reg' = reg /\ sock' = [sock EXCEPT !.nng = FALSE]
      \/ /\ lib' = [lib EXCEPT !.fini = "down", !.init = FALSE]
         /\ reg' = {} /\ sock' = [sock EXCEPT !.nng = FALSE]
  BY DEF CloseNng, FiniClear
<1>5. TypeOK'
  <2>1. aio' \in [Slots -> AioType]
    BY <1>1, <1>3
  <2>2. /\ lib' \in [init : BOOLEAN, stopped : BOOLEAN, late : BOOLEAN,
                     fini : {"no", "join", "clear", "down"}]
        /\ sock' \in [open : BOOLEAN, nng : BOOLEAN] /\ reg' \subseteq Slots
    BY <1>4 DEF IInv, TypeOK
  <2> QED BY <1>1, <2>1, <2>2 DEF IInv, TypeOK
<1>6. CallInv'
  BY <1>1, <1>3 DEF CallInv
<1>7. TakerInv'
  BY <1>1 DEF IInv, TakerInv
<1>8. RegInv'
  BY <1>1, <1>4 DEF IInv, RegInv, IsFuture, TypeOK
<1>9. CurInv'
  <2>1. disp.cur # NoOp => disp.cur \in Slots /\ disp.cur \notin reg'
    BY <1>4 DEF IInv, CurInv, TypeOK
  <2> QED BY <1>1, <1>3, <2>1 DEF IInv, CurInv, IsFuture
<1>10. CASE lib' = lib /\ reg' = reg
  <2>1. QueueInv'
    <3>1. \A s \in Range(queue) : lib.fini # "down" => s \in Slots /\ IsFuture(s)
      BY DEF IInv, QueueInv, RegInv, TypeOK
    <3> QED BY <1>1, <1>3, <1>10, <3>1 DEF IInv, QueueInv
  <2>2. PendingInv'
    BY <1>1, <1>3, <1>10 DEF IInv, PendingInv, IsFuture
  <2> QED BY <1>5, <1>6, <1>7, <1>8, <1>9, <2>1, <2>2 DEF IInv
<1>11. CASE lib'.fini = "down"
  BY <1>5, <1>6, <1>7, <1>8, <1>9, <1>11 DEF IInv, QueueInv, PendingInv
<1>12. lib' = [lib EXCEPT !.fini = "down", !.init = FALSE] => lib'.fini = "down"
  BY DEF IInv, TypeOK
<1> QED BY <1>4, <1>10, <1>11, <1>12

(* Buffers, the end of close(), and the other steps of the library.        *)
LEMMA OtherSteps ==
    ASSUME IInv,
           \/ GetBuffer \/ ReleaseBuffer \/ CloseClearId
           \/ NngInit \/ StartDispatchThread \/ FiniStop \/ FiniJoin
    PROVE  IInv'
<1>1. CASE GetBuffer \/ ReleaseBuffer
  <2>1. /\ UNCHANGED <<plan, lib, disp, queue, reg, sock, call, aio>>
        /\ msg' \in [full : BOOLEAN, views : 0..MaxViews] /\ msg'.full = msg.full
        /\ msg'.views > 0 => msg.full
    BY <1>1, ViewsAssumption DEF GetBuffer, ReleaseBuffer, IInv, TypeOK, TakerInv
  <2>2. TakerInv'
    BY <2>1 DEF IInv, TakerInv
  <2>3. TypeOK'
    BY <2>1 DEF IInv, TypeOK
  <2> QED BY <2>1, <2>2, <2>3 DEF IInv, CallInv, RegInv, CurInv, QueueInv, PendingInv, IsFuture
<1>2. CASE CloseClearId
  <2>1. UNCHANGED <<plan, lib, disp, queue, reg, msg, call, aio>>
    BY <1>2 DEF CloseClearId
  <2>2. TypeOK'
    BY <1>2 DEF CloseClearId, IInv, TypeOK
  <2> QED BY <2>1, <2>2 DEF IInv, CallInv, TakerInv, RegInv, CurInv, QueueInv, PendingInv, IsFuture
<1>3. CASE NngInit \/ FiniStop \/ FiniJoin
  <2> DEFINE LibType == [init : BOOLEAN, stopped : BOOLEAN, late : BOOLEAN,
                         fini : {"no", "join", "clear", "down"}]
  <2>0. lib \in LibType
    BY DEF IInv, TypeOK
  <2>1. UNCHANGED <<plan, disp, queue, reg, sock, msg, call, aio>>
    BY <1>3 DEF NngInit, FiniStop, FiniJoin
  <2>2. lib.fini # "down" /\ lib'.fini # "down" /\ lib' \in LibType
    <3>1. CASE NngInit
      BY <2>0, <3>1 DEF NngInit
    <3>2. CASE FiniStop
      BY <2>0, <3>2 DEF FiniStop
    <3>3. CASE FiniJoin
      BY <2>0, <3>3 DEF FiniJoin
    <3> QED BY <1>3, <3>1, <3>2, <3>3
  <2>3. TypeOK'
    BY <2>1, <2>2 DEF IInv, TypeOK
  <2>4. CallInv' /\ TakerInv' /\ CurInv'
    BY <2>1 DEF IInv, CallInv, TakerInv, CurInv, IsFuture
  <2>5. RegInv'
    BY <2>1, <2>2 DEF IInv, RegInv, IsFuture
  <2>6. QueueInv' /\ PendingInv'
    BY <2>1, <2>2 DEF IInv, QueueInv, PendingInv, IsFuture
  <2> QED BY <2>3, <2>4, <2>5, <2>6 DEF IInv
<1>4. CASE StartDispatchThread
  <2>1. OnlyDispatch /\ UNCHANGED <<queue, reg>> /\ disp' = [disp EXCEPT !.pc = "drain"]
        /\ disp.pc \notin {"complete", "set"}
    BY <1>4 DEF StartDispatchThread, OnlyDispatch
  <2> QED BY <2>1, DispIdleSteps
<1> QED BY <1>1, <1>2, <1>3, <1>4

-----------------------------------------------------------------------------
(* The initial states.                                                     *)
LEMMA InitIInv == Init => IInv
<1> SUFFICES ASSUME Init PROVE IInv
  OBVIOUS
<1> USE DEF Init
<1>1. \A s \in Slots : call[s] = NewCall /\ aio[s] = NewAio
  OBVIOUS
<1>2. /\ NewCall.pc = "free" /\ NewCall.kind = "recv" /\ NewCall.src = "none" /\ NewCall.ptr = "none"
      /\ NewCall.held = FALSE /\ NewCall.fut = "none" /\ NewCall.out = "none"
      /\ NewAio.st = "new" /\ NewAio.result = "ok"
      /\ NewCall.kind \notin Futures /\ NewCall.kind \notin Sends
  BY DEF NewCall, NewAio, Futures, Sends
<1>3. TypeOK
  <2>1. call \in [Slots -> CallType] /\ aio \in [Slots -> AioType]
    BY NewType
  <2>2. <<>> \in Seq(Slots)
    OBVIOUS
  <2> QED BY <2>1, <2>2, ViewsAssumption DEF TypeOK
<1>4. CallInv
  <2>1. CallOK(NewCall, NewAio)
    BY <1>2 DEF CallOK, PtrOK, FuturePcs, Results
  <2> QED BY <1>1, <2>1 DEF CallInv
<1>5. TakerInv
  BY <1>1, <1>2 DEF TakerInv, Takes
<1>6. RegInv /\ CurInv
  BY DEF RegInv, CurInv
<1>7. QueueInv
  <2>1. Range(<<>>) = {} /\ DOMAIN <<>> = {}
    BY DEF Range
  <2> QED BY <2>1 DEF QueueInv, Injective
<1>8. PendingInv
  BY <1>1, <1>2 DEF PendingInv, IsFuture
<1> QED BY <1>3, <1>4, <1>5, <1>6, <1>7, <1>8 DEF IInv

\* No call becomes done in this step.
NoneEnds == \A t \in Slots : call'[t].pc = "done" => call[t].pc = "done"

(* The other actions end no blocking call.                                 *)
LEMMA OthersEndNone ==
    ASSUME IInv, NEW s \in Slots, NEW r \in Results, NEW k, NEW src,
           \/ Call(s, k, src) \/ NngCall(s) \/ WaitTimesOut(s) \/ Signal(s)
           \/ OnFutureCancel(s) \/ CancelReturns(s) \/ Cancel(s)
           \/ Complete(s, r) \/ Free(s) \/ DispComplete \/ DispSet
           \/ UNCHANGED call
    PROVE  NoneEnds
<1>0. call \in [Slots -> CallType]
  BY DEF IInv, TypeOK
<1>1. CASE Call(s, k, src)
  BY <1>0, <1>1, Types DEF Call, NoneEnds, NewCall
<1>2. CASE NngCall(s)
  BY <1>0, <1>2, Types DEF NngCall, NoneEnds
<1>3. CASE WaitTimesOut(s)
  BY <1>0, <1>3, Types DEF WaitTimesOut, NoneEnds
<1>4. CASE Signal(s)
  BY <1>0, <1>4, Types DEF Signal, NoneEnds
<1>5. CASE OnFutureCancel(s)
  BY <1>0, <1>5, Types DEF OnFutureCancel, NoneEnds
<1>6. CASE CancelReturns(s)
  BY <1>0, <1>6, Types DEF CancelReturns, NoneEnds
<1>7. CASE Cancel(s)
  BY <1>0, <1>7, Types DEF Cancel, NoneEnds
<1>8. CASE Complete(s, r)
  BY <1>0, <1>8, Types DEF Complete, NoneEnds
<1>9. CASE Free(s)
  BY <1>0, <1>9, Types DEF Free, NoneEnds, NewCall
<1>10. CASE DispComplete
  BY <1>0, <1>10, Types DEF DispComplete, NoneEnds
<1>11. CASE DispSet
  BY <1>0, <1>11, Types DEF DispSet, NoneEnds
<1>12. CASE UNCHANGED call
  BY <1>12 DEF NoneEnds
<1> QED BY <1>1, <1>2, <1>3, <1>4, <1>5, <1>6, <1>7, <1>8, <1>9, <1>10, <1>11, <1>12

(* Every step keeps the invariant, and settles a blocking call it ends.    *)
LEMMA NextIInv ==
    ASSUME IInv, [Next]_vars
    PROVE  IInv' /\ \A t \in Slots : Settles(t)
<1>a. NoneEnds => \A t \in Slots : Settles(t)
  BY DEF NoneEnds, Settles
<1>b. "ok" \in Results
  BY DEF Results
<1>1. ASSUME NEW s \in Slots, NEW c \in plan[s], Call(s, c[1], c[2]) PROVE IInv' /\ NoneEnds
  <2>1. c \in CallKinds /\ c = <<c[1], c[2]>>
    <3>1. c \in CallKinds
      BY PlansAssumption DEF IInv, TypeOK
    <3> QED BY <3>1 DEF CallKinds
  <2>2. IInv'
    BY <1>1, <2>1, CallFirstStep
  <2> QED BY <1>1, <1>b, <2>2, OthersEndNone
<1>2. ASSUME NEW s \in Slots, NngCall(s) PROVE IInv' /\ NoneEnds
  BY <1>2, <1>b, NngCallStep, OthersEndNone
<1>3. ASSUME NEW s \in Slots,
             WaitTimesOut(s) \/ Signal(s) \/ OnFutureCancel(s) \/ CancelReturns(s)
      PROVE  IInv' /\ NoneEnds
  BY <1>3, <1>b, WaitSteps, OthersEndNone
<1>4. ASSUME NEW s \in Slots, NEW r \in Results,
             Settle(s) \/ SignalRaise(s) \/ SendNonblock(s, r) \/ RecvNonblock(s, r)
      PROVE  IInv' /\ \A t \in Slots : Settles(t)
  BY <1>4, BlockingSteps
<1>5. ASSUME NEW s \in Slots, Cancel(s) PROVE IInv' /\ NoneEnds
  BY <1>5, <1>b, CancelStep, OthersEndNone
<1>6. ASSUME NEW s \in Slots, Free(s) PROVE IInv' /\ NoneEnds
  BY <1>6, <1>b, FreeStep, OthersEndNone
<1>7. ASSUME NEW s \in Slots, NEW r \in Results, Complete(s, r) PROVE IInv' /\ NoneEnds
  BY <1>7, CompleteStep, OthersEndNone
<1>8. ASSUME UNCHANGED call PROVE NoneEnds
  BY <1>8 DEF NoneEnds
<1>9. ASSUME NEW s \in Slots, Trampoline(s) \/ CallbackReturns(s) PROVE IInv' /\ NoneEnds
  BY <1>8, <1>9, TrampolineStep, CallbackReturnsStep DEF Trampoline, CallbackReturns
<1>10. CASE DispDrain \/ DispWait
  <2>1. OnlyDispatch /\ disp.pc \in {"drain", "wait"} /\ NoneEnds
    BY <1>8, <1>10 DEF DispDrain, DispWait, OnlyDispatch
  <2>2. CASE queue # <<>>
    BY <1>a, <1>10, <2>1, <2>2, DispatchOneStep DEF DispDrain, DispWait
  <2>3. CASE queue = <<>>
    <3>1. /\ UNCHANGED <<queue, reg>> /\ disp.pc \notin {"complete", "set"}
          /\ \E p \in {"drain", "check", "wait", "exited"} : disp' = [disp EXCEPT !.pc = p]
      BY <1>10, <2>3 DEF DispDrain, DispWait
    <3> QED BY <1>a, <2>1, <3>1, DispIdleSteps
  <2> QED BY <2>2, <2>3
<1>11. CASE DispCheck
  <2>1. /\ OnlyDispatch /\ UNCHANGED <<queue, reg>> /\ disp.pc \notin {"complete", "set"}
        /\ \E p \in {"drain", "check", "wait", "exited"} : disp' = [disp EXCEPT !.pc = p]
    BY <1>11 DEF DispCheck, OnlyDispatch
  <2> QED BY <1>a, <1>8, <2>1, DispIdleSteps DEF OnlyDispatch
<1>12. CASE DispComplete \/ DispSet
  <2>1. IInv'
    BY <1>12, DispCompleteStep, DispSetStep
  <2>2. disp.cur \in Slots
    BY <1>12 DEF DispComplete, DispSet, IInv, TypeOK, CurInv
  <2> QED BY <1>a, <1>12, <1>b, <2>1, <2>2, OthersEndNone
<1>13. CASE CloseNng \/ FiniClear
  BY <1>a, <1>8, <1>13, AbortAllSteps DEF CloseNng, FiniClear
<1>14. CASE GetBuffer \/ ReleaseBuffer \/ CloseClearId \/ NngInit \/ StartDispatchThread
            \/ FiniStop \/ FiniJoin
  <2>1. UNCHANGED call
    BY <1>14 DEF GetBuffer, ReleaseBuffer, CloseClearId, NngInit, StartDispatchThread, FiniStop, FiniJoin
  <2> QED BY <1>a, <1>8, <1>14, <2>1, OtherSteps
<1>15. CASE UNCHANGED vars
  BY <1>a, <1>8, <1>15 DEF vars, IInv, TypeOK, CallInv, TakerInv, RegInv, CurInv, QueueInv, PendingInv, IsFuture
<1> QED BY <1>a, <1>b, <1>1, <1>2, <1>3, <1>4, <1>5, <1>6, <1>7, <1>9, <1>10, <1>11, <1>12, <1>13,
           <1>14, <1>15
        DEF Next, CallStep, NngCallback, DispatchStep, FiniStep

(* The inductive invariant holds in every reachable state.                 *)
LEMMA SpecIInv == Spec => []IInv
<1>1. IInv /\ [Next]_vars => IInv'
  BY NextIInv
<1> QED BY InitIInv, <1>1, PTL DEF Spec

-----------------------------------------------------------------------------
(* The state of the calls, of the dispatcher and of the library has the    *)
(* declared type.                                                          *)
THEOREM TypeCorrect == Spec => []TypeOK
<1>1. IInv => TypeOK
  BY DEF IInv
<1> QED BY SpecIInv, <1>1, PTL

(* The content of a Message belongs to the Message or to one call, and     *)
(* nothing that a buffer looks into is sent.                               *)
THEOREM MessageOwner == Spec => []MessageHasOneOwner
<1>1. IInv => MessageHasOneOwner
  <2> SUFFICES ASSUME IInv PROVE MessageHasOneOwner
    OBVIOUS
  <2>1. \A s \in Holders : s \in Slots /\ Takes(call[s])
    BY DEF Holders, Takes
  <2>2. Cardinality(Holders) <= 1
    <3>1. CASE Holders = {}
      BY <3>1, FS_EmptySet
    <3>2. CASE Holders # {}
      <4>1. PICK s : s \in Holders
        BY <3>2
      <4>2. Holders = {s}
        BY <2>1, <4>1 DEF IInv, TakerInv
      <4>3. Cardinality({s}) = 1
        BY FS_Singleton
      <4> QED BY <4>2, <4>3
    <3> QED BY <3>1, <3>2
  <2>3. msg.full => Holders = {}
    BY <2>1 DEF IInv, TakerInv
  <2> QED BY <2>2, <2>3 DEF MessageHasOneOwner, IInv, TakerInv
<1> QED BY SpecIInv, <1>1, PTL

(* A call that reports success has passed its message on, one that reports *)
(* an error has not, with any timing of nng, dispatcher and exit.          *)
THEOREM Outcome == Spec => []OutcomeMatchesMessage
<1>1. IInv => OutcomeMatchesMessage
  <2> SUFFICES ASSUME IInv, NEW s \in Slots
               PROVE  LET o == IF IsFuture(s) THEN call[s].fut ELSE call[s].out
                      IN  /\ o = "ok" => call[s].ptr = IF call[s].kind \in Sends THEN "nng" ELSE "user"
                          /\ o = "error" => call[s].ptr \notin {"nng", "user"}
    BY DEF OutcomeMatchesMessage
  <2>1. SlotOK(s)
    BY AtSlot
  <2>2. CASE IsFuture(s)
    BY <2>1, <2>2, Types DEF SlotOK, CallOK, PtrOK, IsFuture, Results
  <2>3. CASE ~IsFuture(s)
    BY <2>1, <2>3 DEF SlotOK, CallOK, DoneOK, IsFuture
  <2> QED BY <2>2, <2>3
<1> QED BY SpecIInv, <1>1, PTL

(* Until _nng_fini() drops the callbacks, an id in the queue belongs to    *)
(* the operation that has the address now, and a future that is waited for *)
(* has exactly one step ahead that resolves it.                            *)
THEOREM Dispatch == Spec => []DispatchIsSound
<1>1. IInv => DispatchIsSound
  <2> SUFFICES ASSUME IInv, lib.fini # "down" PROVE QueuedIdIsCurrent /\ FutureHasDispatch
    BY DEF DispatchIsSound
  <2>1. QueuedIdIsCurrent
    <3>1. Injective(queue)
      BY DEF IInv, QueueInv
    <3>2. \A s \in Range(queue) :
             /\ s \in reg /\ s # disp.cur
             /\ IsFuture(s) /\ call[s].held /\ aio[s].st \in {"pushed", "idle"}
      BY DEF IInv, QueueInv, RegInv
    <3> QED BY <3>1, <3>2 DEF QueuedIdIsCurrent, Injective
  <2>2. FutureHasDispatch
    <3>1. SUFFICES ASSUME NEW s \in Slots, call[s].pc = "returned", call[s].fut = "pending"
                   PROVE  Cardinality(Dispatches(s)) = 1
      BY DEF FutureHasDispatch
    <3>2. IsFuture(s)
      BY <3>1, AtSlot DEF SlotOK, CallOK, FuturePcs, IsFuture
    <3>3. /\ aio[s].st \in {"busy", "ended"} => s \in reg
          /\ aio[s].st \in {"busy", "ended"} \/ s \in Range(queue) \/ s = disp.cur
      BY <3>1, <3>2 DEF IInv, PendingInv
    <3>4. /\ s \in Range(queue) => s \in reg /\ s # disp.cur /\ aio[s].st \in {"pushed", "idle"}
          /\ s = disp.cur => aio[s].st \in {"pushed", "idle"}
      BY SlotsAssumption DEF IInv, QueueInv, CurInv
    <3>5. \E d : Dispatches(s) = {d}
      <4>1. CASE aio[s].st \in {"busy", "ended"}
        <5>1. Dispatches(s) = {"aio"}
          BY <3>3, <3>4, <4>1 DEF Dispatches
        <5> QED BY <5>1
      <4>2. CASE s \in Range(queue)
        <5>1. Dispatches(s) = {"queue"}
          BY <3>4, <4>2 DEF Dispatches
        <5> QED BY <5>1
      <4>3. CASE s = disp.cur
        <5>1. Dispatches(s) = {"dispatcher"}
          BY <3>4, <4>3 DEF Dispatches
        <5> QED BY <5>1
      <4> QED BY <3>3, <4>1, <4>2, <4>3
    <3> QED BY <3>5, FS_Singleton
  <2> QED BY <2>1, <2>2
<1> QED BY SpecIInv, <1>1, PTL

(* A blocking call that returns or raises, also because of a signal or of  *)
(* close(), has nothing left to free, and gives back an unsent Message.    *)
THEOREM BlockingSettles == Spec => BlockingCallSettles
<1>1. IInv /\ [Next]_vars =>
        [\A s \in Slots :
            call[s].pc # "done" /\ call'[s].pc = "done" =>
                /\ call'[s].ptr # "call"
                /\ call'[s].src = "message" => (msg'.full <=> call'[s].ptr # "nng")]_vars
  BY NextIInv DEF Settles
<1> QED BY SpecIInv, <1>1, PTL DEF Spec, BlockingCallSettles
=============================================================================
