----------------------- MODULE FdDispatchQueueProofs -----------------------
(***************************************************************************)
(* The wakeup protocol of SockDispatchQueue loses no wakeup, for any       *)
(* number of operations and any socket buffer.  The invariant is           *)
(* WakeupInv: a non-empty deque has exactly one wakeup in flight whenever  *)
(* the loop is not draining.                                               *)
(***************************************************************************)
EXTENDS FdDispatchQueue, TLAPS

USE SockBufAssumption
USE DEF QueueType, Readable, Waking

(* The queue starts empty, with no wakeup in flight.                       *)
LEMMA InitIInv == Init => IInv
BY DEF Init, IInv, TypeOK, WakeupInv, EmptyQueue

(* push_back: the push that finds the deque empty owes the byte.           *)
LEMMA PushStep ==
    ASSUME IInv, NEW o \in Ops, Push(o)
    PROVE  IInv'
<1> USE DEF IInv, Push, PushBack, WasEmpty
<1>0. Append(q.items, o) \in Seq(Ops)
  BY DEF TypeOK
<1>1. TypeOK'
  BY <1>0 DEF TypeOK
<1>2. q.items \in Seq(Ops) /\ q'.items = Append(q.items, o) /\ q'.items # <<>>
  BY DEF TypeOK
<1>3. q'.bytes = q.bytes /\ lpc' = lpc /\ batch' = batch
  BY DEF TypeOK
<1>4. CASE q.items = <<>>
  <2>1. Waking = {} /\ q.bytes = 0 /\ lpc \in {"select", "handle"}
    BY <1>4 DEF WakeupInv, TypeOK
  <2>2. Waking' = {o}
    BY <1>4, <2>1 DEF TypeOK
  <2>3. WakeupInv'
    BY <1>2, <1>3, <2>1, <2>2 DEF WakeupInv
  <2>4. QED BY <1>1, <2>3
<1>5. CASE q.items # <<>>
  <2>1. tpc' = tpc
    BY <1>5 DEF TypeOK
  <2>2. Waking' = Waking
    BY <2>1
  <2>3. WakeupInv'
    BY <1>2, <1>3, <1>5, <2>2 DEF WakeupInv
  <2>4. QED BY <1>1, <2>3
<1>6. QED BY <1>4, <1>5

(* The wakeup byte.                                                        *)
LEMMA WakeStep ==
    ASSUME IInv, NEW o \in Ops, Wake(o)
    PROVE  IInv'
<1> USE DEF IInv, Wake, SendByte
<1>1. TypeOK'
  BY DEF TypeOK
<1>2. /\ o \in Waking
      /\ lpc \in {"select", "handle"}
      /\ q.items # <<>>
      /\ q.bytes = 0
  BY DEF WakeupInv, TypeOK
<1>3. Waking' = {}
  BY <1>2 DEF WakeupInv, TypeOK
<1>4. q'.bytes = 1 /\ q'.items = q.items
  BY <1>2 DEF TypeOK
<1>5. WakeupInv'
  BY <1>2, <1>3, <1>4 DEF WakeupInv
<1>6. QED BY <1>1, <1>5

(* The four places of _poll_readable_callback.                             *)
LEMMA LoopSteps ==
    ASSUME IInv, LoopStep
    PROVE  IInv'
<1> USE DEF IInv, DrainWakeup, DrainReady
<1>0. tpc' = tpc /\ Waking' = Waking
  BY DEF LoopStep, Select, Recv, Ready, Handle
<1>1. CASE Select
  <2>1. q.items # <<>> /\ Waking = {}
    BY <1>1 DEF Select, WakeupInv, TypeOK
  <2>2. QED BY <1>0, <1>1, <2>1 DEF Select, WakeupInv, TypeOK
<1>2. CASE Recv
  BY <1>0, <1>2 DEF Recv, WakeupInv, TypeOK
<1>3. CASE Ready
  BY <1>0, <1>3 DEF Ready, WakeupInv, TypeOK
<1>4. CASE Handle
  <2>1. batch # <<>> => Tail(batch) \in Seq(Ops)
    BY DEF TypeOK
  <2>2. TypeOK'
    BY <1>4, <2>1 DEF Handle, TypeOK
  <2>3. WakeupInv'
    BY <1>0, <1>4 DEF Handle, WakeupInv, TypeOK
  <2>4. QED BY <2>2, <2>3
<1>5. QED BY <1>1, <1>2, <1>3, <1>4 DEF LoopStep

(* IInv is inductive.                                                      *)
LEMMA NextIInv == IInv /\ [Next]_vars => IInv'
<1> SUFFICES ASSUME IInv, [Next]_vars PROVE IInv'
  OBVIOUS
<1>1. CASE UNCHANGED vars
  BY <1>1 DEF vars, IInv, TypeOK, WakeupInv
<1>2. CASE Next
  BY <1>2, PushStep, WakeStep, LoopSteps DEF Next
<1>3. QED BY <1>1, <1>2

THEOREM Invariance == Spec => []IInv
BY InitIInv, NextIInv, PTL DEF Spec

THEOREM TypeCorrect == Spec => []TypeOK
<1>1. IInv => TypeOK BY DEF IInv
<1>2. QED BY <1>1, Invariance, PTL

(* A non-empty deque is never left with the loop asleep and no byte on the *)
(* way.                                                                    *)
THEOREM WakeupNotLost == Spec => []NoLostWakeup
<1>1. IInv => NoLostWakeup
  BY DEF IInv, WakeupInv, TypeOK, NoLostWakeup
<1>2. QED BY <1>1, Invariance, PTL

(* The ignored result of send() is never a failure: the socket holds at    *)
(* most one byte, and at most one trampoline is about to send one.         *)
THEOREM WakeupUnique == Spec => []OneWakeup
<1>1. IInv => OneWakeup
  BY DEF IInv, WakeupInv, TypeOK, OneWakeup
<1>2. QED BY <1>1, Invariance, PTL

(* The safety part of ImplementsMailbox: batches are taken whole and       *)
(* handled in the order of the pushes.                                     *)
THEOREM Refinement == Spec => Abstract!Spec
<1>1. Init => Abstract!Init
  BY DEF Init, EmptyQueue, Abstract!Init
<1>2. IInv /\ [Next]_vars => [Abstract!Next]_(Abstract!vars)
  <2> SUFFICES ASSUME IInv, [Next]_vars PROVE [Abstract!Next]_(Abstract!vars)
    OBVIOUS
  <2>1. CASE UNCHANGED vars
    BY <2>1 DEF vars, Abstract!vars
  <2>2. ASSUME NEW o \in Ops, Push(o) PROVE Abstract!Push(o)
    BY <2>2 DEF Push, PushBack, Abstract!Push, IInv, TypeOK
  <2>3. ASSUME NEW o \in Ops, Wake(o) PROVE UNCHANGED Abstract!vars
    BY <2>3 DEF Wake, SendByte, Abstract!vars, IInv, TypeOK
  <2>4. CASE Select \/ Recv
    BY <2>4 DEF Select, Recv, DrainWakeup, Abstract!vars, IInv, TypeOK
  <2>5. CASE Ready
    BY <2>5 DEF Ready, DrainReady, Abstract!Next, Abstract!Take, IInv, TypeOK, WakeupInv
  <2>6. CASE Handle
    BY <2>6 DEF Handle, Abstract!Next, Abstract!Handle, Abstract!vars
  <2>7. QED
    BY <2>1, <2>2, <2>3, <2>4, <2>5, <2>6 DEF Next, LoopStep, Abstract!Next
<1>3. QED
  BY <1>1, <1>2, Invariance, PTL DEF Spec, Abstract!Spec
=============================================================================
