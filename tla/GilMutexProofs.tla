--------------------------- MODULE GilMutexProofs ---------------------------
(***************************************************************************)
(* DCGMutex taken through lock_gil_friendly is a recursive mutex, for any  *)
(* set of threads, any nesting and both builds of the interpreter.  The    *)
(* invariant is IInv of GilMutex: it says, for each place of the code,     *)
(* whether the thread owns the mutex and how far count_ lags behind.       *)
(***************************************************************************)
EXTENDS GilMutex, TLAPS

USE ThreadsAssumption, GilAssumption, AcquireAssumption
USE DEF States, TryStates, ProbeStates, Goto, HasGil, Unowned, EnterNoGil, LastUnlock

(* The mutex starts free, with no thread inside the code.                  *)
LEMMA InitIInv == Init => IInv
BY DEF Init, IInv, TypeOK, OwnerInv, CountInv, PcInv, Owning

(* Losing or regaining the GIL never disturbs the mutex's words.           *)
LEMMA GilSteps ==
    ASSUME IInv, NEW t \in Threads, AcquireGil(t) \/ ReleaseGil(t)
    PROVE  IInv'
BY DEF AcquireGil, ReleaseGil, IInv, TypeOK, OwnerInv, CountInv, PcInv, Owning

(* try_lock, its update of count_, and the call that leads to it.          *)
LEMMA TrySteps ==
    ASSUME IInv, NEW t \in Threads,
           LockGilFriendly(t) \/ TryLock(t) \/ TryLockCount(t)
    PROVE  IInv'
<1> USE DEF IInv, TypeOK, OwnerInv, CountInv, PcInv, Owning
<1>1. CASE LockGilFriendly(t)
  BY <1>1 DEF LockGilFriendly
<1>2. CASE TryLock(t)
  <2>1. CASE owner = NoThread
    BY <1>2, <2>1 DEF TryLock
  <2>2. CASE owner = t
    BY <1>2, <2>2 DEF TryLock
  <2>3. CASE owner # NoThread /\ owner # t
    BY <1>2, <2>3 DEF TryLock
  <2>4. QED BY <2>1, <2>2, <2>3
<1>3. CASE TryLockCount(t)
  BY <1>3 DEF TryLockCount
<1>4. QED BY <1>1, <1>2, <1>3

(* The slow path's m.lock(); m.unlock().                                   *)
LEMMA ProbeSteps ==
    ASSUME IInv, NEW t \in Threads,
           SpinLock(t) \/ ProbeCount(t) \/ ProbeUnlock(t) \/ ProbeClear(t)
    PROVE  IInv'
<1> USE DEF IInv, TypeOK, OwnerInv, CountInv, PcInv, Owning
<1>1. CASE SpinLock(t)
  BY <1>1 DEF SpinLock
<1>2. CASE ProbeCount(t)
  BY <1>2 DEF ProbeCount
<1>3. CASE ProbeUnlock(t)
  BY <1>3 DEF ProbeUnlock
<1>4. CASE ProbeClear(t)
  BY <1>4 DEF ProbeClear
<1>5. QED BY <1>1, <1>2, <1>3, <1>4

(* unlock(), of a nested acquisition or of the last one.                   *)
LEMMA UnlockSteps ==
    ASSUME IInv, NEW t \in Threads, Unlock(t) \/ ClearOwner(t)
    PROVE  IInv'
<1> USE DEF IInv, TypeOK, OwnerInv, CountInv, PcInv, Owning
<1>1. CASE Unlock(t)
  BY <1>1 DEF Unlock
<1>2. CASE ClearOwner(t)
  BY <1>2 DEF ClearOwner
<1>3. QED BY <1>1, <1>2

(* IInv is inductive.                                                      *)
LEMMA NextIInv == IInv /\ [Next]_vars => IInv'
<1> SUFFICES ASSUME IInv, [Next]_vars PROVE IInv'
  OBVIOUS
<1>1. CASE UNCHANGED vars
  BY <1>1 DEF vars, IInv, TypeOK, OwnerInv, CountInv, PcInv, Owning
<1>2. ASSUME NEW t \in Threads,
             \/ AcquireGil(t) \/ ReleaseGil(t)
             \/ LockGilFriendly(t)
             \/ Unlock(t)
             \/ Step(t)
      PROVE  IInv'
  BY <1>2, GilSteps, TrySteps, ProbeSteps, UnlockSteps DEF Step
<1>3. QED BY <1>1, <1>2 DEF Next

THEOREM Invariance == Spec => []IInv
BY InitIInv, NextIInv, PTL DEF Spec

(* Every variable keeps its type; in particular count_ never goes below 0. *)
THEOREM TypeCorrect == Spec => []TypeOK
<1>1. IInv => TypeOK BY DEF IInv
<1>2. QED BY <1>1, Invariance, PTL

(* No two threads own the mutex.                                           *)
THEOREM Exclusion == Spec => []MutualExclusion
<1>1. IInv => MutualExclusion
  BY DEF IInv, OwnerInv, Owning, MutualExclusion
<1>2. QED BY <1>1, Invariance, PTL

(* count_ agrees with the locks held, and an idle thread owns nothing.     *)
THEOREM Balance == Spec => []RecursionBalanced
<1>1. ASSUME IInv, NEW t \in Threads
      PROVE  /\ depth[t] > 0 => owner = t
             /\ owner = t /\ depth[t] = 0 => pc[t] \notin {"run", "spin", "back"}
  BY <1>1 DEF IInv, OwnerInv, Owning
<1>2. ASSUME IInv, NEW t \in Threads, owner = t,
             pc[t] \notin {"store", "inc"} \cup ProbeStates
      PROVE  count = depth[t]
  <2>1. CASE pc[t] = "clear"
    BY <1>2, <2>1 DEF IInv, CountInv, PcInv
  <2>2. CASE pc[t] # "clear"
    BY <1>2, <2>2 DEF IInv, CountInv
  <2>3. QED BY <2>1, <2>2
<1>3. IInv => RecursionBalanced
  BY <1>1, <1>2 DEF RecursionBalanced
<1>4. QED BY <1>3, Invariance, PTL
=============================================================================
