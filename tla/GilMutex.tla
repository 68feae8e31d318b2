------------------------------ MODULE GilMutex ------------------------------
(***************************************************************************)
(* DCGMutex (nng/_mutex.pxd), the recursive spin mutex that guards every   *)
(* Python object of the binding, and lock_gil_friendly (nng/_nng.pyx), the *)
(* way a thread that holds the GIL takes it.                               *)
(*                                                                         *)
(* Every atomic operation on owner_ and count_ is one step.  A thread runs *)
(* Python at pc "run"; there it can lose the GIL (the interpreter switches *)
(* threads, or the code enters a "with nogil" block), also while it owns   *)
(* the mutex.  The other values of pc are places inside the C++ code:      *)
(*                                                                         *)
(*   try          try_lock(), about to compare-and-swap owner_             *)
(*   store, inc   try_lock() succeeded, count_ not updated yet             *)
(*   spin         lock() in the slow path, GIL released                    *)
(*   probestore, probeinc, probeunlock, probeclear                         *)
(*                the rest of the slow path's m.lock(); m.unlock()         *)
(*   back         slow path over, about to retry try_lock() with the GIL   *)
(*   clear        unlock() took count_ to 0, owner_ not cleared yet        *)
(*                                                                         *)
(* The module is built with freethreading_compatible=True, so both builds  *)
(* of CPython are modelled: gil = NoGil for ever means there is no GIL.    *)
(***************************************************************************)
EXTENDS Naturals

CONSTANTS Threads,      \* the threads that call into the binding
          NoThread,     \* std::thread::id(): the mutex, or the GIL, is free
          NoGil,        \* the value of gil on a free-threaded interpreter
          MaxAcquire    \* bound: acquisitions within one critical section

ASSUME ThreadsAssumption == NoThread \notin Threads /\ NoGil \notin Threads
ASSUME GilAssumption     == NoGil # NoThread
ASSUME AcquireAssumption == MaxAcquire \in Nat \ {0}

VARIABLES owner,   \* owner_
          count,   \* count_
          gil,     \* the thread that holds the GIL
          pc,
          depth,   \* how many unique_locks of the thread own the mutex
          acquired \* acquisitions since the thread last owned none (bound)

vars == <<owner, count, gil, pc, depth, acquired>>

TryStates   == {"try", "store", "inc", "clear"}
ProbeStates == {"probestore", "probeinc", "probeunlock", "probeclear"}
States      == {"run", "spin", "back"} \cup TryStates \cup ProbeStates

TypeOK ==
    /\ owner \in Threads \cup {NoThread}
    /\ count \in Nat
    /\ gil \in Threads \cup {NoThread, NoGil}
    /\ pc \in [Threads -> States]
    /\ depth \in [Threads -> Nat]
    /\ acquired \in [Threads -> 0..MaxAcquire]

Init ==
    /\ owner = NoThread
    /\ count = 0
    /\ gil \in {NoThread, NoGil}
    /\ pc = [t \in Threads |-> "run"]
    /\ depth = [t \in Threads |-> 0]
    /\ acquired = [t \in Threads |-> 0]

HasGil(t)  == gil = t \/ gil = NoGil
Goto(t, p) == pc' = [pc EXCEPT ![t] = p]

-----------------------------------------------------------------------------
(* Slips in _mutex.pxd and lock_gil_friendly_block that the properties     *)
(* below must notice; no action uses them.                                 *)

\* The slow path waits for the mutex without "with nogil".
Mutant_WaitsWithGil(t) == UNCHANGED gil

\* The slow path leaves out the unlock() behind its lock().
Mutant_ProbeKeepsLock(t) ==
    /\ pc[t] = "probeunlock"
    /\ Goto(t, "back")
    /\ UNCHANGED <<owner, count, gil, depth, acquired>>

\* Every unlock() clears owner_, also the unlock of a nested acquisition.
Mutant_UnlockIgnoresNesting(t) == owner = t

-----------------------------------------------------------------------------
(* The interpreter. *)

AcquireGil(t) ==
    /\ gil = NoThread
    /\ pc[t] \in {"run", "back"}
    /\ gil' = t
    /\ UNCHANGED <<owner, count, pc, depth, acquired>>

ReleaseGil(t) ==
    /\ gil = t
    /\ pc[t] = "run"
    /\ gil' = NoThread
    /\ UNCHANGED <<owner, count, pc, depth, acquired>>

-----------------------------------------------------------------------------
(* lock_gil_friendly: try_lock with the GIL held, else the slow path.      *)

LockGilFriendly(t) ==
    /\ pc[t] = "run"
    /\ HasGil(t)
    /\ acquired[t] < MaxAcquire
    /\ Goto(t, "try")
    /\ UNCHANGED <<owner, count, gil, depth, acquired>>

\* What compare_exchange_strong(NoThread, self) compares.
Unowned == owner = NoThread

\* Entering the "with nogil" block of the slow path.
EnterNoGil(t) == gil' = IF gil = t THEN NoThread ELSE gil

\* try_lock: the compare-and-swap on owner_.  A failure is the slow path,
\* whose loop body starts by releasing the GIL.
TryLock(t) ==
    /\ pc[t] = "try" \/ (pc[t] = "back" /\ HasGil(t))
    /\ \/ /\ Unowned
          /\ owner' = t
          /\ Goto(t, "store")
          /\ UNCHANGED gil
       \/ /\ ~Unowned
          /\ owner = t
          /\ Goto(t, "inc")
          /\ UNCHANGED <<owner, gil>>
       \/ /\ ~Unowned
          /\ owner # t
          /\ Goto(t, "spin")
          /\ EnterNoGil(t)
          /\ UNCHANGED owner
    /\ UNCHANGED <<count, depth, acquired>>

\* count_ is set to 1 by a first acquisition, incremented by a nested one.
TryLockCount(t) ==
    /\ pc[t] \in {"store", "inc"}
    /\ count' = IF pc[t] = "store" THEN 1 ELSE count + 1
    /\ depth' = [depth EXCEPT ![t] = @ + 1]
    /\ acquired' = [acquired EXCEPT ![t] = @ + 1]
    /\ Goto(t, "run")
    /\ UNCHANGED <<owner, gil>>

\* lock() without the GIL; it sleeps and tries again while another thread
\* owns the mutex.
SpinLock(t) ==
    /\ pc[t] = "spin"
    /\ Unowned \/ owner = t
    /\ owner' = t
    /\ Goto(t, IF Unowned THEN "probestore" ELSE "probeinc")
    /\ UNCHANGED <<count, gil, depth, acquired>>

ProbeCount(t) ==
    /\ pc[t] \in {"probestore", "probeinc"}
    /\ count' = IF pc[t] = "probestore" THEN 1 ELSE count + 1
    /\ Goto(t, "probeunlock")
    /\ UNCHANGED <<owner, gil, depth, acquired>>

\* What makes unlock() clear owner_: its fetch_sub returned 1.
LastUnlock(t) == owner = t /\ count = 1

\* unlock() returns at once unless the caller is the owner.
ProbeUnlock(t) ==
    /\ pc[t] = "probeunlock"
    /\ count' = IF owner = t THEN count - 1 ELSE count
    /\ Goto(t, IF LastUnlock(t) THEN "probeclear" ELSE "back")
    /\ UNCHANGED <<owner, gil, depth, acquired>>

ProbeClear(t) ==
    /\ pc[t] = "probeclear"
    /\ owner' = NoThread
    /\ Goto(t, "back")
    /\ UNCHANGED <<count, gil, depth, acquired>>

-----------------------------------------------------------------------------
(* unlock(), by lock.unlock() or by the destructor of the unique_lock.     *)

Unlock(t) ==
    /\ pc[t] = "run"
    /\ HasGil(t)
    /\ depth[t] > 0
    /\ count' = IF owner = t THEN count - 1 ELSE count
    /\ depth' = [depth EXCEPT ![t] = @ - 1]
    /\ Goto(t, IF LastUnlock(t) THEN "clear" ELSE "run")
    /\ UNCHANGED <<owner, gil, acquired>>

ClearOwner(t) ==
    /\ pc[t] = "clear"
    /\ owner' = NoThread
    /\ acquired' = [acquired EXCEPT ![t] = 0]
    /\ Goto(t, "run")
    /\ UNCHANGED <<count, gil, depth>>

-----------------------------------------------------------------------------
Step(t) ==
    \/ TryLock(t) \/ TryLockCount(t)
    \/ SpinLock(t) \/ ProbeCount(t) \/ ProbeUnlock(t) \/ ProbeClear(t)
    \/ ClearOwner(t)

Next ==
    \E t \in Threads :
        \/ AcquireGil(t) \/ ReleaseGil(t)
        \/ LockGilFriendly(t)
        \/ Unlock(t)
        \/ Step(t)

Spec == Init /\ [][Next]_vars

(* C++ code between two statements of a running thread always continues.   *)
(* CPython makes a running thread drop the GIL when another one asks for   *)
(* it and hands it to a waiting thread, and a critical section of the      *)
(* binding is straight-line code that ends.  Nothing is assumed of who     *)
(* wins the mutex.                                                         *)
Fairness ==
    \A t \in Threads :
        /\ WF_vars(Step(t))
        /\ SF_vars(AcquireGil(t))
        /\ SF_vars(ReleaseGil(t))
        /\ SF_vars(Unlock(t))

FairSpec == Spec /\ Fairness

-----------------------------------------------------------------------------
(* The inductive invariant behind the safety properties.                   *)

\* The places of the code where the thread owns the mutex.
Owning(t) ==
    depth[t] > 0 \/ pc[t] \in {"store", "inc", "clear"} \cup ProbeStates

OwnerInv == \A t \in Threads : owner = t <=> Owning(t)

\* count_ at each place: lagging between the two words' updates.
CountInv ==
    /\ owner = NoThread => count = 0
    /\ \A t \in Threads :
          owner = t =>
            count = CASE pc[t] \in {"store", "probestore", "clear", "probeclear"} -> 0
                      [] pc[t] = "probeunlock" -> 1
                      [] OTHER -> depth[t]

\* Only a thread that owns nothing waits; only an owner nests.
PcInv ==
    \A t \in Threads :
        /\ pc[t] \in {"store", "clear", "spin", "back"} \cup ProbeStates => depth[t] = 0
        /\ pc[t] = "inc" => depth[t] > 0
        /\ pc[t] # "probeinc"
        /\ pc[t] \notin {"run", "clear"} => acquired[t] < MaxAcquire

IInv == TypeOK /\ OwnerInv /\ CountInv /\ PcInv

(* The mutex is owned by at most one thread, counting a nested owner once: *)
(* what every "protected by" comment on a DCGMutex of the binding needs.   *)
MutualExclusion ==
    \A t, u \in Threads : depth[t] > 0 /\ depth[u] > 0 => t = u

(* Outside the atomic operations themselves, count_ is the number of       *)
(* unique_locks the owner holds, and a thread with none of them does not   *)
(* own the mutex: nested locking and the lock()/unlock() pair by which     *)
(* waiters probe leave neither a lock that nobody releases nor one that is *)
(* released while still in use.                                            *)
RecursionBalanced ==
    \A t \in Threads :
        /\ depth[t] > 0 => owner = t
        /\ owner = t /\ pc[t] \notin {"store", "inc"} \cup ProbeStates
              => count = depth[t]
        /\ owner = t /\ depth[t] = 0 => pc[t] \notin {"run", "spin", "back"}

(* No deadlock between the GIL and the mutex: an owner that lost the GIL   *)
(* inside its critical section always gets to release the mutex, however   *)
(* many threads are queued on it through lock_gil_friendly.                *)
OwnerReleases ==
    \A t \in Threads : depth[t] > 0 ~> depth[t] = 0
=============================================================================
