-------------------------- MODULE ThreadPoolProofs --------------------------
(***************************************************************************)
(* What ThreadPool promises, for any number of users, items and workers    *)
(* and any window and buffer.  The inductive invariant follows a call id:  *)
(* it is at one place (PlaceInv), _pending knows at most one future under  *)
(* it and no future twice (KnownInv, OnceInv), and as long as the PUSH     *)
(* socket is open, nothing was flushed and no worker was killed it is not  *)
(* lost (OpenInv).                                                         *)
(***************************************************************************)
EXTENDS ThreadPool, FiniteSetTheorems, TLAPS

Items(q) == {q[n] : n \in DOMAIN q}
Injective(q) == \A i, j \in DOMAIN q : q[i] = q[j] => i = j

\* A user is in submit() with an item of its own; the items after it have no
\* futures yet.
UserOK(u) ==
    /\ usr[u].made <= Tasks[u]
    /\ usr[u].pc \in {"id", "store", "send"} => usr[u].made < Tasks[u]
    /\ usr[u].pc \in {"store", "send"} <=> usr[u].id # NoId
    /\ usr[u].pc = "store" => fut[Current(u)] # "none"
    /\ \A n \in 1..Tasks[u] :
          usr[u].made < n /\ fut[<<u, n>>] # "none" =>
              n = usr[u].made + 1 /\ usr[u].pc \in {"store", "send", "over"}

UserInv == \A u \in Users : UserOK(u)

WorkerOK(r) ==
    /\ r.pc = "run" <=> r.run # NoFuture
    /\ r.pc = "got" <=> r.id # NoId

WorkerInv == \A w \in Workers : WorkerOK(wrk[w])

\* Ids that were not handed out yet are nowhere.
FreshInv ==
    /\ \A i \in DOMAIN pending : i < nextId
    /\ \A u \in Users : usr[u].id < nextId
    /\ \A i \in Items(push.buf) : i < nextId
    /\ \A w \in Workers : wrk[w].slot < nextId /\ wrk[w].id < nextId

\* An id is at one place: with one user, in the buffer once, in one slot, or
\* in one worker's hand.
Apart(r, q) ==
    /\ r.slot # NoId => r.slot # q.slot /\ r.slot # q.id
    /\ r.id # NoId => r.id # q.id

PlaceInv ==
    /\ \A u, v \in Users : usr[u].id = usr[v].id => u = v \/ usr[u].id = NoId
    /\ \A u \in Users : usr[u].id \notin Items(push.buf)
    /\ \A u \in Users, w \in Workers :
          usr[u].id # NoId => usr[u].id # wrk[w].slot /\ usr[u].id # wrk[w].id
    /\ Injective(push.buf)
    /\ \A w \in Workers : /\ wrk[w].slot \notin Items(push.buf)
                          /\ wrk[w].id \notin Items(push.buf)
                          /\ wrk[w].slot = wrk[w].id => wrk[w].slot = NoId
    /\ \A w, x \in Workers : w # x => Apart(wrk[w], wrk[x])

\* A future that _pending knows or a worker runs has been stored.
Known(f) == fut[f] # "none" /\ ~(usr[f[1]].pc = "store" /\ Current(f[1]) = f)

KnownInv ==
    /\ \A u \in Users : usr[u].pc = "store" => usr[u].id \notin DOMAIN pending
    /\ \A u \in Users : usr[u].pc = "send" /\ usr[u].id \in DOMAIN pending =>
                           pending[usr[u].id] = Current(u)
    /\ \A f \in Futures : IdsOf(f) # {} \/ RunBy(f) # {} => Known(f)

\* No future is known under two ids, run twice, or run and still known.
OnceInv ==
    /\ Injective(pending)
    /\ \A w \in Workers, i \in DOMAIN pending : wrk[w].run # pending[i]
    /\ \A w, x \in Workers : wrk[w].run = wrk[x].run => w = x \/ wrk[w].run = NoFuture

\* A future that is not set is known or run.
LiveInv == \A f \in Futures : Stored(f) => IdsOf(f) # {} \/ RunBy(f) # {}

Carried(i) ==
    \/ \E u \in Users : usr[u].pc = "send" /\ usr[u].id = i
    \/ i \in Items(push.buf)
    \/ \E w \in Workers : wrk[w].slot = i \/ wrk[w].id = i

\* While the socket is open no pipe is removed and no worker stops, so no id
\* is lost; a killed worker takes its pipe along.
UpOK(r) == r.pull /\ r.pc # "over" /\ r.pipe # "removed" /\ (r.pc = "dial" <=> r.pipe = "none")

OpenInv ==
    push.open /\ ~push.flushed /\ ~WorkerKilled =>
        /\ \A w \in Workers : UpOK(wrk[w])
        /\ \A i \in DOMAIN pending : Carried(i)

JoinInv == own.pc = "back" /\ own.wait => AllWorkersOver

IInv == /\ TypeOK /\ UserInv /\ WorkerInv /\ FreshInv /\ PlaceInv /\ KnownInv
        /\ OnceInv /\ LiveInv /\ OpenInv /\ JoinInv
USE ThreadPoolAssumption

-----------------------------------------------------------------------------
(* The operators of the model.                                             *)

(* NoId is no id, and below every number.                                  *)
LEMMA NoIdFact == NoId \notin Nat /\ NoId \in Int /\ \A n \in Nat : NoId < n
BY DEF NoId

(* A work item is a user and a number.                                     *)
LEMMA FutureOf ==
    ASSUME NEW u \in Users, NEW n \in 1..Tasks[u]
    PROVE  <<u, n>> \in Futures
BY DEF Futures

LEMMA FutureParts ==
    ASSUME NEW f \in Futures
    PROVE  f[1] \in Users /\ f[2] \in 1..Tasks[f[1]] /\ f = <<f[1], f[2]>> /\ f # NoFuture
<1>1. PICK u \in Users : f \in {u} \X (1..Tasks[u])
  BY DEF Futures
<1>2. f[1] = u /\ f[2] \in 1..Tasks[u] /\ f = <<f[1], f[2]>>
  BY <1>1
<1>3. DOMAIN f # DOMAIN NoFuture
  BY <1>2 DEF NoFuture
<1> QED BY <1>2, <1>3

(* NoFuture is no future.                                                  *)
LEMMA NoFutureFact == NoFuture \notin Futures
BY FutureParts

(* The item that a user submits.                                           *)
LEMMA CurrentIs ==
    ASSUME TypeOK, NEW u \in Users, usr[u].made < Tasks[u]
    PROVE  Current(u) \in Futures /\ Current(u)[1] = u
<1>1. usr[u].made \in Nat /\ Tasks[u] \in Nat
  BY DEF TypeOK, UserType
<1>2. usr[u].made + 1 \in 1..Tasks[u]
  BY <1>1
<1> QED BY <1>2, FutureOf DEF Current

(* An id is put at the end of a buffer.                                    *)
LEMMA AppendItems ==
    ASSUME NEW S, NEW q \in Seq(S), NEW i \in S
    PROVE  /\ Append(q, i) \in Seq(S)
           /\ Items(Append(q, i)) = Items(q) \cup {i}
           /\ Injective(q) /\ i \notin Items(q) => Injective(Append(q, i))
<1> DEFINE p == Append(q, i)
<1>1. p \in Seq(S) /\ Len(p) = Len(q) + 1 /\ p[Len(q) + 1] = i
  OBVIOUS
<1>2. \A n \in 1..Len(q) : p[n] = q[n]
  OBVIOUS
<1>3. DOMAIN q = 1..Len(q) /\ DOMAIN p = 1..(Len(q) + 1) /\ Len(q) \in Nat
  OBVIOUS
<1> HIDE DEF p
<1>4. Items(p) \subseteq Items(q) \cup {i}
  <2> SUFFICES ASSUME NEW n \in DOMAIN p PROVE p[n] \in Items(q) \cup {i}
    BY DEF Items
  <2>1. CASE n = Len(q) + 1
    BY <2>1, <1>1
  <2>2. CASE n # Len(q) + 1
    <3>1. n \in 1..Len(q)
      BY <2>2, <1>3
    <3> QED BY <3>1, <1>2, <1>3 DEF Items
  <2> QED BY <2>1, <2>2
<1>5. Items(q) \cup {i} \subseteq Items(p)
  <2>1. i \in Items(p)
    <3>1. Len(q) + 1 \in DOMAIN p
      BY <1>3
    <3> QED BY <3>1, <1>1 DEF Items
  <2>2. Items(q) \subseteq Items(p)
    <3> SUFFICES ASSUME NEW n \in DOMAIN q PROVE q[n] \in Items(p)
      BY DEF Items
    <3>1. n \in DOMAIN p
      BY <1>3
    <3> QED BY <3>1, <1>2, <1>3 DEF Items
  <2> QED BY <2>1, <2>2
<1>6. ASSUME Injective(q), i \notin Items(q), NEW m \in DOMAIN p, NEW n \in DOMAIN p, p[m] = p[n]
      PROVE  m = n
  <2>1. \A k \in 1..Len(q) : p[k] \in Items(q)
    BY <1>2, <1>3 DEF Items
  <2>2. CASE m \in 1..Len(q) /\ n \in 1..Len(q)
    BY <1>6, <2>2, <1>2, <1>3 DEF Injective
  <2>3. CASE m \notin 1..Len(q) \/ n \notin 1..Len(q)
    BY <1>6, <2>1, <2>3, <1>1, <1>3
  <2> QED BY <2>2, <2>3
<1>7. Injective(q) /\ i \notin Items(q) => Injective(p)
  BY <1>6 DEF Injective
<1> QED BY <1>1, <1>4, <1>5, <1>7 DEF p

(* The first id of a buffer is taken.                                      *)
LEMMA TailItems ==
    ASSUME NEW S, NEW q \in Seq(S), q # <<>>
    PROVE  /\ Tail(q) \in Seq(S) /\ Head(q) \in S
           /\ Items(q) = Items(Tail(q)) \cup {Head(q)}
           /\ Injective(q) => Injective(Tail(q)) /\ Head(q) \notin Items(Tail(q))
<1> DEFINE p == Tail(q)
<1>1. p \in Seq(S) /\ Len(p) = Len(q) - 1 /\ Head(q) = q[1] /\ Head(q) \in S
  OBVIOUS
<1>2. \A n \in 1..Len(p) : p[n] = q[n + 1]
  OBVIOUS
<1>3. DOMAIN q = 1..Len(q) /\ DOMAIN p = 1..Len(p) /\ Len(q) \in Nat \ {0}
  OBVIOUS
<1> HIDE DEF p
<1>4. Items(q) \subseteq Items(p) \cup {Head(q)}
  <2> SUFFICES ASSUME NEW n \in DOMAIN q PROVE q[n] \in Items(p) \cup {Head(q)}
    BY DEF Items
  <2>1. CASE n = 1
    BY <2>1, <1>1
  <2>2. CASE n # 1
    <3>1. n - 1 \in 1..Len(p) /\ (n - 1) + 1 = n
      BY <2>2, <1>1, <1>3
    <3>2. p[n - 1] = q[n]
      BY <3>1, <1>2
    <3> QED BY <3>1, <3>2, <1>3 DEF Items
  <2> QED BY <2>1, <2>2
<1>5. Items(p) \subseteq Items(q) /\ Head(q) \in Items(q)
  <2>1. Head(q) \in Items(q)
    BY <1>1, <1>3 DEF Items
  <2>2. \A n \in DOMAIN p : p[n] = q[n + 1] /\ n + 1 \in DOMAIN q
    BY <1>1, <1>2, <1>3
  <2> QED BY <2>1, <2>2 DEF Items
<1>6. ASSUME Injective(q) PROVE Injective(p) /\ Head(q) \notin Items(p)
  <2>1. \A n \in DOMAIN p : p[n] = q[n + 1] /\ n + 1 \in DOMAIN q /\ n + 1 # 1 /\ n \in Nat
    BY <1>1, <1>2, <1>3
  <2>2. Injective(p)
    <3> SUFFICES ASSUME NEW m \in DOMAIN p, NEW n \in DOMAIN p, p[m] = p[n]
                 PROVE  m = n
      BY DEF Injective
    <3>1. m + 1 = n + 1
      BY <1>6, <2>1 DEF Injective
    <3> QED BY <3>1, <2>1
  <2>3. ASSUME NEW n \in DOMAIN p, p[n] = Head(q) PROVE FALSE
    <3>1. q[n + 1] = q[1] /\ n + 1 \in DOMAIN q /\ 1 \in DOMAIN q
      BY <2>1, <2>3, <1>1, <1>3
    <3> QED BY <3>1, <2>1, <1>6 DEF Injective
  <2> QED BY <2>2, <2>3 DEF Items
<1> QED BY <1>1, <1>4, <1>5, <1>6 DEF p

(* The last ids of a buffer are dropped.                                   *)
LEMMA PrefixItems ==
    ASSUME NEW S, NEW q \in Seq(S), NEW k \in Nat, k <= Len(q)
    PROVE  /\ SubSeq(q, 1, k) \in Seq(S)
           /\ Items(SubSeq(q, 1, k)) \subseteq Items(q)
           /\ Injective(q) => Injective(SubSeq(q, 1, k))
           /\ k = Len(q) => SubSeq(q, 1, k) = q
<1> DEFINE p == SubSeq(q, 1, k)
<1>1. Len(q) \in Nat /\ DOMAIN q = 1..Len(q) /\ \A n \in 1..Len(q) : q[n] \in S
  OBVIOUS
<1>2. p = [n \in 1..k |-> q[n]]
  BY <1>1
<1> HIDE DEF p
<1>3. DOMAIN p = 1..k /\ \A n \in 1..k : p[n] = q[n] /\ n \in 1..Len(q)
  BY <1>1, <1>2
<1>4. p \in Seq(S)
  BY <1>1, <1>2, <1>3
<1>5. Items(p) \subseteq Items(q)
  BY <1>1, <1>3 DEF Items
<1>6. Injective(q) => Injective(p)
  BY <1>1, <1>3 DEF Injective
<1>7. k = Len(q) => p = q
  BY <1>1, <1>2
<1> QED BY <1>4, <1>5, <1>6, <1>7 DEF p

(* The dict after an assignment and after a pop.                           *)
LEMMA PutIs ==
    ASSUME NEW d, NEW i, NEW f
    PROVE  /\ DOMAIN Put(d, i, f) = DOMAIN d \cup {i}
           /\ Put(d, i, f)[i] = f
           /\ \A j \in DOMAIN d : j # i => Put(d, i, f)[j] = d[j]
BY DEF Put

LEMMA PopIs ==
    ASSUME NEW d, NEW i
    PROVE  /\ DOMAIN Pop(d, i) = DOMAIN d \ {i}
           /\ \A j \in DOMAIN d : j # i => Pop(d, i)[j] = d[j]
BY DEF Pop
-----------------------------------------------------------------------------
(* The inductive invariant holds initially, and each action keeps it.      *)

LEMMA InitIInv == Init => IInv
<1> SUFFICES ASSUME Init PROVE IInv
  OBVIOUS
<1>1. <<>> \in Seq(Nat)
  OBVIOUS
<1>2. \A u \in Users : usr[u] \in UserType /\ usr[u].id = NoId /\ usr[u].made = 0
                       /\ usr[u].pc \in {"map", "idle"}
  BY DEF Init, UserType, UserPcs
<1>3. NewWorker \in WorkerType
  BY DEF NewWorker, WorkerType, WorkerPcs
<1>4. \A w \in Workers : wrk[w] = NewWorker
  BY DEF Init
<1>5. TypeOK
  <2>1. usr \in [Users -> UserType]
    BY <1>2 DEF Init
  <2>2. wrk \in [Workers -> WorkerType]
    BY <1>3 DEF Init
  <2>3. DOMAIN pending = {} /\ pending \in [DOMAIN pending -> Futures]
    BY DEF Init
  <2>4. push \in PushType
    BY <1>1 DEF Init, PushType
  <2> QED BY <2>1, <2>2, <2>3, <2>4 DEF Init, TypeOK, OwnerPcs
<1>6. UserInv
  <2> SUFFICES ASSUME NEW u \in Users PROVE UserOK(u)
    BY DEF UserInv
  <2>1. Tasks[u] \in Nat /\ \A n \in 1..Tasks[u] : fut[<<u, n>>] = "none"
    BY FutureOf DEF Init
  <2> QED BY <1>2, <2>1 DEF UserOK
<1>7. Items(push.buf) = {} /\ Injective(push.buf) /\ DOMAIN pending = {}
  BY DEF Init, Items, Injective
<1>8. WorkerInv
  BY <1>4 DEF WorkerInv, WorkerOK, NewWorker
<1>9. FreshInv
  BY <1>2, <1>4, <1>7, NoIdFact DEF FreshInv, NewWorker, Init
<1>10. PlaceInv
  BY <1>2, <1>4, <1>7 DEF PlaceInv, Apart, NewWorker
<1>11. KnownInv
  BY <1>2, <1>4, <1>7, NoFutureFact DEF KnownInv, IdsOf, RunBy, NewWorker
<1>12. OnceInv
  BY <1>4, <1>7 DEF OnceInv, Injective, NewWorker
<1>13. LiveInv
  BY DEF LiveInv, Stored, Init
<1>14. OpenInv
  BY <1>4, <1>7 DEF OpenInv, UpOK, NewWorker
<1>15. JoinInv
  BY DEF JoinInv, Init
<1> QED BY <1>5, <1>6, <1>8, <1>9, <1>10, <1>11, <1>12, <1>13, <1>14, <1>15 DEF IInv

(* A user outside submit() goes on, or ends; the limit may change, and ids *)
(* may be flushed.                                                         *)
LEMMA UserMoves ==
    ASSUME IInv, NEW u \in Users, NEW r \in UserType, usr' = [usr EXCEPT ![u] = r],
           usr[u].pc \in {"map", "idle"}, r.pc \in {"map", "idle", "id", "over"},
           r.pc = "id" => r.made < Tasks[u], r.made = usr[u].made, r.id = usr[u].id,
           push' \in PushType,
           push'.open = push.open, Items(push'.buf) \subseteq Items(push.buf),
           Injective(push.buf) => Injective(push'.buf),
           push'.flushed \/ (push'.buf = push.buf /\ push'.flushed = push.flushed),
           UNCHANGED <<shut, nextId, pending, fut, own, wrk>>
    PROVE  IInv'
<1>1. usr \in [Users -> UserType]
  BY DEF IInv, TypeOK
<1>2. \A v \in Users : usr'[v] = IF v = u THEN r ELSE usr[v]
  BY <1>1
<1>3. \A v \in Users : usr'[v].id = usr[v].id /\ usr'[v].made = usr[v].made
                       /\ (Current(v))' = Current(v)
  BY <1>2 DEF Current
<1>4. \A v \in Users : usr'[v].pc \in {"store", "send"} => usr[v].pc = usr'[v].pc
  BY <1>2
<1>5. \A v \in Users : usr[v].pc \in {"store", "send"} => usr[v].pc = usr'[v].pc
  BY <1>2
<1>6. TypeOK'
  <2>1. usr' \in [Users -> UserType]
    BY <1>1
  <2> QED BY <2>1 DEF IInv, TypeOK
<1>7. UserInv'
  <2> SUFFICES ASSUME NEW v \in Users PROVE UserOK(v)'
    BY DEF UserInv
  <2>1. UserOK(v)
    BY DEF IInv, UserInv
  <2>2. CASE v = u
    BY <1>2, <1>3, <2>1, <2>2 DEF UserOK
  <2>3. CASE v # u
    BY <1>2, <1>3, <2>1, <2>3 DEF UserOK
  <2> QED BY <2>2, <2>3
<1>8. WorkerInv'
  BY DEF IInv, WorkerInv
<1>9. FreshInv'
  BY <1>3 DEF IInv, FreshInv
<1>10. PlaceInv'
  BY <1>3 DEF IInv, PlaceInv
<1>11. \A f \in Futures : /\ Known(f) <=> Known(f)'
                          /\ Stored(f) <=> Stored(f)'
                          /\ IdsOf(f)' = IdsOf(f) /\ RunBy(f)' = RunBy(f)
  BY <1>3, <1>4, <1>5, FutureParts DEF Known, Stored, IdsOf, RunBy
<1>12. KnownInv'
  BY <1>3, <1>4, <1>11 DEF IInv, KnownInv
<1>13. OnceInv'
  BY DEF IInv, OnceInv
<1>14. LiveInv'
  BY <1>11 DEF IInv, LiveInv
<1>15. OpenInv'
  <2>1. WorkerKilled' <=> WorkerKilled
    BY DEF WorkerKilled
  <2>2. ~push'.flushed => \A i \in DOMAIN pending : Carried(i) => Carried(i)'
    BY <1>3, <1>5 DEF Carried
  <2> QED BY <2>1, <2>2 DEF IInv, OpenInv
<1>16. JoinInv'
  BY DEF IInv, JoinInv, AllWorkersOver
<1> QED BY <1>6, <1>7, <1>8, <1>9, <1>10, <1>12, <1>13, <1>14, <1>15, <1>16 DEF IInv
LEMMA Submit_checkIInv ==
    ASSUME IInv, NEW u \in Users, Submit_check(u)
    PROVE  IInv'
<1> DEFINE r == [usr[u] EXCEPT !.pc = IF shut THEN "over" ELSE "id"]
<1>1. usr[u] \in UserType
  BY DEF IInv, TypeOK
<1>2. r \in UserType /\ r.pc = (IF shut THEN "over" ELSE "id")
        /\ r.made = usr[u].made /\ r.id = usr[u].id
  BY <1>1 DEF UserType, UserPcs
<1>3. usr' = [usr EXCEPT ![u] = r]
  BY DEF Submit_check
<1> HIDE DEF r
<1>9. /\ push' \in PushType
      /\ push'.open = push.open /\ push'.buf = push.buf /\ push'.flushed = push.flushed
  BY DEF Submit_check, IInv, TypeOK
<1>10. usr[u].pc = "idle" /\ usr[u].made < Tasks[u]
  BY DEF Submit_check, CanSubmit
<1> QED BY <1>2, <1>3, <1>9, <1>10, UserMoves DEF Submit_check

(* nng sets the limit of the buffer: ids are kept, or the last are flushed. *)
LEMMA ResizedIs ==
    ASSUME NEW p \in PushType, NEW n \in Nat, NEW q \in Resized(p, n)
    PROVE  /\ q \in PushType /\ q.open = p.open
           /\ Items(q.buf) \subseteq Items(p.buf)
           /\ Injective(p.buf) => Injective(q.buf)
           /\ q.flushed \/ (q.buf = p.buf /\ q.flushed = p.flushed)
<1>1. PICK k \in {Len(p.buf), IF n < Len(p.buf) THEN n ELSE Len(p.buf)} :
        q = [p EXCEPT !.limit = n, !.buf = SubSeq(@, 1, k), !.flushed = @ \/ k < Len(p.buf)]
  BY DEF Resized
<1>2. p.buf \in Seq(Nat) /\ Len(p.buf) \in Nat /\ p.flushed \in BOOLEAN
  BY DEF PushType
<1>3. k \in Nat /\ k <= Len(p.buf)
  BY <1>1, <1>2
<1>4. /\ SubSeq(p.buf, 1, k) \in Seq(Nat)
      /\ Items(SubSeq(p.buf, 1, k)) \subseteq Items(p.buf)
      /\ Injective(p.buf) => Injective(SubSeq(p.buf, 1, k))
      /\ k = Len(p.buf) => SubSeq(p.buf, 1, k) = p.buf
  BY <1>2, <1>3, PrefixItems
<1>5. /\ q.buf = SubSeq(p.buf, 1, k) /\ q.open = p.open /\ q.limit = n
      /\ q.flushed = (p.flushed \/ k < Len(p.buf))
  BY <1>1 DEF PushType
<1>6. q \in PushType
  <2> DEFINE b == SubSeq(p.buf, 1, k)
             t == p.flushed \/ k < Len(p.buf)
  <2>1. b \in Seq(Nat) /\ t \in BOOLEAN /\ q = [p EXCEPT !.limit = n, !.buf = b, !.flushed = t]
    BY <1>1, <1>4
  <2> HIDE DEF b, t
  <2> QED BY <2>1 DEF PushType
<1>7. k < Len(p.buf) \/ k = Len(p.buf)
  BY <1>2, <1>3
<1>8. CASE k < Len(p.buf)
  BY <1>4, <1>5, <1>6, <1>8
<1>9. CASE k = Len(p.buf)
  <2>1. ~(k < Len(p.buf))
    BY <1>2, <1>9
  <2> QED BY <1>2, <1>4, <1>5, <1>6, <1>9, <2>1
<1> QED BY <1>7, <1>8, <1>9

LEMMA MapIInv ==
    ASSUME IInv, NEW u \in Users, Map(u)
    PROVE  IInv'
<1>1. usr[u] \in UserType /\ push \in PushType
  BY DEF IInv, TypeOK
<1>2. PICK size \in Buffersizes :
        \/ /\ size # NoBuffersize
           /\ push' \in Resized(push, Surplus(size))
           /\ usr' = [usr EXCEPT ![u].pc = "idle", ![u].win = size]
        \/ /\ size = NoBuffersize
           /\ usr' = [usr EXCEPT ![u].pc = "idle", ![u].win = SendBuf]
           /\ UNCHANGED push
  BY DEF Map
<1>3. PICK n \in Nat :
        /\ usr' = [usr EXCEPT ![u].pc = "idle", ![u].win = n]
        /\ push' \in Resized(push, Surplus(n)) \/ UNCHANGED push
  BY <1>2
<1> DEFINE r == [usr[u] EXCEPT !.pc = "idle", !.win = n]
<1>4. r \in UserType /\ r.pc = "idle" /\ r.made = usr[u].made /\ r.id = usr[u].id
  BY <1>1 DEF UserType, UserPcs
<1>5. usr' = [usr EXCEPT ![u] = r]
  BY <1>3
<1> HIDE DEF r
<1>6. Surplus(n) \in Nat
  <2>1. Cardinality(Workers) \in Nat
    BY FS_CardinalityType
  <2> QED BY <2>1 DEF Surplus
<1>7. /\ push' \in PushType /\ push'.open = push.open
      /\ Items(push'.buf) \subseteq Items(push.buf)
      /\ Injective(push.buf) => Injective(push'.buf)
      /\ push'.flushed \/ (push'.buf = push.buf /\ push'.flushed = push.flushed)
  BY <1>1, <1>3, <1>6, ResizedIs
<1> QED BY <1>4, <1>5, <1>7, UserMoves DEF Map

LEMMA Map_endIInv ==
    ASSUME IInv, NEW u \in Users, Map_end(u)
    PROVE  IInv'
<1> DEFINE r == [usr[u] EXCEPT !.pc = "over"]
<1>1. usr[u] \in UserType
  BY DEF IInv, TypeOK
<1>2. r \in UserType /\ r.pc = "over" /\ r.made = usr[u].made /\ r.id = usr[u].id
  BY <1>1 DEF UserType, UserPcs
<1>3. usr' = [usr EXCEPT ![u] = r]
  BY DEF Map_end
<1> HIDE DEF r
<1>4. /\ push' \in PushType
      /\ push'.open = push.open /\ push'.buf = push.buf /\ push'.flushed = push.flushed
  <2>1. push \in PushType
    BY DEF IInv, TypeOK
  <2> QED BY <2>1 DEF Map_end, PushType
<1> QED BY <1>2, <1>3, <1>4, UserMoves DEF Map_end

LEMMA Map_overIInv ==
    ASSUME IInv, NEW u \in Users, Map_raises(u) \/ Map_abandoned(u)
    PROVE  IInv'
<1> DEFINE r == [usr[u] EXCEPT !.pc = "over"]
<1>1. usr[u] \in UserType
  BY DEF IInv, TypeOK
<1>2. r \in UserType /\ r.pc = "over" /\ r.made = usr[u].made /\ r.id = usr[u].id
  BY <1>1 DEF UserType, UserPcs
<1>3. usr' = [usr EXCEPT ![u] = r]
  BY DEF Map_raises, Map_abandoned
<1> HIDE DEF r
<1>9. /\ push' \in PushType
      /\ push'.open = push.open /\ push'.buf = push.buf /\ push'.flushed = push.flushed
  BY DEF Map_raises, Map_abandoned, IInv, TypeOK
<1> QED BY <1>2, <1>3, <1>9, UserMoves DEF Map_raises, Map_abandoned

LEMMA Map_resultIInv ==
    ASSUME IInv, NEW u \in Users, Map_result(u)
    PROVE  IInv'
<1> DEFINE ok == fut[<<u, usr[u].got + 1>>] = "result"
           r == [usr[u] EXCEPT !.pc = IF ok THEN @ ELSE "over",
                               !.got = IF ok THEN @ + 1 ELSE @]
<1>1. usr[u] \in UserType /\ usr[u].pc = "idle"
  BY DEF IInv, TypeOK, Map_result
<1>2. usr' = [usr EXCEPT ![u] = r]
  BY DEF Map_result
<1> HIDE DEF ok
<1>3. r \in UserType /\ r.pc \in {"idle", "over"} /\ r.made = usr[u].made /\ r.id = usr[u].id
  <2>1. CASE ok
    <3>1. usr[u].got + 1 \in Nat
      BY <1>1 DEF UserType
    <3> QED BY <1>1, <2>1, <3>1 DEF UserType, UserPcs
  <2>2. CASE ~ok
    BY <1>1, <2>2 DEF UserType, UserPcs
  <2> QED BY <2>1, <2>2
<1> HIDE DEF r
<1>9. /\ push' \in PushType
      /\ push'.open = push.open /\ push'.buf = push.buf /\ push'.flushed = push.flushed
  BY DEF Map_result, IInv, TypeOK
<1>10. UNCHANGED <<shut, nextId, pending, fut, own, wrk>>
  BY DEF Map_result
<1> QED BY <1>1, <1>2, <1>3, <1>9, <1>10, UserMoves

(* submit() takes an id and makes the future.                              *)
LEMMA Submit_idIInv ==
    ASSUME IInv, NEW u \in Users, Submit_id(u)
    PROVE  IInv'
<1> DEFINE r == [usr[u] EXCEPT !.pc = "store", !.id = nextId]
           c == Current(u)
<1>1. usr \in [Users -> UserType] /\ nextId \in Nat /\ usr[u].pc = "id" /\ usr[u] \in UserType
  BY DEF IInv, TypeOK, Submit_id
<1>2. r \in UserType /\ r.pc = "store" /\ r.id = nextId /\ r.made = usr[u].made
  BY <1>1 DEF UserType, UserPcs
<1>3. usr' = [usr EXCEPT ![u] = r] /\ nextId' = nextId + 1
  BY DEF Submit_id
<1>4. fut' = [fut EXCEPT ![c] = "pending"]
  BY DEF Submit_id
<1>5. UNCHANGED <<shut, pending, push, own, wrk>>
  BY DEF Submit_id
<1>6. UserOK(u) /\ TypeOK
  BY DEF IInv, UserInv
<1>7. usr[u].made < Tasks[u] /\ usr[u].id = NoId /\ usr[u].made + 1 \in 1..Tasks[u]
  BY <1>1, <1>6 DEF UserOK, UserType
<1>8. c \in Futures /\ c[1] = u /\ c = <<u, usr[u].made + 1>>
  BY <1>6, <1>7, CurrentIs DEF Current
<1>9. fut[c] = "none"
  BY <1>1, <1>6, <1>7, <1>8 DEF UserOK, UserType
<1> HIDE DEF r, c
<1>10. \A v \in Users : usr'[v] = IF v = u THEN r ELSE usr[v]
  BY <1>1, <1>3
<1>11. \A v \in Users : usr'[v].made = usr[v].made /\ (Current(v))' = Current(v)
  BY <1>2, <1>10 DEF Current
<1>12. \A f \in Futures : fut'[f] = IF f = c THEN "pending" ELSE fut[f]
  BY <1>4, <1>6 DEF TypeOK
<1>13. TypeOK'
  <2>1. usr' \in [Users -> UserType]
    BY <1>1, <1>2, <1>3
  <2>2. fut' \in [Futures -> {"none", "pending", "result", "exception", "cancelled"}]
    BY <1>4, <1>6 DEF TypeOK
  <2>3. nextId' \in Nat
    BY <1>1, <1>3
  <2> QED BY <2>1, <2>2, <2>3, <1>5, <1>6 DEF TypeOK
<1>14. UserInv'
  <2> SUFFICES ASSUME NEW v \in Users PROVE UserOK(v)'
    BY DEF UserInv
  <2>1. UserOK(v)
    BY DEF IInv, UserInv
  <2>2. \A n \in 1..Tasks[v] : <<v, n>> \in Futures
    BY FutureOf
  <2>3. CASE v = u
    <3>1. fut'[c] = "pending" /\ (Current(u))' = c
      BY <1>8, <1>11, <1>12 DEF c
    <3>2. \A n \in 1..Tasks[u] : usr[u].made < n /\ fut'[<<u, n>>] # "none" => n = usr[u].made + 1
      BY <1>1, <1>8, <1>12, <2>1, <2>2, <2>3 DEF UserOK
    <3> QED BY <1>1, <1>2, <1>7, <1>10, <2>1, <2>3, <3>1, <3>2, NoIdFact DEF UserOK
  <2>4. CASE v # u
    <3>1. usr'[v] = usr[v]
      BY <1>10, <2>4
    <3>2. \A n \in 1..Tasks[v] : fut'[<<v, n>>] = fut[<<v, n>>]
      BY <1>8, <1>12, <2>2, <2>4
    <3>3. usr[v].pc = "store" => Current(v) \in Futures /\ Current(v) # c
      BY <1>6, <1>8, <2>1, <2>4, CurrentIs DEF UserOK
    <3> QED BY <1>11, <1>12, <2>1, <3>1, <3>2, <3>3 DEF UserOK
  <2> QED BY <2>3, <2>4
<1>15. WorkerInv'
  BY <1>5 DEF IInv, WorkerInv
<1>16. FreshInv'
  <2>1. \A i \in DOMAIN pending : i \in Nat /\ i < nextId
    BY DEF IInv, FreshInv, TypeOK
  <2>2. \A i \in Items(push.buf) : i < nextId /\ i \in Nat
    BY DEF IInv, FreshInv, TypeOK, PushType, Items
  <2>3. \A v \in Users : usr[v].id \in Int /\ usr[v].id < nextId
    BY NoIdFact DEF IInv, FreshInv, TypeOK, UserType
  <2>4. \A w \in Workers : /\ wrk[w].slot \in Int /\ wrk[w].slot < nextId
                           /\ wrk[w].id \in Int /\ wrk[w].id < nextId
    BY NoIdFact DEF IInv, FreshInv, TypeOK, WorkerType
  <2> QED BY <1>1, <1>2, <1>3, <1>5, <1>10, <2>1, <2>2, <2>3, <2>4 DEF FreshInv
<1>17. PlaceInv'
  <2>1. nextId \notin Items(push.buf) /\ nextId \notin DOMAIN pending
    BY <1>1 DEF IInv, FreshInv
  <2>2. \A v \in Users : usr[v].id # nextId
    BY <1>1 DEF IInv, FreshInv
  <2>3. \A w \in Workers : wrk[w].slot # nextId /\ wrk[w].id # nextId
    BY <1>1 DEF IInv, FreshInv
  <2> QED BY <1>2, <1>5, <1>10, <2>1, <2>2, <2>3 DEF IInv, PlaceInv
<1>18. \A f \in Futures : Known(f) => Known(f)' /\ f # c
  BY <1>8, <1>9, <1>10, <1>11, <1>12, FutureParts DEF Known, c
<1>19. KnownInv'
  <2>1. nextId \notin DOMAIN pending
    BY <1>1 DEF IInv, FreshInv
  <2>2. \A f \in Futures : IdsOf(f)' = IdsOf(f) /\ RunBy(f)' = RunBy(f)
    BY <1>5 DEF IdsOf, RunBy
  <2> QED BY <1>2, <1>5, <1>10, <1>11, <1>18, <2>1, <2>2 DEF IInv, KnownInv
<1>20. OnceInv'
  BY <1>5 DEF IInv, OnceInv
<1>21. LiveInv'
  <2> SUFFICES ASSUME NEW f \in Futures, Stored(f)'
               PROVE  IdsOf(f)' # {} \/ RunBy(f)' # {}
    BY DEF LiveInv
  <2>1. f # c
    BY <1>2, <1>8, <1>10, <1>11, FutureParts DEF Stored, c
  <2>2. Stored(f)
    BY <2>1, <1>1, <1>10, <1>11, <1>12, FutureParts DEF Stored
  <2> QED BY <2>2, <1>5 DEF IInv, LiveInv, IdsOf, RunBy
<1>22. OpenInv'
  <2>1. WorkerKilled' <=> WorkerKilled
    BY <1>5 DEF WorkerKilled
  <2>2. \A i \in DOMAIN pending : Carried(i) => Carried(i)'
    BY <1>1, <1>5, <1>10 DEF Carried
  <2> QED BY <1>5, <2>1, <2>2 DEF IInv, OpenInv
<1>23. JoinInv'
  BY <1>5 DEF IInv, JoinInv, AllWorkersOver
<1> QED BY <1>13, <1>14, <1>15, <1>16, <1>17, <1>19, <1>20, <1>21, <1>22, <1>23 DEF IInv
(* submit() stores the item in _pending.                                   *)
LEMMA Submit_storeIInv ==
    ASSUME IInv, NEW u \in Users, Submit_store(u)
    PROVE  IInv'
<1> DEFINE r == [usr[u] EXCEPT !.pc = "send"]
<1>1. usr \in [Users -> UserType] /\ usr[u].pc = "store" /\ usr[u] \in UserType /\ TypeOK /\ UserOK(u)
  BY DEF IInv, TypeOK, Submit_store, UserInv
<1>a. PICK c \in Futures : c = Current(u)
  BY <1>1, CurrentIs DEF UserOK
<1>b. PICK k \in Nat : k = usr[u].id
  BY <1>1 DEF UserOK, UserType
<1>2. r \in UserType /\ r.pc = "send" /\ r.id = k /\ r.made = usr[u].made
  BY <1>1, <1>b DEF UserType, UserPcs
<1>3. usr' = [usr EXCEPT ![u] = r]
  BY DEF Submit_store
<1>4. pending' = Put(pending, k, c)
  BY <1>a, <1>b DEF Submit_store
<1>5. UNCHANGED <<shut, nextId, push, fut, own, wrk>>
  BY DEF Submit_store
<1>6. k \in Nat /\ k < nextId /\ k # NoId
  BY <1>b, NoIdFact DEF IInv, FreshInv
<1>7. k \notin DOMAIN pending
  BY <1>1, <1>b DEF IInv, KnownInv
<1>8. c \in Futures /\ c[1] = u /\ fut[c] # "none" /\ ~Known(c)
  BY <1>1, <1>a, CurrentIs DEF UserOK, Known
<1> HIDE DEF r
<1>9. /\ DOMAIN pending' = DOMAIN pending \cup {k} /\ pending'[k] = c
      /\ \A i \in DOMAIN pending : pending'[i] = pending[i]
  BY <1>4, <1>7 DEF Put
<1>10. \A v \in Users : usr'[v] = IF v = u THEN r ELSE usr[v]
  BY <1>1, <1>3
<1>11. \A v \in Users : usr'[v].made = usr[v].made /\ usr'[v].id = usr[v].id
                        /\ (Current(v))' = Current(v)
  BY <1>2, <1>b, <1>10 DEF Current
<1>12. TypeOK'
  <2>1. usr' \in [Users -> UserType]
    BY <1>1, <1>2, <1>3
  <2>2. pending' \in [DOMAIN pending' -> Futures]
    <3>1. \A i \in DOMAIN pending' : pending'[i] \in Futures
      BY <1>1, <1>8, <1>9 DEF TypeOK
    <3>2. pending' = [i \in DOMAIN pending' |-> pending'[i]]
      BY <1>4, <1>9 DEF Put
    <3> QED BY <3>1, <3>2
  <2>3. DOMAIN pending' \subseteq Nat
    BY <1>1, <1>6, <1>9 DEF TypeOK
  <2> QED BY <2>1, <2>2, <2>3, <1>5, <1>1 DEF TypeOK
<1>13. UserInv'
  <2> SUFFICES ASSUME NEW v \in Users PROVE UserOK(v)'
    BY DEF UserInv
  <2>1. UserOK(v)
    BY DEF IInv, UserInv
  <2>2. CASE v = u
    BY <1>1, <1>2, <1>5, <1>10, <1>11, <2>1, <2>2 DEF UserOK
  <2>3. CASE v # u
    BY <1>5, <1>10, <1>11, <2>1, <2>3 DEF UserOK
  <2> QED BY <2>2, <2>3
<1>14. WorkerInv'
  BY <1>5 DEF IInv, WorkerInv
<1>15. FreshInv'
  BY <1>5, <1>6, <1>9, <1>11 DEF IInv, FreshInv
<1>16. PlaceInv'
  BY <1>5, <1>11 DEF IInv, PlaceInv
<1>17. \A f \in Futures : Known(f) => Known(f)' /\ f # c
  BY <1>2, <1>5, <1>8, <1>10, <1>11, FutureParts DEF Known
<1>18. Known(c)'
  BY <1>2, <1>5, <1>8, <1>10 DEF Known
<1>19. IdsOf(c) = {} /\ RunBy(c) = {}
  BY <1>8 DEF IInv, KnownInv
<1>20. KnownInv'
  <2>1. \A v \in Users : usr'[v].pc = "store" => usr'[v].id \notin DOMAIN pending'
    BY <1>2, <1>6, <1>9, <1>10, <1>11, <1>b DEF IInv, KnownInv, PlaceInv
  <2>2. ASSUME NEW v \in Users, usr'[v].pc = "send", usr'[v].id \in DOMAIN pending'
        PROVE  pending'[usr'[v].id] = (Current(v))'
    <3>1. CASE v = u
      BY <1>a, <1>b, <1>9, <1>11, <3>1
    <3>2. CASE v # u
      <4>1. usr[v].id # k
        BY <1>b, <1>6, <3>2 DEF IInv, PlaceInv
      <4> QED BY <1>9, <1>10, <1>11, <2>2, <3>2, <4>1 DEF IInv, KnownInv
    <3> QED BY <3>1, <3>2
  <2>3. ASSUME NEW f \in Futures, IdsOf(f)' # {} \/ RunBy(f)' # {} PROVE Known(f)'
    <3>1. f = c \/ IdsOf(f) # {} \/ RunBy(f) # {}
      BY <1>5, <1>9, <2>3 DEF IdsOf, RunBy
    <3> QED BY <1>17, <1>18, <3>1 DEF IInv, KnownInv
  <2> QED BY <2>1, <2>2, <2>3 DEF KnownInv
<1>21. OnceInv'
  <2>1. \A i \in DOMAIN pending : pending[i] # c
    BY <1>19 DEF IdsOf
  <2>2. \A w \in Workers : wrk[w].run # c
    BY <1>19 DEF RunBy
  <2> QED BY <1>5, <1>9, <2>1, <2>2 DEF IInv, OnceInv, Injective
<1>22. LiveInv'
  <2> SUFFICES ASSUME NEW f \in Futures, Stored(f)'
               PROVE  IdsOf(f)' # {} \/ RunBy(f)' # {}
    BY DEF LiveInv
  <2>1. CASE f = c
    BY <1>9, <2>1 DEF IdsOf
  <2>2. CASE f # c
    <3>1. Stored(f)
      BY <2>2, <1>5, <1>10, <1>11, <1>a, FutureParts DEF Stored
    <3>2. IdsOf(f) \subseteq IdsOf(f)' /\ RunBy(f)' = RunBy(f)
      BY <1>5, <1>9 DEF IdsOf, RunBy
    <3> QED BY <3>1, <3>2 DEF IInv, LiveInv
  <2> QED BY <2>1, <2>2
<1>23. OpenInv'
  <2>1. WorkerKilled' <=> WorkerKilled
    BY <1>5 DEF WorkerKilled
  <2>2. \A i \in DOMAIN pending : Carried(i) => Carried(i)'
    BY <1>1, <1>5, <1>10 DEF Carried
  <2>3. Carried(k)'
    BY <1>2, <1>10 DEF Carried
  <2> QED BY <1>5, <1>9, <2>1, <2>2, <2>3 DEF IInv, OpenInv
<1>24. JoinInv'
  BY <1>5 DEF IInv, JoinInv, AllWorkersOver
<1> QED BY <1>12, <1>13, <1>14, <1>15, <1>16, <1>20, <1>21, <1>22, <1>23, <1>24 DEF IInv

\* The user's side of _push.send().
Sends(u) ==
    usr' = [usr EXCEPT ![u].pc = IF push.open THEN "idle" ELSE "over",
                       ![u].made = IF push.open THEN @ + 1 ELSE @,
                       ![u].id = NoId]

(* The user is out of submit(); its item stays known.                      *)
LEMMA UserSends ==
    ASSUME IInv, NEW u \in Users, usr[u].pc = "send", Sends(u), fut' = fut
    PROVE  /\ usr' \in [Users -> UserType] /\ UserInv'
           /\ usr'[u].pc \notin {"store", "send"} /\ usr'[u].id = NoId
           /\ \A v \in Users : v # u => usr'[v] = usr[v] /\ (Current(v))' = Current(v)
           /\ \A f \in Futures : (Known(f) <=> Known(f)') /\ (Stored(f) <=> Stored(f)')
<1> DEFINE r == [usr[u] EXCEPT !.pc = IF push.open THEN "idle" ELSE "over",
                               !.made = IF push.open THEN @ + 1 ELSE @,
                               !.id = NoId]
<1>1. usr \in [Users -> UserType] /\ usr[u] \in UserType /\ UserOK(u) /\ push.open \in BOOLEAN
      /\ usr[u].made \in Nat
  BY DEF IInv, TypeOK, UserInv, UserType, PushType
<1>2. usr' = [usr EXCEPT ![u] = r]
  BY DEF Sends
<1>3. /\ r \in UserType /\ r.id = NoId /\ r.pc \in {"idle", "over"}
      /\ r.made = IF push.open THEN usr[u].made + 1 ELSE usr[u].made
      /\ push.open <=> r.pc = "idle"
  <2>1. CASE push.open
    <3>1. usr[u].made + 1 \in Nat
      BY <1>1
    <3> QED BY <1>1, <2>1, <3>1 DEF UserType, UserPcs
  <2>2. CASE ~push.open
    BY <1>1, <2>2 DEF UserType, UserPcs
  <2> QED BY <2>1, <2>2
<1> HIDE DEF r
<1>4. usr' \in [Users -> UserType] /\ usr'[u] = r /\ \A v \in Users : v # u => usr'[v] = usr[v]
  BY <1>1, <1>2, <1>3
<1>5. \A v \in Users : v # u => (Current(v))' = Current(v)
  BY <1>4 DEF Current
<1>6. UserInv'
  <2> SUFFICES ASSUME NEW v \in Users PROVE UserOK(v)'
    BY DEF UserInv
  <2>1. UserOK(v) /\ Tasks[v] \in Nat
    BY DEF IInv, UserInv
  <2>2. CASE v = u
    <3>1. r.made <= Tasks[u]
      BY <1>1, <1>3, <2>1, <2>2 DEF UserOK
    <3>2. ASSUME NEW n \in 1..Tasks[u], r.made < n, fut[<<u, n>>] # "none"
          PROVE  n = r.made + 1 /\ r.pc = "over"
      BY <1>1, <1>3, <2>1, <2>2, <3>2 DEF UserOK
    <3> QED BY <1>3, <1>4, <2>2, <3>1, <3>2 DEF UserOK
  <2>3. CASE v # u
    BY <1>4, <1>5, <2>1, <2>3 DEF UserOK
  <2> QED BY <2>2, <2>3
<1>7. \A f \in Futures : (Known(f) <=> Known(f)') /\ (Stored(f) <=> Stored(f)')
  BY <1>3, <1>4, <1>5, FutureParts DEF Known, Stored
<1> QED BY <1>3, <1>4, <1>5, <1>6, <1>7
(* A worker is replaced, the others stay.                                  *)
LEMMA WorkerUpdate ==
    ASSUME TypeOK, NEW w \in Workers, NEW r \in WorkerType, wrk' = [wrk EXCEPT ![w] = r]
    PROVE  /\ wrk' \in [Workers -> WorkerType]
           /\ \A x \in Workers : wrk'[x] = IF x = w THEN r ELSE wrk[x]
BY DEF TypeOK

(* A pipe takes an id.                                                     *)
LEMMA SlotIs ==
    ASSUME NEW r \in WorkerType, NEW i \in Nat \cup {NoId}, NEW q, q = [r EXCEPT !.slot = i]
    PROVE  /\ q \in WorkerType
           /\ q.slot = i /\ q.pc = r.pc /\ q.pipe = r.pipe /\ q.pull = r.pull
           /\ q.id = r.id /\ q.run = r.run /\ q.killed = r.killed
BY DEF WorkerType

\* An id changes its place, and nothing else changes for the workers.
SlotsOnly ==
    \A x \in Workers : /\ wrk'[x].pc = wrk[x].pc /\ wrk'[x].pipe = wrk[x].pipe
                       /\ wrk'[x].pull = wrk[x].pull /\ wrk'[x].id = wrk[x].id
                       /\ wrk'[x].run = wrk[x].run /\ wrk'[x].killed = wrk[x].killed

LEMMA IdMoves ==
    ASSUME IInv, TypeOK', UserInv', FreshInv', PlaceInv', SlotsOnly,
           UNCHANGED <<pending, own>>, push'.open = push.open, push'.flushed = push.flushed,
           \A v \in Users : usr'[v].pc \in {"store", "send"} =>
               /\ usr'[v].pc = usr[v].pc /\ usr'[v].id = usr[v].id
               /\ (Current(v))' = Current(v),
           \A f \in Futures : (Known(f) => Known(f)') /\ (Stored(f)' => Stored(f)),
           push.open => \A i \in DOMAIN pending : Carried(i) => Carried(i)'
    PROVE  IInv'
<1> USE DEF SlotsOnly
<1>1. WorkerInv'
  BY DEF IInv, WorkerInv, WorkerOK
<1>2. \A f \in Futures : IdsOf(f)' = IdsOf(f) /\ RunBy(f)' = RunBy(f)
  BY DEF IdsOf, RunBy
<1>3. KnownInv'
  BY <1>2 DEF IInv, KnownInv
<1>4. OnceInv'
  BY DEF IInv, OnceInv
<1>5. LiveInv'
  BY <1>2 DEF IInv, LiveInv
<1>6. OpenInv'
  <2>1. WorkerKilled' <=> WorkerKilled
    BY DEF WorkerKilled
  <2> QED BY <2>1 DEF IInv, OpenInv, UpOK
<1>7. JoinInv'
  BY DEF IInv, JoinInv, AllWorkersOver
<1> QED BY <1>1, <1>3, <1>4, <1>5, <1>6, <1>7 DEF IInv

(* _push.send() to a pipe.                                                 *)
LEMMA SendToPipe ==
    ASSUME IInv, NEW u \in Users, usr[u].pc = "send", Sends(u), NEW w \in Workers, Ready(w),
           wrk' = [wrk EXCEPT ![w].slot = usr[u].id],
           UNCHANGED <<shut, nextId, pending, push, fut, own>>
    PROVE  IInv'
<1>1. PICK k \in Nat : k = usr[u].id
  BY DEF IInv, TypeOK, UserInv, UserOK, UserType
<1>2. PICK r : r = [wrk[w] EXCEPT !.slot = k]
  OBVIOUS
<1>3. wrk' = [wrk EXCEPT ![w] = r]
  BY <1>1, <1>2
<1>4. /\ usr' \in [Users -> UserType] /\ UserInv'
      /\ usr'[u].pc \notin {"store", "send"} /\ usr'[u].id = NoId
      /\ \A v \in Users : v # u => usr'[v] = usr[v] /\ (Current(v))' = Current(v)
      /\ \A f \in Futures : (Known(f) <=> Known(f)') /\ (Stored(f) <=> Stored(f)')
  BY UserSends
<1>5. /\ r \in WorkerType
      /\ r.slot = k /\ r.pc = wrk[w].pc /\ r.pipe = wrk[w].pipe /\ r.pull = wrk[w].pull
      /\ r.id = wrk[w].id /\ r.run = wrk[w].run /\ r.killed = wrk[w].killed
  <2>1. wrk[w] \in WorkerType
    BY DEF IInv, TypeOK
  <2> QED BY <1>2, <2>1, SlotIs
<1>6. /\ wrk' \in [Workers -> WorkerType]
      /\ \A x \in Workers : wrk'[x] = IF x = w THEN r ELSE wrk[x]
  BY <1>3, <1>5, WorkerUpdate DEF IInv
<1>7. SlotsOnly
  BY <1>5, <1>6 DEF SlotsOnly
<1>8. TypeOK'
  BY <1>4, <1>6 DEF IInv, TypeOK
<1>9. FreshInv'
  <2>1. k < nextId /\ NoId < nextId
    BY <1>1, NoIdFact DEF IInv, TypeOK, FreshInv
  <2>2. \A v \in Users : usr'[v].id < nextId
    BY <1>4, <2>1 DEF IInv, FreshInv
  <2>3. \A x \in Workers : wrk'[x].slot < nextId /\ wrk'[x].id < nextId
    BY <1>5, <1>6, <2>1 DEF IInv, FreshInv
  <2> QED BY <2>2, <2>3 DEF IInv, FreshInv
<1>10. wrk[w].slot = NoId
  BY DEF Ready
<1>11. PlaceInv'
  <2>1. /\ k # NoId /\ k \notin Items(push.buf)
        /\ \A v \in Users : v # u => usr[v].id # k
        /\ \A x \in Workers : k # wrk[x].slot /\ k # wrk[x].id
    BY <1>1, NoIdFact DEF IInv, PlaceInv
  <2>2. NoId \notin Items(push.buf)
    BY NoIdFact DEF IInv, TypeOK, PushType, Items
  <2>3. \A x, y \in Workers : x # y => Apart(wrk'[x], wrk'[y])
    BY <1>5, <1>6, <1>10, <2>1 DEF IInv, PlaceInv, Apart
  <2>4. \A x \in Workers : /\ wrk'[x].slot \notin Items(push.buf)
                           /\ wrk'[x].id \notin Items(push.buf)
                           /\ wrk'[x].slot = wrk'[x].id => wrk'[x].slot = NoId
    BY <1>5, <1>6, <2>1 DEF IInv, PlaceInv
  <2>5. \A v \in Users, x \in Workers :
          usr'[v].id # NoId => usr'[v].id # wrk'[x].slot /\ usr'[v].id # wrk'[x].id
    BY <1>4, <1>5, <1>6, <2>1 DEF IInv, PlaceInv
  <2>6. \A v \in Users : usr'[v].id \notin Items(push.buf)
    BY <1>4, <2>2 DEF IInv, PlaceInv
  <2>7. \A v, x \in Users : usr'[v].id = usr'[x].id => v = x \/ usr'[v].id = NoId
    BY <1>4 DEF IInv, PlaceInv
  <2> QED BY <2>3, <2>4, <2>5, <2>6, <2>7 DEF IInv, PlaceInv
<1>12. \A i \in DOMAIN pending : Carried(i) => Carried(i)'
  <2> SUFFICES ASSUME NEW i \in DOMAIN pending, Carried(i) PROVE Carried(i)'
    OBVIOUS
  <2>0. i # NoId
    BY NoIdFact DEF IInv, TypeOK
  <2>1. CASE i = k
    BY <1>5, <1>6, <2>1 DEF Carried
  <2>2. CASE i # k
    BY <1>1, <1>4, <1>5, <1>6, <1>10, <2>0, <2>2 DEF Carried
  <2> QED BY <2>1, <2>2
<1> QED BY <1>4, <1>7, <1>8, <1>9, <1>11, <1>12, IdMoves

(* _push.send() into the buffer.                                           *)
LEMMA SendToBuffer ==
    ASSUME IInv, NEW u \in Users, usr[u].pc = "send", Sends(u),
           push' = [push EXCEPT !.buf = Append(@, usr[u].id)],
           UNCHANGED <<shut, nextId, pending, wrk, fut, own>>
    PROVE  IInv'
<1>1. PICK k \in Nat : k = usr[u].id
  BY DEF IInv, TypeOK, UserInv, UserOK, UserType
<1>2. /\ usr' \in [Users -> UserType] /\ UserInv'
      /\ usr'[u].pc \notin {"store", "send"} /\ usr'[u].id = NoId
      /\ \A v \in Users : v # u => usr'[v] = usr[v] /\ (Current(v))' = Current(v)
      /\ \A f \in Futures : (Known(f) <=> Known(f)') /\ (Stored(f) <=> Stored(f)')
  BY UserSends
<1>3. push \in PushType
  BY DEF IInv, TypeOK
<1>4. /\ push'.buf = Append(push.buf, k) /\ push'.open = push.open
      /\ push'.flushed = push.flushed
  BY <1>1, <1>3 DEF PushType
<1>5. /\ push'.buf \in Seq(Nat) /\ Items(push'.buf) = Items(push.buf) \cup {k}
      /\ Injective(push.buf) /\ k \notin Items(push.buf) => Injective(push'.buf)
  BY <1>3, <1>4, AppendItems DEF PushType
<1>6. SlotsOnly
  BY DEF SlotsOnly
<1>7. TypeOK'
  <2>1. push' \in PushType
    BY <1>1, <1>3, <1>4, <1>5 DEF PushType
  <2> QED BY <1>2, <2>1 DEF IInv, TypeOK
<1>8. FreshInv'
  BY <1>1, <1>2, <1>5, NoIdFact DEF IInv, TypeOK, FreshInv
<1>9. PlaceInv'
  <2>1. /\ k # NoId /\ k \notin Items(push.buf)
        /\ \A v \in Users : v # u => usr[v].id # k
        /\ \A x \in Workers : k # wrk[x].slot /\ k # wrk[x].id
    BY <1>1, NoIdFact DEF IInv, PlaceInv
  <2>2. NoId \notin Items(push'.buf)
    BY <1>5, NoIdFact DEF IInv, TypeOK, PushType, Items
  <2>3. \A v \in Users : usr'[v].id \notin Items(push'.buf)
    BY <1>2, <1>5, <2>1, <2>2 DEF IInv, PlaceInv
  <2>4. \A x \in Workers : wrk[x].slot \notin Items(push'.buf) /\ wrk[x].id \notin Items(push'.buf)
    BY <1>5, <2>1 DEF IInv, PlaceInv
  <2>5. Injective(push'.buf)
    BY <1>5, <2>1 DEF IInv, PlaceInv
  <2>6. \A v, x \in Users : usr'[v].id = usr'[x].id => v = x \/ usr'[v].id = NoId
    BY <1>2 DEF IInv, PlaceInv
  <2>7. \A v \in Users, x \in Workers :
          usr'[v].id # NoId => usr'[v].id # wrk[x].slot /\ usr'[v].id # wrk[x].id
    BY <1>2 DEF IInv, PlaceInv
  <2> QED BY <2>3, <2>4, <2>5, <2>6, <2>7 DEF IInv, PlaceInv
<1>10. \A i \in DOMAIN pending : Carried(i) => Carried(i)'
  BY <1>1, <1>2, <1>5 DEF Carried
<1> QED BY <1>2, <1>4, <1>6, <1>7, <1>8, <1>9, <1>10, IdMoves

(* _push.send() on a closed socket.                                        *)
LEMMA SendFails ==
    ASSUME IInv, NEW u \in Users, usr[u].pc = "send", Sends(u), ~push.open,
           UNCHANGED <<shut, nextId, pending, push, wrk, fut, own>>
    PROVE  IInv'
<1>1. /\ usr' \in [Users -> UserType] /\ UserInv'
      /\ usr'[u].pc \notin {"store", "send"} /\ usr'[u].id = NoId
      /\ \A v \in Users : v # u => usr'[v] = usr[v] /\ (Current(v))' = Current(v)
      /\ \A f \in Futures : (Known(f) <=> Known(f)') /\ (Stored(f) <=> Stored(f)')
  BY UserSends
<1>2. SlotsOnly
  BY DEF SlotsOnly
<1>3. TypeOK'
  BY <1>1 DEF IInv, TypeOK
<1>4. FreshInv'
  BY <1>1, NoIdFact DEF IInv, TypeOK, FreshInv
<1>5. PlaceInv'
  <2>1. NoId \notin Items(push.buf)
    BY NoIdFact DEF IInv, TypeOK, PushType, Items
  <2> QED BY <1>1, <2>1 DEF IInv, PlaceInv
<1> QED BY <1>1, <1>2, <1>3, <1>4, <1>5, IdMoves

LEMMA Submit_sendIInv ==
    ASSUME IInv, NEW u \in Users, Submit_send(u)
    PROVE  IInv'
<1>1. usr[u].pc = "send" /\ Sends(u) /\ UNCHANGED <<shut, nextId, pending, fut, own>>
  BY DEF Submit_send, Sends
<1>2. CASE /\ push.open /\ push.buf = <<>>
           /\ \E w \in Workers : Ready(w) /\ wrk' = [wrk EXCEPT ![w].slot = usr[u].id]
           /\ UNCHANGED push
  BY <1>1, <1>2, SendToPipe
<1>3. CASE /\ push.open /\ Len(push.buf) < push.limit
           /\ push' = [push EXCEPT !.buf = Append(@, usr[u].id)]
           /\ UNCHANGED wrk
  BY <1>1, <1>3, SendToBuffer
<1>4. CASE ~push.open /\ UNCHANGED <<push, wrk>>
  BY <1>1, <1>4, SendFails
<1> QED BY <1>2, <1>3, <1>4 DEF Submit_send
(* The next id of the buffer goes to a pipe.                               *)
LEMMA DeliverIInv ==
    ASSUME IInv, NEW w \in Workers, Deliver(w)
    PROVE  IInv'
<1>0. push \in PushType /\ push.buf # <<>>
  BY DEF IInv, TypeOK, Deliver
<1>1. PICK k \in Nat : k = Head(push.buf)
  BY <1>0, TailItems DEF PushType
<1>2. PICK r : r = [wrk[w] EXCEPT !.slot = k]
  OBVIOUS
<1>3. wrk' = [wrk EXCEPT ![w] = r]
  BY <1>1, <1>2 DEF Deliver
<1>4. UNCHANGED <<shut, nextId, pending, fut, usr, own>>
  BY DEF Deliver
<1>5. /\ r \in WorkerType
      /\ r.slot = k /\ r.pc = wrk[w].pc /\ r.pipe = wrk[w].pipe /\ r.pull = wrk[w].pull
      /\ r.id = wrk[w].id /\ r.run = wrk[w].run /\ r.killed = wrk[w].killed
  <2>1. wrk[w] \in WorkerType
    BY DEF IInv, TypeOK
  <2> QED BY <1>2, <2>1, SlotIs
<1>6. /\ wrk' \in [Workers -> WorkerType]
      /\ \A x \in Workers : wrk'[x] = IF x = w THEN r ELSE wrk[x]
  BY <1>3, <1>5, WorkerUpdate DEF IInv
<1>7. push' \in PushType
      /\ push'.buf = Tail(push.buf) /\ push'.open = push.open
      /\ push'.flushed = push.flushed
  <2>1. Tail(push.buf) \in Seq(Nat)
    BY <1>0, TailItems DEF PushType
  <2> QED BY <1>0, <2>1 DEF Deliver, PushType
<1>8. Items(push.buf) = Items(push'.buf) \cup {k} /\ Injective(push'.buf) /\ k \notin Items(push'.buf)
  BY <1>0, <1>1, <1>7, TailItems DEF IInv, PlaceInv, PushType
<1>9. wrk[w].slot = NoId
  BY DEF Deliver, Ready
<1>10. SlotsOnly
  BY <1>5, <1>6 DEF SlotsOnly
<1>11. TypeOK'
  BY <1>4, <1>6, <1>7 DEF IInv, TypeOK
<1>12. UserInv'
  BY <1>4 DEF IInv, UserInv, UserOK, Current
<1>13. FreshInv'
  <2>1. k < nextId
    BY <1>8 DEF IInv, FreshInv
  <2>2. \A x \in Workers : wrk'[x].slot < nextId /\ wrk'[x].id < nextId
    BY <1>5, <1>6, <2>1 DEF IInv, FreshInv
  <2> QED BY <1>4, <1>8, <2>2 DEF IInv, FreshInv
<1>14. PlaceInv'
  <2>1. /\ k # NoId
        /\ \A v \in Users : usr[v].id # k
        /\ \A x \in Workers : k # wrk[x].slot /\ k # wrk[x].id
    BY <1>8, NoIdFact DEF IInv, PlaceInv
  <2>3. \A x, y \in Workers : x # y => Apart(wrk'[x], wrk'[y])
    BY <1>5, <1>6, <1>9, <2>1 DEF IInv, PlaceInv, Apart
  <2>4. \A x \in Workers : /\ wrk'[x].slot \notin Items(push'.buf)
                           /\ wrk'[x].id \notin Items(push'.buf)
                           /\ wrk'[x].slot = wrk'[x].id => wrk'[x].slot = NoId
    BY <1>5, <1>6, <1>8, <2>1 DEF IInv, PlaceInv
  <2>5. \A v \in Users, x \in Workers :
          usr[v].id # NoId => usr[v].id # wrk'[x].slot /\ usr[v].id # wrk'[x].id
    BY <1>5, <1>6, <2>1 DEF IInv, PlaceInv
  <2>6. \A v \in Users : usr[v].id \notin Items(push'.buf)
    BY <1>8 DEF IInv, PlaceInv
  <2> QED BY <1>4, <1>8, <2>3, <2>4, <2>5, <2>6 DEF IInv, PlaceInv
<1>15. \A i \in DOMAIN pending : Carried(i) => Carried(i)'
  <2> SUFFICES ASSUME NEW i \in DOMAIN pending, Carried(i) PROVE Carried(i)'
    OBVIOUS
  <2>0. i # NoId
    BY NoIdFact DEF IInv, TypeOK
  <2>1. CASE i = k
    BY <1>5, <1>6, <2>1 DEF Carried
  <2>2. CASE i # k
    BY <1>4, <1>5, <1>6, <1>8, <1>9, <2>0, <2>2 DEF Carried
  <2> QED BY <2>1, <2>2
<1>16. /\ \A f \in Futures : (Known(f) => Known(f)') /\ (Stored(f)' => Stored(f))
       /\ \A v \in Users : usr'[v] = usr[v] /\ (Current(v))' = Current(v)
  BY <1>4 DEF Known, Stored, Current
<1> QED BY <1>4, <1>7, <1>10, <1>11, <1>12, <1>13, <1>14, <1>15, <1>16, IdMoves

(* A caller cancels its future.                                            *)
LEMMA CancelIInv ==
    ASSUME IInv, NEW f \in Futures, Cancel(f)
    PROVE  IInv'
<1>1. /\ fut \in [Futures -> {"none", "pending", "result", "exception", "cancelled"}]
      /\ fut' = [fut EXCEPT ![f] = "cancelled"] /\ fut[f] = "pending"
      /\ UNCHANGED <<shut, nextId, pending, push, usr, own, wrk>>
  BY DEF IInv, TypeOK, Cancel
<1>2. /\ fut' \in [Futures -> {"none", "pending", "result", "exception", "cancelled"}]
      /\ \A g \in Futures : /\ fut'[g] = IF g = f THEN "cancelled" ELSE fut[g]
                            /\ fut'[g] = "none" <=> fut[g] = "none"
                            /\ fut'[g] = "pending" => fut[g] = "pending"
  BY <1>1
<1>3. TypeOK'
  BY <1>1, <1>2 DEF IInv, TypeOK
<1>4. UserInv'
  <2> SUFFICES ASSUME NEW v \in Users PROVE UserOK(v)'
    BY DEF UserInv
  <2>1. UserOK(v) /\ (Current(v))' = Current(v) /\ TypeOK
    BY <1>1 DEF IInv, UserInv, Current
  <2>2. usr[v].pc = "store" => Current(v) \in Futures
    BY <2>1, CurrentIs DEF UserOK
  <2>3. \A n \in 1..Tasks[v] : <<v, n>> \in Futures
    BY FutureOf
  <2> QED BY <1>1, <1>2, <2>1, <2>2, <2>3 DEF UserOK
<1>5. \A g \in Futures : (Known(g) => Known(g)') /\ (Stored(g)' => Stored(g))
  BY <1>1, <1>2 DEF Known, Stored, Current
<1>6. SlotsOnly /\ FreshInv' /\ PlaceInv' /\ \A v \in Users : (Current(v))' = Current(v)
  BY <1>1 DEF IInv, SlotsOnly, FreshInv, PlaceInv, Current
<1>7. \A i \in DOMAIN pending : Carried(i) => Carried(i)'
  BY <1>1 DEF Carried
<1> QED BY <1>1, <1>3, <1>4, <1>5, <1>6, <1>7, IdMoves

(* The owner goes on.                                                      *)
LEMMA OwnerMoves ==
    ASSUME IInv, own' \in [pc : OwnerPcs, wait : BOOLEAN], shut' \in BOOLEAN,
           own'.pc = "back" /\ own'.wait => AllWorkersOver,
           UNCHANGED <<nextId, pending, push, fut, usr, wrk>>
    PROVE  IInv'
<1>1. TypeOK'
  BY DEF IInv, TypeOK
<1>2. UserInv' /\ WorkerInv' /\ FreshInv' /\ PlaceInv'
  BY DEF IInv, UserInv, UserOK, Current, WorkerInv, FreshInv, PlaceInv
<1>3. KnownInv' /\ OnceInv' /\ LiveInv'
  BY DEF IInv, KnownInv, OnceInv, LiveInv, Known, Stored, IdsOf, RunBy, Current
<1>4. OpenInv'
  BY DEF IInv, OpenInv, WorkerKilled, Carried
<1>5. JoinInv'
  BY DEF JoinInv, AllWorkersOver
<1> QED BY <1>1, <1>2, <1>3, <1>4, <1>5 DEF IInv

(* shutdown() sets _shutdown.                                              *)
LEMMA ShutdownIInv ==
    ASSUME IInv, NEW wait \in BOOLEAN, NEW cancel \in BOOLEAN, Shutdown(wait, cancel)
    PROVE  IInv'
<1>1. UNCHANGED <<nextId, pending, push, fut, usr, wrk>>
  BY DEF Shutdown
<1>2. own' \in [pc : OwnerPcs, wait : BOOLEAN] /\ own'.pc # "back" /\ shut' \in BOOLEAN
  BY DEF Shutdown, OwnerPcs
<1> QED BY <1>1, <1>2, OwnerMoves
(* popitem() and cancel().                                                 *)
LEMMA CancelPops ==
    ASSUME IInv, NEW i \in DOMAIN pending, pending' = Pop(pending, i),
           fut' = [fut EXCEPT ![pending[i]] = IF @ = "pending" THEN "cancelled" ELSE @],
           UNCHANGED <<shut, nextId, push, usr, own, wrk>>
    PROVE  IInv'
<1>1. PICK f \in Futures : f = pending[i]
  BY DEF IInv, TypeOK
<1>2. /\ DOMAIN pending' = DOMAIN pending \ {i}
      /\ \A j \in DOMAIN pending' : pending'[j] = pending[j]
      /\ pending' = [j \in DOMAIN pending' |-> pending'[j]]
  BY DEF Pop
<1>3. /\ fut' \in [Futures -> {"none", "pending", "result", "exception", "cancelled"}]
      /\ fut'[f] # "pending"
      /\ \A g \in Futures : /\ fut'[g] = "none" <=> fut[g] = "none"
                            /\ fut'[g] = "pending" => fut[g] = "pending"
  BY <1>1 DEF IInv, TypeOK
<1>4. TypeOK'
  <2>1. DOMAIN pending' \subseteq Nat /\ pending' \in [DOMAIN pending' -> Futures]
    BY <1>2 DEF IInv, TypeOK
  <2> QED BY <1>3, <2>1 DEF IInv, TypeOK
<1>5. UserInv'
  <2> SUFFICES ASSUME NEW v \in Users PROVE UserOK(v)'
    BY DEF UserInv
  <2>1. UserOK(v) /\ (Current(v))' = Current(v) /\ TypeOK
    BY DEF IInv, UserInv, Current
  <2>2. usr[v].pc = "store" => Current(v) \in Futures
    BY <2>1, CurrentIs DEF UserOK
  <2>3. \A n \in 1..Tasks[v] : <<v, n>> \in Futures
    BY FutureOf
  <2> QED BY <1>3, <2>1, <2>2, <2>3 DEF UserOK
<1>6. WorkerInv' /\ FreshInv' /\ PlaceInv'
  BY <1>2 DEF IInv, WorkerInv, FreshInv, PlaceInv
<1>7. \A g \in Futures : /\ Known(g) => Known(g)'
                         /\ Stored(g)' => Stored(g) /\ g # f
                         /\ IdsOf(g)' \subseteq IdsOf(g) /\ RunBy(g)' = RunBy(g)
                         /\ g # f => IdsOf(g)' = IdsOf(g)
  BY <1>1, <1>2, <1>3 DEF Known, Stored, Current, IdsOf, RunBy
<1>8. KnownInv'
  <2>1. \A v \in Users : (Current(v))' = Current(v)
    BY DEF Current
  <2>2. \A g \in Futures : IdsOf(g)' # {} => IdsOf(g) # {}
    BY <1>7
  <2> QED BY <1>2, <1>7, <2>1, <2>2 DEF IInv, KnownInv
<1>9. OnceInv'
  BY <1>2 DEF IInv, OnceInv, Injective
<1>10. LiveInv'
  BY <1>7 DEF IInv, LiveInv
<1>11. OpenInv'
  BY <1>2 DEF IInv, OpenInv, WorkerKilled, Carried
<1>12. JoinInv'
  BY DEF IInv, JoinInv, AllWorkersOver
<1> QED BY <1>4, <1>5, <1>6, <1>8, <1>9, <1>10, <1>11, <1>12 DEF IInv

LEMMA Shutdown_cancelIInv == ASSUME IInv, Shutdown_cancel PROVE IInv'
<1>1. CASE \E i \in DOMAIN pending :
             /\ pending' = Pop(pending, i)
             /\ fut' = [fut EXCEPT ![pending[i]] = IF @ = "pending" THEN "cancelled" ELSE @]
             /\ UNCHANGED own
  BY <1>1, CancelPops DEF Shutdown_cancel
<1>2. CASE own' = [own EXCEPT !.pc = "close"] /\ UNCHANGED <<pending, fut>>
  <2>1. own' \in [pc : OwnerPcs, wait : BOOLEAN] /\ own'.pc = "close" /\ shut' \in BOOLEAN
    BY <1>2 DEF Shutdown_cancel, IInv, TypeOK, OwnerPcs
  <2> QED BY <1>2, <2>1, OwnerMoves DEF Shutdown_cancel
<1> QED BY <1>1, <1>2 DEF Shutdown_cancel

LEMMA Shutdown_joinIInv == ASSUME IInv, Shutdown_join PROVE IInv'
<1>1. own' \in [pc : OwnerPcs, wait : BOOLEAN] /\ shut' \in BOOLEAN
  BY DEF Shutdown_join, IInv, TypeOK, OwnerPcs
<1> QED BY <1>1, OwnerMoves DEF Shutdown_join

(* A worker without its pipe.                                              *)
LEMMA UnpluggedIs ==
    ASSUME NEW r \in WorkerType
    PROVE  /\ Unplugged(r) \in WorkerType
           /\ Unplugged(r).slot = NoId /\ Unplugged(r).pc = r.pc /\ Unplugged(r).id = r.id
           /\ Unplugged(r).run = r.run /\ Unplugged(r).killed = r.killed
BY DEF Unplugged, WorkerType

(* _push.close().                                                          *)
LEMMA Shutdown_closeIInv == ASSUME IInv, Shutdown_close PROVE IInv'
<1>1. UNCHANGED <<shut, nextId, pending, fut, usr>>
  BY DEF Shutdown_close
<1>2. /\ own' \in [pc : OwnerPcs, wait : BOOLEAN]
      /\ ~(own'.pc = "back" /\ own'.wait)
  BY DEF Shutdown_close, IInv, TypeOK, OwnerPcs
<1>3. /\ push' \in PushType
      /\ ~push'.open /\ push'.buf = <<>>
  <2>1. <<>> \in Seq(Nat)
    OBVIOUS
  <2>2. push \in PushType
    BY DEF IInv, TypeOK
  <2> QED BY <2>1, <2>2 DEF Shutdown_close, PushType
<1>4. \A x \in Workers : /\ wrk'[x] \in WorkerType
                         /\ wrk'[x].slot = NoId /\ wrk'[x].pc = wrk[x].pc
                         /\ wrk'[x].id = wrk[x].id /\ wrk'[x].run = wrk[x].run
  <2> SUFFICES ASSUME NEW x \in Workers
               PROVE  /\ wrk'[x] \in WorkerType
                      /\ wrk'[x].slot = NoId /\ wrk'[x].pc = wrk[x].pc
                      /\ wrk'[x].id = wrk[x].id /\ wrk'[x].run = wrk[x].run
    OBVIOUS
  <2>1. wrk'[x] = Unplugged(wrk[x])
    BY DEF Shutdown_close
  <2>2. wrk[x] \in WorkerType
    BY DEF IInv, TypeOK
  <2> QED BY <2>1, <2>2, UnpluggedIs
<1>5. TypeOK'
  <2>1. wrk' \in [Workers -> WorkerType]
    BY <1>4 DEF Shutdown_close
  <2> QED BY <1>1, <1>2, <1>3, <2>1 DEF IInv, TypeOK
<1>6. Items(push'.buf) = {} /\ Injective(push'.buf)
  BY <1>3 DEF Items, Injective
<1>7. \A v \in Users : (Current(v))' = Current(v)
  BY <1>1 DEF Current
<1>8. UserInv' /\ WorkerInv'
  BY <1>1, <1>4, <1>7 DEF IInv, UserInv, UserOK, WorkerInv, WorkerOK
<1>9. FreshInv'
  BY <1>1, <1>4, <1>6, NoIdFact DEF IInv, FreshInv, TypeOK
<1>10. PlaceInv'
  <2>1. \A x, y \in Workers : x # y => Apart(wrk'[x], wrk'[y])
    BY <1>4 DEF IInv, PlaceInv, Apart
  <2> QED BY <1>1, <1>4, <1>6, <2>1 DEF IInv, PlaceInv
<1>11. \A f \in Futures : /\ Known(f) <=> Known(f)'
                          /\ Stored(f) <=> Stored(f)'
                          /\ IdsOf(f)' = IdsOf(f) /\ RunBy(f)' = RunBy(f)
  BY <1>1, <1>4 DEF Known, Stored, Current, IdsOf, RunBy
<1>12. KnownInv' /\ LiveInv'
  BY <1>1, <1>7, <1>11 DEF IInv, KnownInv, LiveInv
<1>13. OnceInv'
  BY <1>1, <1>4 DEF IInv, OnceInv
<1>14. OpenInv' /\ JoinInv'
  BY <1>2, <1>3 DEF OpenInv, JoinInv
<1> QED BY <1>5, <1>8, <1>9, <1>10, <1>12, <1>13, <1>14 DEF IInv

(* A worker goes on with what it has, or loses the id its pipe holds when  *)
(* the socket is closed.                                                   *)
LEMMA WorkerMoves ==
    ASSUME IInv, NEW w \in Workers, NEW r \in WorkerType, wrk' = [wrk EXCEPT ![w] = r],
           wrk[w].pc # "over", WorkerOK(r),
           r.slot \in {wrk[w].slot, NoId}, r.id = wrk[w].id, r.run = wrk[w].run,
           r.killed = wrk[w].killed,
           push.open /\ UpOK(wrk[w]) => UpOK(r) /\ r.slot = wrk[w].slot,
           UNCHANGED <<shut, nextId, pending, push, fut, usr, own>>
    PROVE  IInv'
<1>1. /\ wrk' \in [Workers -> WorkerType]
      /\ \A x \in Workers : wrk'[x] = IF x = w THEN r ELSE wrk[x]
  BY WorkerUpdate DEF IInv
<1>2. TypeOK'
  BY <1>1 DEF IInv, TypeOK
<1>3. \A v \in Users : (Current(v))' = Current(v)
  BY DEF Current
<1>4. UserInv' /\ WorkerInv'
  BY <1>1, <1>3 DEF IInv, UserInv, UserOK, WorkerInv
<1>5. FreshInv'
  <2>1. NoId < nextId
    BY NoIdFact DEF IInv, TypeOK
  <2> QED BY <1>1, <2>1 DEF IInv, FreshInv
<1>6. PlaceInv'
  <2>1. \A x, y \in Workers : x # y => Apart(wrk'[x], wrk'[y])
    BY <1>1 DEF IInv, PlaceInv, Apart
  <2>2. NoId \notin Items(push.buf)
    BY NoIdFact DEF IInv, TypeOK, PushType, Items
  <2>3. \A x \in Workers : /\ wrk'[x].slot \notin Items(push.buf)
                           /\ wrk'[x].id \notin Items(push.buf)
                           /\ wrk'[x].slot = wrk'[x].id => wrk'[x].slot = NoId
    BY <1>1, <2>2 DEF IInv, PlaceInv
  <2>4. \A v \in Users, x \in Workers :
          usr[v].id # NoId => usr[v].id # wrk'[x].slot /\ usr[v].id # wrk'[x].id
    BY <1>1 DEF IInv, PlaceInv
  <2> QED BY <2>1, <2>3, <2>4 DEF IInv, PlaceInv
<1>7. \A f \in Futures : /\ Known(f) <=> Known(f)'
                         /\ Stored(f) <=> Stored(f)'
                         /\ IdsOf(f)' = IdsOf(f) /\ RunBy(f)' = RunBy(f)
  <2>1. \A x \in Workers : wrk'[x].run = wrk[x].run
    BY <1>1
  <2> QED BY <2>1 DEF Known, Stored, Current, IdsOf, RunBy
<1>8. KnownInv' /\ LiveInv'
  BY <1>3, <1>7 DEF IInv, KnownInv, LiveInv
<1>9. OnceInv'
  BY <1>1 DEF IInv, OnceInv
<1>10. OpenInv'
  <2> SUFFICES ASSUME push.open, ~push.flushed, ~WorkerKilled'
               PROVE  /\ \A x \in Workers : UpOK(wrk'[x])
                      /\ \A i \in DOMAIN pending : Carried(i)'
    BY DEF OpenInv
  <2>1. ~WorkerKilled
    BY <1>1 DEF WorkerKilled
  <2>2. \A x \in Workers : UpOK(wrk[x])
    BY <2>1 DEF IInv, OpenInv
  <2>3. \A x \in Workers : UpOK(wrk'[x]) /\ wrk'[x].slot = wrk[x].slot /\ wrk'[x].id = wrk[x].id
    BY <1>1, <2>2
  <2>4. ASSUME NEW i \in DOMAIN pending PROVE Carried(i)'
    <3>1. Carried(i)
      BY <2>1 DEF IInv, OpenInv
    <3> QED BY <2>3, <3>1 DEF Carried
  <2> QED BY <2>3, <2>4
<1>11. JoinInv'
  BY DEF IInv, JoinInv, AllWorkersOver
<1> QED BY <1>2, <1>4, <1>5, <1>6, <1>8, <1>9, <1>10, <1>11 DEF IInv
(* A thread that has ended.                                                *)
LEMMA EndedIs ==
    ASSUME NEW r \in WorkerType
    PROVE  /\ Ended(r) \in WorkerType /\ WorkerOK(Ended(r))
           /\ Ended(r).slot = NoId /\ Ended(r).pc = "over" /\ Ended(r).id = NoId
           /\ Ended(r).run = NoFuture /\ Ended(r).killed = r.killed
<1>1. Unplugged(r) \in WorkerType /\ Unplugged(r).slot = NoId /\ Unplugged(r).killed = r.killed
  BY UnpluggedIs
<1> DEFINE e == [Unplugged(r) EXCEPT !.pc = "over", !.pull = FALSE, !.run = NoFuture, !.id = NoId]
<1>2. /\ e \in WorkerType /\ e.slot = NoId /\ e.pc = "over" /\ e.id = NoId
      /\ e.run = NoFuture /\ e.killed = r.killed
  BY <1>1 DEF WorkerType, WorkerPcs
<1>3. Ended(r) = e
  BY DEF Ended
<1> HIDE DEF e
<1> QED BY <1>2, <1>3 DEF WorkerOK

(* What a worker has at each place.                                        *)
LEMMA AtWorker ==
    ASSUME IInv, NEW w \in Workers
    PROVE  /\ wrk[w] \in WorkerType /\ WorkerOK(wrk[w])
           /\ wrk[w].pc \notin {"got", "run"} => wrk[w].id = NoId /\ wrk[w].run = NoFuture
BY DEF IInv, TypeOK, WorkerInv, WorkerOK

(* The socket is closed under a worker that has nothing in its hand.       *)
LEMMA WorkerEnds ==
    ASSUME IInv, NEW w \in Workers, wrk' = [wrk EXCEPT ![w] = Ended(@)],
           wrk[w].pc \in {"dial", "pipe", "recv"}, ~push.open \/ ~UpOK(wrk[w]),
           UNCHANGED <<shut, nextId, pending, push, fut, usr, own>>
    PROVE  IInv'
<1> DEFINE r == Ended(wrk[w])
<1>1. wrk' = [wrk EXCEPT ![w] = r]
  OBVIOUS
<1>2. /\ r \in WorkerType /\ WorkerOK(r) /\ r.slot = NoId /\ r.id = wrk[w].id
      /\ r.run = wrk[w].run /\ r.killed = wrk[w].killed
  BY AtWorker, EndedIs
<1> HIDE DEF r
<1> QED BY <1>1, <1>2, WorkerMoves

LEMMA Worker_dialIInv == ASSUME IInv, NEW w \in Workers, Worker_dial(w) PROVE IInv'
<1> DEFINE r == [wrk[w] EXCEPT !.pc = "pipe", !.pipe = "open"]
<1>1. wrk[w] \in WorkerType /\ WorkerOK(wrk[w]) /\ wrk[w].pc = "dial"
  BY AtWorker DEF Worker_dial
<1>2. CASE push.open
  <2>1. wrk' = [wrk EXCEPT ![w] = r]
    BY <1>2 DEF Worker_dial
  <2>2. /\ r \in WorkerType /\ WorkerOK(r) /\ r.slot = wrk[w].slot /\ r.id = wrk[w].id
        /\ r.run = wrk[w].run /\ r.killed = wrk[w].killed /\ (UpOK(wrk[w]) => UpOK(r))
    BY <1>1 DEF WorkerType, WorkerPcs, WorkerOK, UpOK
  <2> HIDE DEF r
  <2> QED BY <1>1, <2>1, <2>2, WorkerMoves DEF Worker_dial
<1>3. CASE ~push.open
  <2>1. wrk' = [wrk EXCEPT ![w] = Ended(@)]
    BY <1>3 DEF Worker_dial
  <2> QED BY <1>1, <1>3, <2>1, WorkerEnds DEF Worker_dial
<1> QED BY <1>2, <1>3

LEMMA Worker_pipeIInv == ASSUME IInv, NEW w \in Workers, Worker_pipe(w) PROVE IInv'
<1> DEFINE r == [wrk[w] EXCEPT !.pc = "register"]
<1>1. wrk[w] \in WorkerType /\ WorkerOK(wrk[w]) /\ wrk[w].pc = "pipe"
  BY AtWorker DEF Worker_pipe
<1>2. CASE wrk[w].pipe = "open"
  <2>1. wrk' = [wrk EXCEPT ![w] = r]
    BY <1>2 DEF Worker_pipe
  <2>2. /\ r \in WorkerType /\ WorkerOK(r) /\ r.slot = wrk[w].slot /\ r.id = wrk[w].id
        /\ r.run = wrk[w].run /\ r.killed = wrk[w].killed /\ (UpOK(wrk[w]) => UpOK(r))
    BY <1>1, <1>2 DEF WorkerType, WorkerPcs, WorkerOK, UpOK
  <2> HIDE DEF r
  <2> QED BY <1>1, <2>1, <2>2, WorkerMoves DEF Worker_pipe
<1>3. CASE wrk[w].pipe # "open"
  <2>1. wrk' = [wrk EXCEPT ![w] = Ended(@)]
    BY <1>3 DEF Worker_pipe
  <2>2. ~UpOK(wrk[w])
    BY <1>1, <1>3 DEF UpOK, WorkerType
  <2> QED BY <1>1, <2>1, <2>2, WorkerEnds DEF Worker_pipe
<1> QED BY <1>2, <1>3

LEMMA Worker_registerIInv == ASSUME IInv, NEW w \in Workers, Worker_register(w) PROVE IInv'
<1> DEFINE r == [wrk[w] EXCEPT !.pc = "recv", !.cb = TRUE, !.late = wrk[w].told]
<1>1. wrk[w] \in WorkerType /\ WorkerOK(wrk[w]) /\ wrk[w].pc = "register"
  BY AtWorker DEF Worker_register
<1>2. wrk' = [wrk EXCEPT ![w] = r]
  BY DEF Worker_register
<1>3. /\ r \in WorkerType /\ WorkerOK(r) /\ r.slot = wrk[w].slot /\ r.id = wrk[w].id
      /\ r.run = wrk[w].run /\ r.killed = wrk[w].killed /\ (UpOK(wrk[w]) => UpOK(r))
  BY <1>1 DEF WorkerType, WorkerPcs, WorkerOK, UpOK
<1> HIDE DEF r
<1> QED BY <1>1, <1>2, <1>3, WorkerMoves DEF Worker_register

LEMMA PipeRemovedIInv == ASSUME IInv, NEW w \in Workers, PipeRemoved(w) PROVE IInv'
<1> DEFINE r == OnPipeStatusChange(wrk[w])
<1>1. /\ wrk[w] \in WorkerType /\ WorkerOK(wrk[w]) /\ wrk[w].pc # "over"
      /\ ~UpOK(wrk[w])
  BY AtWorker DEF PipeRemoved, UpOK
<1>2. wrk' = [wrk EXCEPT ![w] = r]
  BY DEF PipeRemoved
<1>3. /\ r \in WorkerType /\ WorkerOK(r) /\ r.slot = wrk[w].slot /\ r.id = wrk[w].id
      /\ r.run = wrk[w].run /\ r.killed = wrk[w].killed
  BY <1>1 DEF OnPipeStatusChange, WorkerType, WorkerOK
<1> HIDE DEF r
<1> QED BY <1>1, <1>2, <1>3, WorkerMoves DEF PipeRemoved

(* recv() returns the id that the pipe holds.                              *)
LEMMA RecvTakes ==
    ASSUME IInv, NEW w \in Workers, wrk[w].pc = "recv", wrk[w].slot # NoId,
           NEW r \in WorkerType, WorkerOK(r), wrk' = [wrk EXCEPT ![w] = r],
           r.id = wrk[w].slot, r.slot = NoId, r.run = wrk[w].run, r.killed = wrk[w].killed,
           r.pc # "over", UpOK(wrk[w]) => UpOK(r),
           UNCHANGED <<shut, nextId, pending, push, fut, usr, own>>
    PROVE  IInv'
<1>0. wrk[w].id = NoId
  BY AtWorker
<1>1. /\ wrk' \in [Workers -> WorkerType]
      /\ \A x \in Workers : wrk'[x] = IF x = w THEN r ELSE wrk[x]
  BY WorkerUpdate DEF IInv
<1>2. TypeOK'
  BY <1>1 DEF IInv, TypeOK
<1>3. \A v \in Users : (Current(v))' = Current(v)
  BY DEF Current
<1>4. UserInv' /\ WorkerInv'
  BY <1>1, <1>3 DEF IInv, UserInv, UserOK, WorkerInv
<1>5. FreshInv'
  <2>1. NoId < nextId
    BY NoIdFact DEF IInv, TypeOK
  <2> QED BY <1>1, <2>1 DEF IInv, FreshInv
<1>6. PlaceInv'
  <2>1. \A x, y \in Workers : x # y => Apart(wrk'[x], wrk'[y])
    BY <1>0, <1>1 DEF IInv, PlaceInv, Apart
  <2>2. NoId \notin Items(push.buf)
    BY NoIdFact DEF IInv, TypeOK, PushType, Items
  <2>3. \A x \in Workers : /\ wrk'[x].slot \notin Items(push.buf)
                           /\ wrk'[x].id \notin Items(push.buf)
                           /\ wrk'[x].slot = wrk'[x].id => wrk'[x].slot = NoId
    BY <1>1, <2>2 DEF IInv, PlaceInv
  <2>4. \A v \in Users, x \in Workers :
          usr[v].id # NoId => usr[v].id # wrk'[x].slot /\ usr[v].id # wrk'[x].id
    BY <1>1 DEF IInv, PlaceInv
  <2> QED BY <2>1, <2>3, <2>4 DEF IInv, PlaceInv
<1>7. \A f \in Futures : /\ Known(f) <=> Known(f)'
                         /\ Stored(f) <=> Stored(f)'
                         /\ IdsOf(f)' = IdsOf(f) /\ RunBy(f)' = RunBy(f)
  <2>1. \A x \in Workers : wrk'[x].run = wrk[x].run
    BY <1>1
  <2> QED BY <2>1 DEF Known, Stored, Current, IdsOf, RunBy
<1>8. KnownInv' /\ LiveInv'
  BY <1>3, <1>7 DEF IInv, KnownInv, LiveInv
<1>9. OnceInv'
  BY <1>1 DEF IInv, OnceInv
<1>10. OpenInv'
  <2> SUFFICES ASSUME push.open, ~push.flushed, ~WorkerKilled'
               PROVE  /\ \A x \in Workers : UpOK(wrk'[x])
                      /\ \A i \in DOMAIN pending : Carried(i)'
    BY DEF OpenInv
  <2>1. ~WorkerKilled
    BY <1>1 DEF WorkerKilled
  <2>2. \A x \in Workers : UpOK(wrk'[x])
    BY <1>1, <2>1 DEF IInv, OpenInv
  <2>3. ASSUME NEW i \in DOMAIN pending PROVE Carried(i)'
    <3>1. Carried(i)
      BY <2>1 DEF IInv, OpenInv
    <3>2. i # NoId
      BY NoIdFact DEF IInv, TypeOK
    <3> QED BY <1>0, <1>1, <3>1, <3>2 DEF Carried
  <2> QED BY <2>2, <2>3
<1>11. JoinInv'
  BY DEF IInv, JoinInv, AllWorkersOver
<1> QED BY <1>2, <1>4, <1>5, <1>6, <1>8, <1>9, <1>10, <1>11 DEF IInv

LEMMA Worker_recvIInv == ASSUME IInv, NEW w \in Workers, Worker_recv(w) PROVE IInv'
<1>1. wrk[w] \in WorkerType /\ WorkerOK(wrk[w]) /\ wrk[w].pc = "recv"
      /\ UNCHANGED <<shut, nextId, pending, push, fut, usr, own>>
  BY AtWorker DEF Worker_recv
<1>2. CASE /\ wrk[w].pull /\ wrk[w].slot # NoId
           /\ wrk' = [wrk EXCEPT ![w].pc = "got", ![w].id = wrk[w].slot, ![w].slot = NoId]
  <2> DEFINE r == [wrk[w] EXCEPT !.pc = "got", !.id = wrk[w].slot, !.slot = NoId]
  <2>1. wrk' = [wrk EXCEPT ![w] = r]
    BY <1>2
  <2>2. /\ r \in WorkerType /\ WorkerOK(r) /\ r.id = wrk[w].slot /\ r.slot = NoId
        /\ r.run = wrk[w].run /\ r.killed = wrk[w].killed /\ r.pc = "got"
        /\ UpOK(wrk[w]) => UpOK(r)
    BY <1>1, <1>2 DEF WorkerType, WorkerPcs, WorkerOK, UpOK
  <2> HIDE DEF r
  <2> QED BY <1>1, <1>2, <2>1, <2>2, RecvTakes
<1>3. CASE ~wrk[w].pull /\ wrk' = [wrk EXCEPT ![w] = Ended(@)]
  <2>1. ~UpOK(wrk[w])
    BY <1>3 DEF UpOK
  <2> QED BY <1>1, <1>3, <2>1, WorkerEnds
<1> QED BY <1>2, <1>3 DEF Worker_recv
(* The worker takes the entry of the id in its hand out of _pending.       *)
LEMMA PopTakes ==
    ASSUME IInv, NEW w \in Workers, NEW i \in Nat, wrk[w].id = i, wrk[w].pc = "got",
           NEW f \in Futures \cup {NoFuture}, f = Popped(pending, i),
           NEW r \in WorkerType, WorkerOK(r), wrk' = [wrk EXCEPT ![w] = r],
           r.run \in {f, NoFuture}, r.id = NoId, r.slot = wrk[w].slot, r.killed = wrk[w].killed,
           f # NoFuture /\ r.run = NoFuture => fut[f] # "pending",
           r.pc # "over", UpOK(wrk[w]) => UpOK(r), pending' = Pop(pending, i),
           UNCHANGED <<shut, nextId, push, fut, usr, own>>
    PROVE  IInv'
<1>0. wrk[w].run = NoFuture /\ i # NoId
  BY NoIdFact DEF IInv, WorkerInv, WorkerOK
<1>1. /\ wrk' \in [Workers -> WorkerType]
      /\ \A x \in Workers : wrk'[x] = IF x = w THEN r ELSE wrk[x]
  BY WorkerUpdate DEF IInv
<1>2. /\ DOMAIN pending' = DOMAIN pending \ {i}
      /\ \A j \in DOMAIN pending' : pending'[j] = pending[j]
      /\ pending' = [j \in DOMAIN pending' |-> pending'[j]]
  BY DEF Pop
<1>3. f = IF i \in DOMAIN pending THEN pending[i] ELSE NoFuture
  BY DEF Popped
<1>4. TypeOK'
  <2>1. DOMAIN pending' \subseteq Nat /\ pending' \in [DOMAIN pending' -> Futures]
    BY <1>2 DEF IInv, TypeOK
  <2> QED BY <1>1, <2>1 DEF IInv, TypeOK
<1>5. \A v \in Users : (Current(v))' = Current(v)
  BY DEF Current
<1>6. UserInv' /\ WorkerInv'
  BY <1>1, <1>5 DEF IInv, UserInv, UserOK, WorkerInv
<1>7. FreshInv'
  <2>1. NoId < nextId
    BY NoIdFact DEF IInv, TypeOK
  <2> QED BY <1>1, <1>2, <2>1 DEF IInv, FreshInv
<1>8. PlaceInv'
  <2>1. \A x, y \in Workers : x # y => Apart(wrk'[x], wrk'[y])
    BY <1>1 DEF IInv, PlaceInv, Apart
  <2>2. NoId \notin Items(push.buf)
    BY NoIdFact DEF IInv, TypeOK, PushType, Items
  <2>3. \A x \in Workers : /\ wrk'[x].slot \notin Items(push.buf)
                           /\ wrk'[x].id \notin Items(push.buf)
                           /\ wrk'[x].slot = wrk'[x].id => wrk'[x].slot = NoId
    BY <1>1, <2>2 DEF IInv, PlaceInv
  <2>4. \A v \in Users, x \in Workers :
          usr[v].id # NoId => usr[v].id # wrk'[x].slot /\ usr[v].id # wrk'[x].id
    BY <1>1 DEF IInv, PlaceInv
  <2> QED BY <2>1, <2>3, <2>4 DEF IInv, PlaceInv
<1>9. \A g \in Futures : (Known(g) <=> Known(g)') /\ (Stored(g) <=> Stored(g)')
  BY DEF Known, Stored, Current
<1>10. \A g \in Futures : g \in Futures /\ g # NoFuture
  BY NoFutureFact
<1>11. \A g \in Futures : /\ IdsOf(g)' # {} => IdsOf(g) # {}
                          /\ RunBy(g)' # {} => RunBy(g) # {} \/ g = f
                          /\ g = f => IdsOf(g) # {}
                          /\ g # f => IdsOf(g)' = IdsOf(g)
                          /\ RunBy(g) \subseteq RunBy(g)'
  <2> SUFFICES ASSUME NEW g \in Futures
               PROVE  /\ IdsOf(g)' # {} => IdsOf(g) # {}
                      /\ RunBy(g)' # {} => RunBy(g) # {} \/ g = f
                      /\ g = f => IdsOf(g) # {}
                      /\ g # f => IdsOf(g)' = IdsOf(g)
                      /\ RunBy(g) \subseteq RunBy(g)'
    OBVIOUS
  <2>1. (IdsOf(g)' # {} => IdsOf(g) # {}) /\ (g # f => IdsOf(g)' = IdsOf(g))
    BY <1>2, <1>3 DEF IdsOf
  <2>2. g = f => IdsOf(g) # {}
    BY <1>3, <1>10 DEF IdsOf
  <2>3. (RunBy(g)' # {} => RunBy(g) # {} \/ g = f) /\ RunBy(g) \subseteq RunBy(g)'
    BY <1>0, <1>1, <1>10 DEF RunBy
  <2> QED BY <2>1, <2>2, <2>3
<1>12. KnownInv'
  <2>1. ASSUME NEW g \in Futures, IdsOf(g)' # {} \/ RunBy(g)' # {} PROVE Known(g)'
    BY <1>9, <1>11, <2>1 DEF IInv, KnownInv
  <2> QED BY <1>2, <1>5, <2>1 DEF IInv, KnownInv
<1>13. OnceInv'
  <2>1. Injective(pending')
    BY <1>2 DEF IInv, OnceInv, Injective
  <2>2. ASSUME f # NoFuture
        PROVE  /\ \A j \in DOMAIN pending' : pending'[j] # f
               /\ \A x \in Workers : wrk[x].run # f
    BY <1>2, <1>3, <2>2 DEF IInv, OnceInv, Injective
  <2>3. \A x \in Workers, j \in DOMAIN pending' : wrk'[x].run # pending'[j]
    <3> SUFFICES ASSUME NEW x \in Workers, NEW j \in DOMAIN pending'
                 PROVE  wrk'[x].run # pending'[j]
      OBVIOUS
    <3>1. pending'[j] # NoFuture
      BY <1>4, NoFutureFact DEF TypeOK
    <3> QED BY <1>1, <1>2, <2>2, <3>1 DEF IInv, OnceInv
  <2>4. \A x, y \in Workers : wrk'[x].run = wrk'[y].run => x = y \/ wrk'[x].run = NoFuture
    BY <1>1, <2>2 DEF IInv, OnceInv
  <2> QED BY <2>1, <2>3, <2>4 DEF OnceInv
<1>14. LiveInv'
  <2> SUFFICES ASSUME NEW g \in Futures, Stored(g)'
               PROVE  IdsOf(g)' # {} \/ RunBy(g)' # {}
    BY DEF LiveInv
  <2>1. Stored(g) /\ fut[g] = "pending"
    BY <1>9 DEF Stored
  <2>2. CASE g # f
    BY <1>11, <2>1, <2>2 DEF IInv, LiveInv
  <2>3. CASE g = f
    <3>1. wrk'[w].run = g
      BY <1>1, <1>10, <2>1, <2>3
    <3> QED BY <3>1 DEF RunBy
  <2> QED BY <2>2, <2>3
<1>15. OpenInv'
  <2> SUFFICES ASSUME push.open, ~push.flushed, ~WorkerKilled'
               PROVE  /\ \A x \in Workers : UpOK(wrk'[x])
                      /\ \A j \in DOMAIN pending' : Carried(j)'
    BY DEF OpenInv
  <2>1. ~WorkerKilled
    BY <1>1 DEF WorkerKilled
  <2>2. \A x \in Workers : UpOK(wrk'[x])
    BY <1>1, <2>1 DEF IInv, OpenInv
  <2>3. ASSUME NEW j \in DOMAIN pending' PROVE Carried(j)'
    <3>1. Carried(j) /\ j # i
      BY <1>2, <2>1 DEF IInv, OpenInv
    <3> QED BY <1>1, <3>1 DEF Carried
  <2> QED BY <2>2, <2>3
<1>16. JoinInv'
  BY DEF IInv, JoinInv, AllWorkersOver
<1> QED BY <1>4, <1>6, <1>7, <1>8, <1>12, <1>13, <1>14, <1>15, <1>16 DEF IInv

LEMMA Worker_popIInv == ASSUME IInv, NEW w \in Workers, Worker_pop(w) PROVE IInv'
<1>1. wrk[w] \in WorkerType /\ WorkerOK(wrk[w]) /\ wrk[w].pc = "got"
      /\ UNCHANGED <<shut, nextId, push, fut, usr, own>>
  BY AtWorker DEF Worker_pop
<1>2. PICK i \in Nat : i = wrk[w].id
  BY <1>1 DEF WorkerOK, WorkerType
<1>3. PICK f \in Futures \cup {NoFuture} : f = Popped(pending, i)
  BY DEF Popped, IInv, TypeOK
<1> DEFINE work == f # NoFuture /\ fut[f] # "cancelled"
           r == [wrk[w] EXCEPT !.pc = IF work THEN "run" ELSE "recv",
                               !.run = IF work THEN f ELSE NoFuture, !.id = NoId]
<1>4. wrk' = [wrk EXCEPT ![w] = r] /\ pending' = Pop(pending, i)
  BY <1>2, <1>3 DEF Worker_pop
<1>5. work => f # NoFuture
  OBVIOUS
<1>6. f # NoFuture /\ ~work => fut[f] # "pending"
  OBVIOUS
<1> HIDE DEF work
<1>7. /\ r \in WorkerType /\ WorkerOK(r) /\ r.run = (IF work THEN f ELSE NoFuture) /\ r.id = NoId
      /\ r.slot = wrk[w].slot /\ r.killed = wrk[w].killed /\ r.pc \in {"run", "recv"}
      /\ UpOK(wrk[w]) => UpOK(r)
  <2>1. CASE work
    BY <1>1, <1>5, <2>1 DEF WorkerType, WorkerPcs, WorkerOK, UpOK
  <2>2. CASE ~work
    BY <1>1, <2>2 DEF WorkerType, WorkerPcs, WorkerOK, UpOK
  <2> QED BY <2>1, <2>2
<1> HIDE DEF r
<1>8. f # NoFuture /\ r.run = NoFuture => fut[f] # "pending"
  BY <1>6, <1>7
<1> QED BY <1>1, <1>2, <1>3, <1>4, <1>7, <1>8, PopTakes

(* The function ends, and with it the run.                                 *)
LEMMA RunEnds ==
    ASSUME IInv, NEW w \in Workers, wrk[w].pc = "run",
           NEW r \in WorkerType, WorkerOK(r), wrk' = [wrk EXCEPT ![w] = r],
           r.run = NoFuture, r.id = NoId, r.slot \in {wrk[w].slot, NoId},
           r.killed \/ /\ r.killed = wrk[w].killed /\ r.slot = wrk[w].slot
                       /\ UpOK(wrk[w]) => UpOK(r),
           fut' \in [Futures -> {"none", "pending", "result", "exception", "cancelled"}],
           fut'[wrk[w].run] # "pending",
           \A g \in Futures : /\ fut'[g] = "none" => fut[g] = "none"
                              /\ fut[g] = "none" => fut'[g] = "none"
                              /\ fut'[g] = "pending" => fut[g] = "pending",
           UNCHANGED <<shut, nextId, pending, push, usr, own>>
    PROVE  IInv'
<1>0. wrk[w].id = NoId
  BY DEF IInv, WorkerInv, WorkerOK
<1>1. /\ wrk' \in [Workers -> WorkerType]
      /\ \A x \in Workers : wrk'[x] = IF x = w THEN r ELSE wrk[x]
  BY WorkerUpdate DEF IInv
<1>2. TypeOK'
  BY <1>1 DEF IInv, TypeOK
<1>3. \A v \in Users : (Current(v))' = Current(v)
  BY DEF Current
<1>4. UserInv'
  <2> SUFFICES ASSUME NEW v \in Users PROVE UserOK(v)'
    BY DEF UserInv
  <2>1. UserOK(v) /\ TypeOK
    BY DEF IInv, UserInv
  <2>2. usr[v].pc = "store" => Current(v) \in Futures
    BY <2>1, CurrentIs DEF UserOK
  <2>3. \A n \in 1..Tasks[v] : <<v, n>> \in Futures
    BY FutureOf
  <2> QED BY <1>3, <2>1, <2>2, <2>3 DEF UserOK
<1>5. WorkerInv'
  BY <1>1 DEF IInv, WorkerInv
<1>6. FreshInv'
  <2>1. NoId < nextId
    BY NoIdFact DEF IInv, TypeOK
  <2> QED BY <1>1, <2>1 DEF IInv, FreshInv
<1>7. PlaceInv'
  <2>1. \A x, y \in Workers : x # y => Apart(wrk'[x], wrk'[y])
    BY <1>0, <1>1 DEF IInv, PlaceInv, Apart
  <2>2. NoId \notin Items(push.buf)
    BY NoIdFact DEF IInv, TypeOK, PushType, Items
  <2>3. \A x \in Workers : /\ wrk'[x].slot \notin Items(push.buf)
                           /\ wrk'[x].id \notin Items(push.buf)
                           /\ wrk'[x].slot = wrk'[x].id => wrk'[x].slot = NoId
    BY <1>1, <2>2 DEF IInv, PlaceInv
  <2>4. \A v \in Users, x \in Workers :
          usr[v].id # NoId => usr[v].id # wrk'[x].slot /\ usr[v].id # wrk'[x].id
    BY <1>1 DEF IInv, PlaceInv
  <2> QED BY <2>1, <2>3, <2>4 DEF IInv, PlaceInv
<1>8. \A g \in Futures : /\ Known(g) => Known(g)'
                         /\ Stored(g)' => Stored(g) /\ g # wrk[w].run
                         /\ IdsOf(g)' = IdsOf(g)
  BY DEF Known, Stored, Current, IdsOf
<1>9. \A g \in Futures : /\ RunBy(g)' \subseteq RunBy(g)
                         /\ g # wrk[w].run => RunBy(g) \subseteq RunBy(g)'
  BY <1>1, NoFutureFact DEF RunBy
<1>10. KnownInv'
  <2>1. ASSUME NEW g \in Futures, IdsOf(g)' # {} \/ RunBy(g)' # {} PROVE Known(g)'
    BY <1>8, <1>9, <2>1 DEF IInv, KnownInv
  <2> QED BY <1>3, <2>1 DEF IInv, KnownInv
<1>11. OnceInv'
  <2>1. \A j \in DOMAIN pending : pending[j] # NoFuture
    BY NoFutureFact DEF IInv, TypeOK
  <2> QED BY <1>1, <2>1 DEF IInv, OnceInv
<1>12. LiveInv'
  BY <1>8, <1>9 DEF IInv, LiveInv
<1>13. OpenInv'
  <2> SUFFICES ASSUME push.open, ~push.flushed, ~WorkerKilled'
               PROVE  /\ \A x \in Workers : UpOK(wrk'[x])
                      /\ \A j \in DOMAIN pending : Carried(j)'
    BY DEF OpenInv
  <2>1. ~r.killed
    BY <1>1 DEF WorkerKilled
  <2>2. ~WorkerKilled
    BY <1>1, <2>1 DEF WorkerKilled
  <2>3. \A x \in Workers : UpOK(wrk'[x])
    BY <1>1, <2>1, <2>2 DEF IInv, OpenInv
  <2>4. ASSUME NEW j \in DOMAIN pending PROVE Carried(j)'
    <3>1. Carried(j)
      BY <2>2 DEF IInv, OpenInv
    <3> QED BY <1>0, <1>1, <2>1, <3>1 DEF Carried
  <2> QED BY <2>3, <2>4
<1>14. JoinInv'
  BY DEF IInv, JoinInv, AllWorkersOver
<1> QED BY <1>2, <1>4, <1>5, <1>6, <1>7, <1>10, <1>11, <1>12, <1>13, <1>14 DEF IInv

LEMMA Worker_runIInv == ASSUME IInv, NEW w \in Workers, Worker_run(w) PROVE IInv'
<1>1. wrk[w] \in WorkerType /\ WorkerOK(wrk[w]) /\ wrk[w].pc = "run"
      /\ UNCHANGED <<shut, nextId, pending, push, usr, own>>
  BY AtWorker DEF Worker_run
<1>2. /\ wrk[w].run \in Futures
      /\ fut \in [Futures -> {"none", "pending", "result", "exception", "cancelled"}]
  BY <1>1 DEF WorkerOK, WorkerType, IInv, TypeOK
<1>3. CASE /\ fut[wrk[w].run] = "pending"
           /\ \E outcome \in {"result", "exception"} : fut' = [fut EXCEPT ![wrk[w].run] = outcome]
           /\ wrk' = [wrk EXCEPT ![w].pc = "recv", ![w].run = NoFuture]
  <2> DEFINE r == [wrk[w] EXCEPT !.pc = "recv", !.run = NoFuture]
  <2>1. wrk' = [wrk EXCEPT ![w] = r]
    BY <1>3
  <2>2. /\ r \in WorkerType /\ WorkerOK(r) /\ r.run = NoFuture /\ r.id = NoId
        /\ r.slot = wrk[w].slot /\ r.killed = wrk[w].killed
        /\ UpOK(wrk[w]) => UpOK(r)
    BY <1>1 DEF WorkerType, WorkerPcs, WorkerOK, UpOK
  <2> HIDE DEF r
  <2>3. /\ fut' \in [Futures -> {"none", "pending", "result", "exception", "cancelled"}]
        /\ fut'[wrk[w].run] # "pending"
        /\ \A g \in Futures : /\ fut'[g] = "none" => fut[g] = "none"
                              /\ fut[g] = "none" => fut'[g] = "none"
                              /\ fut'[g] = "pending" => fut[g] = "pending"
    BY <1>2, <1>3
  <2> QED BY <1>1, <2>1, <2>2, <2>3, RunEnds
<1>4. CASE /\ fut[wrk[w].run] # "pending"
           /\ wrk' = [wrk EXCEPT ![w] = [Ended(@) EXCEPT !.killed = TRUE]]
           /\ UNCHANGED fut
  <2> DEFINE r == [Ended(wrk[w]) EXCEPT !.killed = TRUE]
  <2>1. wrk' = [wrk EXCEPT ![w] = r]
    BY <1>4
  <2>2. /\ r \in WorkerType /\ WorkerOK(r) /\ r.run = NoFuture /\ r.id = NoId
        /\ r.slot = NoId /\ r.killed
    <3>1. /\ Ended(wrk[w]) \in WorkerType /\ WorkerOK(Ended(wrk[w]))
          /\ Ended(wrk[w]).slot = NoId /\ Ended(wrk[w]).id = NoId
          /\ Ended(wrk[w]).run = NoFuture
      BY <1>1, EndedIs
    <3> QED BY <3>1 DEF WorkerType, WorkerOK
  <2> HIDE DEF r
  <2> QED BY <1>1, <1>2, <1>4, <2>1, <2>2, RunEnds
<1> QED BY <1>3, <1>4 DEF Worker_run

-----------------------------------------------------------------------------
(* Every step keeps the inductive invariant.                               *)
LEMMA NextIInv == IInv /\ [Next]_vars => IInv'
<1> SUFFICES ASSUME IInv, [Next]_vars PROVE IInv'
  OBVIOUS
<1>1. CASE UNCHANGED vars
  BY <1>1, OwnerMoves DEF vars, IInv, TypeOK, JoinInv
<1>2. ASSUME NEW u \in Users, SubmitStep(u) PROVE IInv'
  BY <1>2, Submit_checkIInv, Submit_idIInv, Submit_storeIInv, Submit_sendIInv DEF SubmitStep
<1>3. ASSUME NEW u \in Users, MapStep(u) \/ Map_abandoned(u) PROVE IInv'
  BY <1>3, MapIInv, Map_overIInv, Map_resultIInv, Map_endIInv DEF MapStep
<1>4. CASE ShutdownStep
  BY <1>4, Shutdown_cancelIInv, Shutdown_closeIInv, Shutdown_joinIInv DEF ShutdownStep
<1>5. ASSUME NEW w \in Workers, WorkerStep(w) PROVE IInv'
  BY <1>5, Worker_dialIInv, Worker_pipeIInv, Worker_registerIInv, Worker_recvIInv,
     Worker_popIInv, Worker_runIInv DEF WorkerStep
<1>6. ASSUME NEW w \in Workers, NngStep(w) PROVE IInv'
  BY <1>6, DeliverIInv, PipeRemovedIInv DEF NngStep
<1> QED BY <1>1, <1>2, <1>3, <1>4, <1>5, <1>6, CancelIInv, ShutdownIInv DEF Next

(* The inductive invariant holds in every reachable state.                 *)
LEMMA SpecIInv == Spec => []IInv
<1>1. IInv /\ [Next]_vars => IInv'
  BY NextIInv
<1> QED BY InitIInv, <1>1, PTL DEF Spec

-----------------------------------------------------------------------------
(* The pool, its users and its workers have the declared type.             *)
THEOREM TypeCorrect == Spec => []TypeOK
<1>1. IInv => TypeOK
  BY DEF IInv
<1> QED BY SpecIInv, <1>1, PTL

(* shutdown(wait=True) comes back to workers that have ended, and a future *)
(* that is not set is still in _pending.                                   *)
THEOREM JoinQuiet == Spec => []JoinedPoolIsQuiet
<1>1. IInv => JoinedPoolIsQuiet
  <2> SUFFICES ASSUME IInv, own.pc = "back", own.wait
               PROVE  /\ \A w \in Workers : wrk[w].pc = "over"
                      /\ \A f \in Futures : Stored(f) => IdsOf(f) # {}
    BY DEF JoinedPoolIsQuiet
  <2>1. \A w \in Workers : wrk[w].pc = "over"
    BY DEF IInv, JoinInv, AllWorkersOver
  <2>2. \A f \in Futures : RunBy(f) = {}
    BY <2>1, NoFutureFact DEF IInv, WorkerInv, WorkerOK, RunBy
  <2> QED BY <2>1, <2>2 DEF IInv, LiveInv
<1> QED BY SpecIInv, <1>1, PTL
(* No work item has two ways to be run, whatever is cancelled, killed,     *)
(* flushed or closed.  And until the PUSH socket is closed, a future that  *)
(* is not set is with one worker, or known under one id that is at one     *)
(* place, if no worker was killed and no map() made nng flush ids.         *)
THEOREM OnePath == Spec => []FutureHasOnePath
<1>1. IInv => FutureHasOnePath
  <2> DEFINE kept == push.open /\ ~WorkerKilled /\ ~push.flushed
  <2> SUFFICES ASSUME IInv, NEW f \in Futures
               PROVE  Paths(f) <= 1 /\ (kept /\ Stored(f) => Paths(f) = 1)
    BY DEF FutureHasOnePath
  <2> DEFINE A == Sending(f)
             B == RunBy(f)
             C == {p \in IdsOf(f) \X (1..Len(push.buf)) : p[2] \in Queued(p[1])}
             D == {p \in IdsOf(f) \X Workers : p[2] \in InHand(p[1])}
  <2>1. Paths(f) = Cardinality(A) + Cardinality(B) + Cardinality(C) + Cardinality(D)
    BY DEF Paths
  <2>2. Cardinality({}) = 0 /\ \A x : Cardinality({x}) = 1
    BY FS_EmptySet, FS_Singleton
  <2>3. f # NoFuture
    BY NoFutureFact
  <2>4. CASE B # {}
    <3>1. PICK w \in Workers : wrk[w].run = f
      BY <2>4 DEF RunBy
    <3>2. B = {w}
      BY <2>3, <3>1 DEF RunBy, IInv, OnceInv
    <3>3. IdsOf(f) = {}
      BY <3>1 DEF IdsOf, IInv, OnceInv
    <3>4. A = {} /\ C = {} /\ D = {}
      BY <3>3 DEF Sending
    <3> HIDE DEF A, B, C, D
    <3>5. Cardinality(A) = 0 /\ Cardinality(B) = 1 /\ Cardinality(C) = 0 /\ Cardinality(D) = 0
      BY <2>2, <3>2, <3>4
    <3> QED BY <2>1, <3>5
  <2>6. CASE B = {} /\ IdsOf(f) = {}
    <3>1. ~Stored(f)
      BY <2>6 DEF IInv, LiveInv
    <3>2. A = {} /\ C = {} /\ D = {}
      BY <2>6 DEF Sending
    <3> HIDE DEF A, B, C, D
    <3>3. Cardinality(A) = 0 /\ Cardinality(B) = 0 /\ Cardinality(C) = 0 /\ Cardinality(D) = 0
      BY <2>2, <2>6, <3>2
    <3>4. Paths(f) = 0
      BY <2>1, <3>3
    <3> QED BY <3>1, <3>4
  <2>5. CASE B = {} /\ IdsOf(f) # {}
    <3>1. PICK i \in DOMAIN pending : pending[i] = f
      BY <2>5 DEF IdsOf
    <3>2. IdsOf(f) = {i}
      BY <3>1 DEF IdsOf, IInv, OnceInv, Injective
    <3>3. i # NoId /\ (kept => Carried(i))
      BY NoIdFact DEF IInv, OpenInv, TypeOK
    <3>4. \A u \in Users : u \in A <=> usr[u].pc = "send" /\ usr[u].id = i
      BY <3>1, <3>2 DEF Sending, IInv, KnownInv
    <3>5. push.buf \in Seq(Nat) /\ DOMAIN push.buf = 1..Len(push.buf)
      BY DEF IInv, TypeOK, PushType
    <3>6. \A p : p \in C <=> \E n \in DOMAIN push.buf : p = <<i, n>> /\ push.buf[n] = i
      BY <3>2, <3>5 DEF Queued
    <3>7. \A p : p \in D <=> \E w \in Workers : p = <<i, w>> /\ (wrk[w].slot = i \/ wrk[w].id = i)
      BY <3>2 DEF InHand
    <3>8. A \subseteq Users
      BY DEF Sending
    <3> HIDE DEF A, B, C, D
    <3>9. CASE \E u \in Users : usr[u].pc = "send" /\ usr[u].id = i
      <4>1. PICK u \in Users : usr[u].pc = "send" /\ usr[u].id = i
        BY <3>9
      <4>2. A = {u}
        BY <3>3, <3>4, <3>8, <4>1 DEF IInv, PlaceInv
      <4>3. C = {}
        BY <3>6, <4>1 DEF IInv, PlaceInv, Items
      <4>4. D = {}
        BY <3>3, <3>7, <4>1 DEF IInv, PlaceInv
      <4>5. Cardinality(A) = 1 /\ Cardinality(B) = 0 /\ Cardinality(C) = 0 /\ Cardinality(D) = 0
        BY <2>2, <2>5, <4>2, <4>3, <4>4
      <4> QED BY <2>1, <4>5
    <3>10. CASE i \in Items(push.buf)
      <4>1. PICK n \in DOMAIN push.buf : push.buf[n] = i
        BY <3>10 DEF Items
      <4>2. A = {}
        BY <3>4, <3>8, <3>10 DEF IInv, PlaceInv
      <4>3. C = {<<i, n>>}
        BY <3>6, <4>1 DEF IInv, PlaceInv, Injective
      <4>4. D = {}
        BY <3>7, <3>10 DEF IInv, PlaceInv
      <4>5. Cardinality(A) = 0 /\ Cardinality(B) = 0 /\ Cardinality(C) = 1 /\ Cardinality(D) = 0
        BY <2>2, <2>5, <4>2, <4>3, <4>4
      <4> QED BY <2>1, <4>5
    <3>11. CASE \E w \in Workers : wrk[w].slot = i \/ wrk[w].id = i
      <4>1. PICK w \in Workers : wrk[w].slot = i \/ wrk[w].id = i
        BY <3>11
      <4>2. A = {}
        BY <3>3, <3>4, <3>8, <4>1 DEF IInv, PlaceInv
      <4>3. C = {}
        BY <3>6, <4>1 DEF IInv, PlaceInv, Items
      <4>4. ASSUME NEW x \in Workers, wrk[x].slot = i \/ wrk[x].id = i PROVE x = w
        BY <3>3, <4>1, <4>4 DEF IInv, PlaceInv, Apart
      <4>5. D = {<<i, w>>}
        BY <3>7, <4>1, <4>4
      <4>6. Cardinality(A) = 0 /\ Cardinality(B) = 0 /\ Cardinality(C) = 0 /\ Cardinality(D) = 1
        BY <2>2, <2>5, <4>2, <4>3, <4>5
      <4> QED BY <2>1, <4>6
    <3>12. CASE ~Carried(i)
      <4>1. A = {} /\ C = {} /\ D = {}
        BY <3>4, <3>6, <3>7, <3>8, <3>12 DEF Carried, Items
      <4>2. Cardinality(A) = 0 /\ Cardinality(B) = 0 /\ Cardinality(C) = 0 /\ Cardinality(D) = 0
        BY <2>2, <2>5, <4>1
      <4>3. Paths(f) = 0
        BY <2>1, <4>2
      <4> QED BY <3>3, <3>12, <4>3
    <3> QED BY <3>9, <3>10, <3>11, <3>12 DEF Carried
  <2> QED BY <2>4, <2>5, <2>6
<1> QED BY SpecIInv, <1>1, PTL
=============================================================================
