--------------------------- MODULE AsyncOpsProofs ---------------------------
(***************************************************************************)
(* What AsyncOps promises, for any number of operations, any reuse of      *)
(* their addresses and any mix of asend and arecv, with close() called     *)
(* from the loop, from another thread, or without a GIL.  The inductive    *)
(* invariant says where the coroutine that runs is (StageInv), which       *)
(* manager is live (MgrInv), what the dicts and queues hold (RegInv,       *)
(* QueueInv), who has taken a callback out of a dict (WayInv), and from    *)
(* this that an await does not lose its resolver (PendingInv) and that a   *)
(* success is real when the loop's own thread closes (LoopInv).            *)
(***************************************************************************)
EXTENDS AsyncOps, TLAPS

USE SlotsAssumption, KindsAssumption, ClosersAssumption, ReuseAssumption, SockBufAssumption

CoPcs == {"getmgr", "create", "prepare", "submit", "skip", "sync", "finish"}

\* A call and its aio agree, whatever else happens.
OpOK(o, a) ==
    /\ o.co = "free" => o.home = 0 /\ a.st = "new" /\ ~a.skip
    /\ o.co = "await" => a.st # "new"
    /\ o.co = "done" => a.st \in {"new", "idle"}
    /\ o.co # "done" => o.out = "none"
    /\ a.st # "new" => o.home # 0
    /\ a.st \in {"new", "busy"} => ~a.effect
    /\ a.st \in {"ended", "wake", "idle"} => (a.result = "ok" <=> a.effect)

OpInv == \A s \in Slots : OpOK(op[s], aio[s])

\* The coroutine that runs, and how far it is.
StageOK(o, a, p) ==
    /\ p \in {"getmgr", "create", "prepare", "submit"} => a.st = "new" /\ ~a.skip
    /\ p = "getmgr" <=> o.home = 0
    /\ p = "prepare" => o.held
    /\ p = "skip" => a.st \in IF a.skip THEN {"idle"} ELSE {"busy", "ended"}
    /\ p = "sync" => a.st = "idle"
    /\ p = "finish" => a.st \notin {"new", "busy"} /\ (o.cancel \/ o.fut # "pending")

StageInv ==
    /\ loop.pc \in CoPcs <=> loop.cur # NoOp
    /\ \A s \in Slots : op[s].co = "running" <=> s = loop.cur
    /\ loop.cur # NoOp => StageOK(op[loop.cur], aio[loop.cur], loop.pc)
    /\ loop.pc = "ready" => loop.mgr # 0

\* At most two managers, of which the cached one is live until close() has
\* taken its dict.
MgrInv ==
    /\ sock.mgr = 0 => made <= 1
    /\ sock.mgr # 0 => sock.mgr = made
    /\ close.pc # "done" => sock.mgr = made /\ made <= 1
    /\ \A m \in Mgrs : mgr[m].live <=> m = sock.mgr /\ close.pc # "resolve"
    /\ close.pc \in {"release", "resolve", "done"} => ~sock.handle
    /\ \A m \in Mgrs : made < m => mgr[m] = NewMgr
    /\ \A s \in Slots : op[s].home <= made

\* The dicts: an operation is in the one of its manager, from before its nng
\* call until its callback has run.
RegInv ==
    /\ \A m \in Mgrs : \A s \in mgr[m].reg :
          /\ op[s].home = m
          /\ mgr[m].live => op[s].held
          /\ op[s].co # "running" => aio[s].st # "new"
    /\ \A s \in Slots : aio[s].st \in {"busy", "ended"} => s \in mgr[op[s].home].reg
    /\ loop.pc = "submit" => loop.cur \in mgr[op[loop.cur].home].reg
    /\ loop.pc \in {"create", "prepare"} => loop.cur \notin mgr[op[loop.cur].home].reg

Injective(q) == \A i, j \in DOMAIN q : q[i] = q[j] => i = j

\* The queue of a live manager.
QueueInv ==
    \A m \in Mgrs : mgr[m].live =>
        /\ Injective(mgr[m].q.items)
        /\ \A s \in Range(mgr[m].q.items) :
              /\ s \in mgr[m].reg /\ aio[s].st \in {"wake", "idle"}
              /\ ~(loop.pc = "skip" /\ s = loop.cur)

\* A callback that left its dict is with the poll callback, with release(),
\* or scheduled: with one of them.
CbsOK(s) ==
    /\ loop.pc = "handle" /\ s \in Range(loop.batch)
    /\ op[s].held /\ aio[s].st \in {"wake", "idle"}
    /\ op[s].home # 0 /\ s \notin mgr[op[s].home].reg
    /\ s \notin close.snap /\ soon.set[s] = "none"

SnapOK(s) ==
    /\ close.pc = "resolve"
    /\ op[s].held /\ op[s].home # 0
    /\ close.by = "loop" => aio[s].st # "new"
    /\ ~(s = loop.cur /\ loop.pc \in {"create", "prepare"})

SoonOK(s) ==
    /\ close.by # "loop" /\ close.pc \in {"resolve", "done"}
    /\ s \notin close.snap
    /\ IF op[s].home = 0 THEN op[s].co = "free" ELSE ~mgr[op[s].home].live

WayInv ==
    /\ \A s \in loop.cbs : CbsOK(s)
    /\ \A s \in close.snap : SnapOK(s)
    /\ \A s \in Slots : soon.set[s] # "none" => SoonOK(s)

\* With a GIL, an operation that was submitted has a resolver until its
\* future is done.
Resolvable(s) ==
    \/ op[s].home # 0 /\ mgr[op[s].home].live /\ s \in mgr[op[s].home].reg
    \/ s \in loop.cbs \/ s \in close.snap \/ soon.set[s] # "none"

Submitted(s) == op[s].co = "await" \/ (s = loop.cur /\ loop.pc \in {"submit", "skip"})

PendingInv ==
    close.by # "freethread" =>
        /\ loop.pc \in {"create", "prepare"} => mgr[op[loop.cur].home].live
        /\ loop.pc = "prepare" => op[loop.cur].dict
        /\ \A s \in Slots : Submitted(s) /\ op[s].fut = "pending" => Resolvable(s)

\* When the loop's thread closes, it runs nothing else meanwhile.
FutureOK(o, a) ==
    /\ o.fut = "ok" => a.st = "idle" /\ a.result = "ok"
    /\ o.out = "ok" => a.effect
    /\ o.out \notin {"typeerror", "internal"}

LoopInv ==
    close.by = "loop" =>
        /\ close.pc \in {"nngclose", "clearid", "release", "resolve"} <=> loop.pc = "closing"
        /\ \A s \in Slots : FutureOK(op[s], aio[s])

IInv == /\ TypeOK /\ OpInv /\ StageInv /\ MgrInv /\ RegInv /\ QueueInv /\ WayInv
        /\ PendingInv /\ LoopInv

-----------------------------------------------------------------------------
(* Types.                                                                  *)

Cos  == {"free", "running", "await", "done"}
Ks   == {"send", "recv"}
Futs == {"pending", "ok", "cancelled"} \cup Errors
Outs == {"none", "ok", "cancelled", "typeerror", "internal"} \cup Errors
Sts  == {"new", "busy", "ended", "wake", "idle"}
Rs   == {"ok"} \cup Errors
Ways == {"none", "ok"} \cup Errors

(* The fields of the records, with their sets named.                       *)
LEMMA Types ==
    /\ OpType = [co : Cos, kind : Ks, home : {0} \cup Mgrs, dict : BOOLEAN, held : BOOLEAN,
                 fut : Futs, cancel : BOOLEAN, out : Outs]
    /\ AioType = [st : Sts, result : Rs, effect : BOOLEAN, skip : BOOLEAN]
    /\ MgrType = [live : BOOLEAN, reg : SUBSET Slots, reader : BOOLEAN, q : QueueType(Slots)]
    /\ LoopType = [pc : LoopPcs, cur : Slots \cup {NoOp}, mgr : {0} \cup Mgrs,
                   batch : Seq(Slots), cbs : SUBSET Slots]
BY DEF OpType, AioType, MgrType, LoopType, Cos, Ks, Futs, Outs, Sts, Rs

(* An operation is replaced, the others stay.                              *)
LEMMA OpUpdate ==
    ASSUME TypeOK, NEW s \in Slots, NEW o \in OpType, op' = [op EXCEPT ![s] = o]
    PROVE  /\ op' \in [Slots -> OpType]
           /\ op'[s] = o
           /\ \A t \in Slots \ {s} : op'[t] = op[t]
BY DEF TypeOK

(* An aio is replaced, the others stay.                                    *)
LEMMA AioUpdate ==
    ASSUME TypeOK, NEW s \in Slots, NEW a \in AioType, aio' = [aio EXCEPT ![s] = a]
    PROVE  /\ aio' \in [Slots -> AioType]
           /\ aio'[s] = a
           /\ \A t \in Slots \ {s} : aio'[t] = aio[t]
BY DEF TypeOK

(* A manager is replaced, the other stays.                                 *)
LEMMA MgrUpdate ==
    ASSUME TypeOK, NEW m \in Mgrs, NEW g \in MgrType, mgr' = [mgr EXCEPT ![m] = g]
    PROVE  /\ mgr' \in [Mgrs -> MgrType]
           /\ mgr'[m] = g
           /\ \A n \in Mgrs \ {m} : mgr'[n] = mgr[n]
BY DEF TypeOK

(* Idle states.                                                            *)
LEMMA NewTypes ==
    /\ NewOp \in OpType /\ NewAio \in AioType /\ Selecting \in LoopType
    /\ EmptyQueue \in QueueType(Slots) /\ NewMgr \in MgrType
<1>1. <<>> \in Seq(Slots)
  OBVIOUS
<1>2. NewOp \in OpType /\ NewAio \in AioType
  BY Types DEF NewOp, NewAio, Cos, Ks, Futs, Outs, Sts, Rs
<1>3. Selecting \in LoopType
  BY <1>1, Types DEF Selecting, LoopPcs
<1>4. EmptyQueue \in QueueType(Slots)
  BY <1>1 DEF EmptyQueue, QueueType
<1>5. NewMgr \in MgrType
  BY <1>4, Types DEF NewMgr
<1> QED BY <1>2, <1>3, <1>4, <1>5

(* What the type invariant says of one slot and of the loop.               *)
LEMMA At1 ==
    ASSUME IInv
    PROVE  /\ \A s \in Slots : op[s] \in OpType /\ aio[s] \in AioType /\ OpOK(op[s], aio[s])
           /\ \A m \in Mgrs : mgr[m] \in MgrType
           /\ loop \in LoopType
           /\ loop.cur # NoOp => loop.cur \in Slots
BY Types DEF IInv, TypeOK, OpInv

(* push_back puts an id that is not queued behind the others.              *)
LEMMA AppendQueue ==
    ASSUME NEW q \in Seq(Slots), NEW s \in Slots, Injective(q), s \notin Range(q)
    PROVE  /\ Append(q, s) \in Seq(Slots)
           /\ Range(Append(q, s)) = Range(q) \cup {s}
           /\ Injective(Append(q, s))
<1> DEFINE r == Append(q, s)
<1>1. /\ r \in Seq(Slots) /\ Len(r) = Len(q) + 1 /\ Len(q) \in Nat
      /\ DOMAIN q = 1..Len(q) /\ DOMAIN r = 1..(Len(q) + 1)
      /\ \A i \in 1..Len(q) : r[i] = q[i]
      /\ r[Len(q) + 1] = s
  OBVIOUS
<1> HIDE DEF r
<1>2. Range(r) = Range(q) \cup {s}
  <2>1. ASSUME NEW x \in Range(r) PROVE x \in Range(q) \cup {s}
    BY <1>1, <2>1 DEF Range
  <2>2. ASSUME NEW x \in Range(q) PROVE x \in Range(r)
    BY <1>1, <2>2 DEF Range
  <2>3. s \in Range(r)
    BY <1>1 DEF Range
  <2> QED BY <2>1, <2>2, <2>3
<1>3. Injective(r)
  <2>1. SUFFICES ASSUME NEW i \in 1..(Len(q) + 1), NEW j \in 1..(Len(q) + 1), r[i] = r[j]
                 PROVE  i = j
    BY <1>1 DEF Injective
  <2>2. \A k \in 1..Len(q) : q[k] # s
    BY <1>1 DEF Range
  <2>3. CASE i = Len(q) + 1 /\ j = Len(q) + 1
    BY <2>3
  <2>4. CASE i \in 1..Len(q) /\ j \in 1..Len(q)
    BY <1>1, <2>1, <2>4 DEF Injective
  <2>5. CASE i \in 1..Len(q) /\ j = Len(q) + 1
    BY <1>1, <2>1, <2>2, <2>5
  <2>6. CASE i = Len(q) + 1 /\ j \in 1..Len(q)
    BY <1>1, <2>1, <2>2, <2>6
  <2> QED BY <1>1, <2>3, <2>4, <2>5, <2>6
<1> QED BY <1>1, <1>2, <1>3 DEF r

(* What is left of a batch.                                                *)
LEMMA TailBatch ==
    ASSUME NEW q \in Seq(Slots), q # <<>>
    PROVE  /\ Head(q) \in Slots /\ Tail(q) \in Seq(Slots)
           /\ \A x \in Range(q) : x # Head(q) => x \in Range(Tail(q))
<1> DEFINE r == Tail(q)
<1>1. /\ r \in Seq(Slots) /\ Len(q) \in Nat \ {0} /\ Head(q) \in Slots /\ Head(q) = q[1]
      /\ DOMAIN q = 1..Len(q) /\ DOMAIN r = 1..(Len(q) - 1)
      /\ \A i \in 1..(Len(q) - 1) : r[i] = q[i + 1]
  OBVIOUS
<1> HIDE DEF r
<1>2. ASSUME NEW i \in 1..Len(q), q[i] # Head(q) PROVE q[i] \in Range(r)
  <2>1. i - 1 \in DOMAIN r /\ r[i - 1] = q[i]
    BY <1>1, <1>2
  <2> QED BY <2>1 DEF Range
<1>3. \A x \in Range(q) : x # Head(q) => x \in Range(r)
  BY <1>1, <1>2 DEF Range
<1> QED BY <1>1, <1>3 DEF r

-----------------------------------------------------------------------------
(* A step that moves calls and aios along but leaves the dicts, the queued *)
(* ids and the taken callbacks where they are.                             *)

DictSame ==
    /\ \A m \in Mgrs : /\ mgr'[m].live = mgr[m].live
                       /\ mgr'[m].reg = mgr[m].reg
                       /\ made < m => mgr'[m] = mgr[m]
    /\ made' = made /\ soon'.set = soon.set

MgrSame == DictSame /\ \A m \in Mgrs : mgr'[m].q.items = mgr[m].q.items

Early == {"open", "nngclose", "clearid", "release"}

CloseSame ==
    /\ close'.by = close.by /\ close'.snap = close.snap /\ sock'.mgr = sock.mgr
    /\ ~sock.handle => ~sock'.handle
    /\ close'.pc # close.pc => /\ close.pc \in Early /\ close'.pc \in Early
                               /\ close'.pc = "release" => ~sock'.handle
    /\ close.by = "loop" =>
          (close'.pc \in {"nngclose", "clearid", "release", "resolve"} <=> loop'.pc = "closing")

LoopSame ==
    /\ loop'.cbs = loop.cbs
    /\ loop.cbs # {} => loop'.pc = loop.pc /\ loop'.batch = loop.batch
    /\ loop'.pc = "submit" => loop.pc = "submit" /\ loop'.cur = loop.cur
    /\ loop'.pc = "skip" => loop.pc \in {"submit", "skip"} /\ loop'.cur = loop.cur
    /\ loop'.pc \in {"create", "prepare"} =>
          /\ loop.pc \in {"create", "prepare"} /\ loop'.cur = loop.cur
          /\ loop'.pc = "prepare" /\ close.by # "freethread" => op'[loop.cur].dict

SlotSame(t) ==
    /\ OpOK(op'[t], aio'[t])
    /\ op'[t].home = op[t].home
    /\ op[t].held => op'[t].held
    /\ aio[t].st \in {"wake", "idle"} => aio'[t].st \in {"wake", "idle"}
    /\ aio[t].st # "new" => aio'[t].st # "new"
    /\ aio'[t].st \in {"busy", "ended"} => aio[t].st \in {"busy", "ended"} \/ t \in mgr[op[t].home].reg
    /\ aio'[t].st = "new" /\ op'[t].co # "running" => op[t].co # "running" \/ t \notin mgr[op[t].home].reg
    /\ op[t].co = "free" => op'[t].co = "free" \/ soon.set[t] = "none"
    /\ (op'[t].co = "await" \/ (t = loop'.cur /\ loop'.pc \in {"submit", "skip"})) /\ op'[t].fut = "pending"
          => Submitted(t) /\ op[t].fut = "pending"
    /\ close.by = "loop" => FutureOK(op'[t], aio'[t])

(* Such a step keeps the invariant, if it is right about the queues ...    *)
LEMMA KeepDicts ==
    ASSUME IInv, TypeOK', StageInv', QueueInv', DictSame, CloseSame, LoopSame, \A t \in Slots : SlotSame(t)
    PROVE  IInv'
<1>h. \A t \in Slots : op[t].home \in {0} \cup Mgrs /\ op'[t].home = op[t].home
  BY At1, Types DEF SlotSame
<1>r. \A m \in Mgrs : mgr[m].reg \subseteq Slots
  BY At1, Types
<1>z. ASSUME NEW t \in Slots, NEW m \in Mgrs, t \in mgr[m].reg PROVE op[t].home = m
  BY <1>z DEF IInv, RegInv
<1>1. OpInv'
  BY DEF OpInv, SlotSame
<1>2. MgrInv'
  <2>1. sock'.mgr = sock.mgr /\ made' = made
    BY DEF CloseSame, DictSame
  <2>2. close'.pc = "resolve" <=> close.pc = "resolve"
    BY DEF CloseSame, Early
  <2>3. close'.pc = "done" <=> close.pc = "done"
    BY DEF CloseSame, Early
  <2>4. close'.pc \in {"release", "resolve", "done"} => ~sock'.handle
    BY DEF CloseSame, Early, IInv, MgrInv
  <2>5. \A m \in Mgrs : mgr'[m].live <=> m = sock'.mgr /\ close'.pc # "resolve"
    BY <2>1, <2>2 DEF DictSame, IInv, MgrInv
  <2>6. \A m \in Mgrs : made' < m => mgr'[m] = NewMgr
    BY <2>1 DEF DictSame, IInv, MgrInv
  <2> QED BY <1>h, <2>1, <2>3, <2>4, <2>5, <2>6 DEF IInv, MgrInv
<1>3. RegInv'
  <2>1. ASSUME NEW m \in Mgrs, NEW t \in mgr'[m].reg
        PROVE  /\ op'[t].home = m
               /\ mgr'[m].live => op'[t].held
               /\ op'[t].co # "running" => aio'[t].st # "new"
    <3>1. t \in mgr[m].reg /\ t \in Slots /\ op[t].home = m /\ mgr'[m].live = mgr[m].live
      BY <1>r, <1>z, <2>1 DEF DictSame
    <3>2. SlotSame(t)
      BY <3>1
    <3> QED BY <3>1, <3>2 DEF SlotSame, IInv, RegInv
  <2>2. ASSUME NEW t \in Slots, aio'[t].st \in {"busy", "ended"} PROVE t \in mgr'[op'[t].home].reg
    <3>1. SlotSame(t)
      OBVIOUS
    <3>2. t \in mgr[op[t].home].reg
      BY <2>2, <3>1 DEF SlotSame, IInv, RegInv
    <3>3. op[t].home \in Mgrs
      <4>1. op'[t].home # 0
        BY <2>2, <3>1 DEF SlotSame, OpOK
      <4> QED BY <1>h, <4>1
    <3> QED BY <1>h, <3>2, <3>3 DEF DictSame
  <2>3. loop'.pc \in {"submit", "create", "prepare"} =>
           /\ loop.cur \in Slots /\ loop'.cur = loop.cur
           /\ op[loop.cur].home \in Mgrs /\ op'[loop.cur].home = op[loop.cur].home
           /\ mgr'[op[loop.cur].home].reg = mgr[op[loop.cur].home].reg
    <3>1. SUFFICES ASSUME loop'.pc \in {"submit", "create", "prepare"}
                   PROVE  loop.cur \in Slots /\ loop'.cur = loop.cur /\ op[loop.cur].home # 0
      BY <1>h DEF DictSame
    <3>2. loop.cur # NoOp /\ loop'.cur = loop.cur /\ loop.pc # "getmgr"
      BY <3>1 DEF LoopSame, IInv, StageInv, CoPcs
    <3> QED BY <3>2, At1 DEF IInv, StageInv, StageOK
  <2>4. /\ loop'.pc = "submit" => loop'.cur \in mgr'[op'[loop'.cur].home].reg
        /\ loop'.pc \in {"create", "prepare"} => loop'.cur \notin mgr'[op'[loop'.cur].home].reg
    BY <2>3 DEF LoopSame, IInv, RegInv
  <2> QED BY <2>1, <2>2, <2>4 DEF RegInv
<1>5. WayInv'
  <2>1. ASSUME NEW t \in loop'.cbs PROVE CbsOK(t)'
    <3>1. t \in loop.cbs /\ CbsOK(t) /\ t \in Slots
      BY <2>1, At1, Types DEF LoopSame, IInv, WayInv
    <3>2. SlotSame(t) /\ op[t].home \in Mgrs
      BY <1>h, <3>1 DEF CbsOK
    <3> QED BY <3>1, <3>2 DEF CbsOK, SlotSame, LoopSame, DictSame, CloseSame
  <2>2. ASSUME NEW t \in close'.snap PROVE SnapOK(t)'
    <3>1. t \in close.snap /\ SnapOK(t) /\ t \in Slots
      BY <2>2 DEF CloseSame, IInv, WayInv, TypeOK
    <3>2. close'.pc = "resolve"
      BY <3>1 DEF CloseSame, SnapOK, Early
    <3> QED BY <3>1, <3>2 DEF SnapOK, SlotSame, CloseSame, LoopSame
  <2>3. ASSUME NEW t \in Slots, soon'.set[t] # "none" PROVE SoonOK(t)'
    <3>1. soon.set[t] # "none" /\ SoonOK(t)
      BY <2>3 DEF DictSame, IInv, WayInv
    <3>2. close'.pc = close.pc /\ close'.by = close.by /\ close'.snap = close.snap
      BY <3>1 DEF CloseSame, SoonOK, Early
    <3>3. op[t].home # 0 => mgr'[op[t].home].live = mgr[op[t].home].live
      BY <1>h DEF DictSame
    <3> QED BY <1>h, <3>1, <3>2, <3>3 DEF SoonOK, SlotSame
  <2> QED BY <2>1, <2>2, <2>3 DEF WayInv
<1>6. PendingInv'
  <2>1. SUFFICES ASSUME close.by # "freethread"
                 PROVE  /\ loop'.pc \in {"create", "prepare"} => mgr'[op'[loop'.cur].home].live
                        /\ loop'.pc = "prepare" => op'[loop'.cur].dict
                        /\ \A t \in Slots : Submitted(t)' /\ op'[t].fut = "pending" => Resolvable(t)'
    BY DEF PendingInv, CloseSame
  <2>2. ASSUME loop'.pc \in {"create", "prepare"}
        PROVE  mgr'[op'[loop'.cur].home].live /\ (loop'.pc = "prepare" => op'[loop'.cur].dict)
    <3>1. loop.pc \in {"create", "prepare"} /\ loop'.cur = loop.cur /\ mgr[op[loop.cur].home].live
      BY <2>1, <2>2 DEF LoopSame, IInv, PendingInv
    <3>2. loop.cur \in Slots /\ op[loop.cur].home # 0
      BY <3>1, At1 DEF IInv, StageInv, StageOK, CoPcs
    <3> QED BY <1>h, <2>1, <2>2, <3>1, <3>2 DEF LoopSame, DictSame
  <2>3. ASSUME NEW t \in Slots, Submitted(t)', op'[t].fut = "pending" PROVE Resolvable(t)'
    <3>1. Submitted(t) /\ op[t].fut = "pending"
      BY <2>3 DEF SlotSame, Submitted
    <3>2. Resolvable(t)
      BY <2>1, <3>1 DEF IInv, PendingInv
    <3> QED BY <1>h, <3>2 DEF Resolvable, DictSame, LoopSame, CloseSame
  <2> QED BY <2>2, <2>3
<1>7. LoopInv'
  BY DEF LoopInv, CloseSame, SlotSame
<1> QED BY <1>1, <1>2, <1>3, <1>5, <1>6, <1>7 DEF IInv

(* ... and it is when it adds nothing to them.                             *)
LEMMA QueuedSame ==
    ASSUME IInv, LoopSame, \A t \in Slots : SlotSame(t),
           NEW m \in Mgrs, mgr[m].live, NEW t \in Range(mgr[m].q.items)
    PROVE  /\ t \in mgr[m].reg /\ t \in Slots
           /\ aio[t].st \in {"wake", "idle"} /\ aio'[t].st \in {"wake", "idle"}
           /\ ~(loop'.pc = "skip" /\ t = loop'.cur)
<1>1. mgr[m].reg \subseteq Slots
  BY At1, Types
<1>2. t \in mgr[m].reg /\ t \in Slots /\ aio[t].st \in {"wake", "idle"} /\ ~(loop.pc = "skip" /\ t = loop.cur)
  BY <1>1 DEF IInv, QueueInv
<1>3. aio'[t].st \in {"wake", "idle"}
  BY <1>2 DEF SlotSame
<1>4. loop.pc = "submit" => t # loop.cur
  BY <1>2, SlotsAssumption DEF IInv, StageInv, StageOK
<1> QED BY <1>2, <1>3, <1>4 DEF LoopSame

LEMMA KeepStep ==
    ASSUME IInv, TypeOK', StageInv', MgrSame, CloseSame, LoopSame, \A t \in Slots : SlotSame(t)
    PROVE  IInv'
<1>1. QueueInv'
  <2>1. SUFFICES ASSUME NEW m \in Mgrs, mgr[m].live, NEW t \in Range(mgr[m].q.items)
                 PROVE  /\ aio'[t].st \in {"wake", "idle"}
                        /\ ~(loop'.pc = "skip" /\ t = loop'.cur)
    BY DEF MgrSame, DictSame, IInv, QueueInv
  <2> QED BY <2>1, QueuedSame
<1> QED BY <1>1, KeepDicts DEF MgrSame, DictSame

(* A slot that the step does not touch.                                    *)
LEMMA Untouched ==
    ASSUME IInv, NEW t \in Slots, op'[t] = op[t], aio'[t] = aio[t], LoopSame
    PROVE  SlotSame(t)
<1>1. OpOK(op[t], aio[t]) /\ (close.by = "loop" => FutureOK(op[t], aio[t]))
  BY DEF IInv, OpInv, LoopInv
<1>2. aio[t].st \in {"busy", "ended"} => t \in mgr[op[t].home].reg
  BY DEF IInv, RegInv
<1>3. op[t].co = "await" \/ (t = loop'.cur /\ loop'.pc \in {"submit", "skip"}) => Submitted(t)
  BY DEF LoopSame, Submitted
<1> QED BY <1>1, <1>2, <1>3 DEF SlotSame

\* Only operation s and its aio change.
Others(s) ==
    /\ op' \in [Slots -> OpType] /\ aio' \in [Slots -> AioType]
    /\ \A t \in Slots \ {s} : op'[t] = op[t] /\ aio'[t] = aio[t]

(* A step of one call that keeps to the frame.                             *)
LEMMA OneSlot ==
    ASSUME IInv, NEW s \in Slots, Others(s), loop' \in LoopType, StageInv',
           UNCHANGED <<sock, made, mgr, soon, close>>, LoopSame, SlotSame(s),
           loop'.pc = "closing" <=> loop.pc = "closing"
    PROVE  IInv'
<1>1. TypeOK'
  BY DEF Others, IInv, TypeOK
<1>2. MgrSame
  BY DEF MgrSame, DictSame
<1>3. CloseSame
  BY DEF CloseSame, IInv, LoopInv
<1>4. \A t \in Slots : SlotSame(t)
  BY Untouched DEF Others
<1> QED BY <1>1, <1>2, <1>3, <1>4, KeepStep

(* The stage of the coroutine that runs, when it stays.                    *)
LEMMA StageStays ==
    ASSUME IInv, NEW s \in Slots, Others(s), loop' = loop, op'[s].co = op[s].co,
           s = loop.cur => StageOK(op'[s], aio'[s], loop.pc)
    PROVE  StageInv'
<1>1. \A t \in Slots : op'[t].co = op[t].co
  BY DEF Others
<1>2. loop.cur # NoOp => StageOK(op'[loop.cur], aio'[loop.cur], loop.pc)
  BY At1 DEF Others, IInv, StageInv
<1> QED BY <1>1, <1>2 DEF IInv, StageInv

(* ... when it goes on ...                                                 *)
LEMMA StageMoves ==
    ASSUME IInv, NEW s \in Slots, Others(s), s = loop.cur, op'[s].co = "running",
           loop'.cur = s, loop'.pc \in CoPcs, StageOK(op'[s], aio'[s], loop'.pc)
    PROVE  StageInv'
<1>1. \A t \in Slots : op'[t].co = "running" <=> t = s
  BY DEF Others, IInv, StageInv
<1>2. loop'.pc # "ready" /\ s # NoOp
  BY SlotsAssumption DEF CoPcs
<1> QED BY <1>1, <1>2 DEF StageInv

(* ... when it starts or resumes ...                                       *)
LEMMA StageEnters ==
    ASSUME IInv, NEW s \in Slots, Others(s), loop.pc = "select", op'[s].co = "running",
           loop'.cur = s, loop'.pc \in CoPcs, StageOK(op'[s], aio'[s], loop'.pc)
    PROVE  StageInv'
<1>1. loop.cur = NoOp
  BY DEF IInv, StageInv, CoPcs
<1>2. \A t \in Slots : op'[t].co = "running" <=> t = s
  BY <1>1, SlotsAssumption DEF Others, IInv, StageInv
<1>3. loop'.pc # "ready" /\ s # NoOp
  BY SlotsAssumption DEF CoPcs
<1> QED BY <1>2, <1>3 DEF StageInv

(* ... and when it awaits or returns.                                      *)
LEMMA StageLeaves ==
    ASSUME IInv, NEW s \in Slots, Others(s), s = loop.cur, op'[s].co # "running",
           loop' = Selecting
    PROVE  StageInv'
<1>1. \A t \in Slots : op'[t].co # "running"
  BY DEF Others, IInv, StageInv
<1>2. loop'.pc = "select" /\ loop'.cur = NoOp
  BY DEF Selecting
<1> QED BY <1>1, <1>2, SlotsAssumption DEF StageInv, CoPcs

(* While a coroutine runs the poll callback has nothing in hand.           *)
LEMMA CoLoop ==
    ASSUME IInv, loop.pc # "handle"
    PROVE  loop.cbs = {}
BY DEF IInv, WayInv, CbsOK

-----------------------------------------------------------------------------
(* The coroutine.                                                          *)

(* asend or arecv is called.                                               *)
LEMMA CallStep == ASSUME IInv, NEW s \in Slots, NEW k \in Kinds, Call(s, k) PROVE IInv'
<1> DEFINE n == [op[s] EXCEPT !.co = "running", !.kind = k]
<1>0. /\ op[s] \in OpType /\ aio[s] \in AioType /\ OpOK(op[s], aio[s]) /\ loop \in LoopType
      /\ loop.cbs = {}
  BY At1, CoLoop DEF Call, At
<1>1. n \in OpType
  BY <1>0, Types, KindsAssumption DEF Cos, Ks
<1>2. /\ n.co = "running" /\ n.home = op[s].home /\ n.held = op[s].held /\ n.fut = op[s].fut
      /\ n.out = op[s].out
  BY <1>0, Types
<1>3. /\ op' = [op EXCEPT ![s] = n] /\ aio' = aio
      /\ loop.pc = "select" /\ op[s].co = "free" /\ sock.handle
      /\ UNCHANGED <<sock, made, mgr, soon, close>>
  BY DEF Call, At, IInv, TypeOK
<1>4. /\ loop' \in LoopType /\ loop'.pc = "getmgr" /\ loop'.cur = s /\ loop'.cbs = loop.cbs
  BY <1>0, Types DEF Call, LoopPcs
<1> HIDE DEF n
<1>5. Others(s) /\ op'[s] = n /\ aio'[s] = aio[s]
  BY <1>1, <1>3, OpUpdate DEF Others, IInv, TypeOK
<1>6. LoopSame
  BY <1>0, <1>4 DEF LoopSame
<1>7. StageInv'
  BY <1>0, <1>2, <1>3, <1>4, <1>5, StageEnters DEF OpOK, StageOK, CoPcs
<1>8. soon.set[s] = "none"
  BY <1>3 DEF IInv, WayInv, SoonOK, MgrInv
<1>9. close.by = "loop" => FutureOK(op[s], aio[s])
  BY DEF IInv, LoopInv
<1>10. SlotSame(s)
  BY <1>0, <1>2, <1>3, <1>4, <1>5, <1>8, <1>9 DEF SlotSame, OpOK, FutureOK
<1> QED BY <1>3, <1>4, <1>5, <1>6, <1>7, <1>10, OneSlot

(* create_aio_for_socket.                                                  *)
LEMMA CreateAioStep == ASSUME IInv, CreateAio PROVE IInv'
<1> DEFINE s == loop.cur
           v == mgr[op[s].home].live
           n == [op[s] EXCEPT !.dict = v, !.held = TRUE]
<1>0. /\ s \in Slots /\ op[s] \in OpType /\ aio[s] \in AioType /\ OpOK(op[s], aio[s])
      /\ loop \in LoopType /\ loop.cbs = {} /\ loop.pc = "create"
      /\ StageOK(op[s], aio[s], "create") /\ op[s].co = "running"
  BY At1, CoLoop DEF CreateAio, At, IInv, StageInv, CoPcs
<1>1. n \in OpType
  <2>1. op[s].home \in Mgrs
    BY <1>0, Types DEF StageOK
  <2>2. v \in BOOLEAN
    BY <2>1, At1, Types
  <2> HIDE DEF v
  <2> QED BY <1>0, <2>2, Types
<1>2. /\ n.co = op[s].co /\ n.home = op[s].home /\ n.held /\ n.fut = op[s].fut
      /\ n.out = op[s].out /\ n.dict = v
  BY <1>0, Types
<1>3. /\ op' = [op EXCEPT ![s] = n] /\ aio' = aio
      /\ UNCHANGED <<sock, made, mgr, soon, close>>
  BY <1>0 DEF CreateAio, IInv, TypeOK
<1>4. /\ loop' \in LoopType /\ loop'.pc = "prepare" /\ loop'.cur = loop.cur /\ loop'.cbs = loop.cbs
  BY <1>0, Types DEF CreateAio, Goto, LoopPcs
<1>a. close.by # "freethread" => v
  BY <1>0 DEF IInv, PendingInv
<1> HIDE DEF n, s
<1>5. Others(s) /\ op'[s] = n /\ aio'[s] = aio[s]
  BY <1>0, <1>1, <1>3, OpUpdate DEF Others, IInv, TypeOK
<1>6. LoopSame
  BY <1>0, <1>2, <1>4, <1>5, <1>a DEF LoopSame, s
<1>7. StageInv'
  <2>1. StageOK(n, aio[s], "prepare")
    BY <1>0, <1>2 DEF StageOK
  <2> QED BY <1>0, <1>2, <1>4, <1>5, <2>1, StageMoves DEF CoPcs, s
<1>9. close.by = "loop" => FutureOK(op[s], aio[s])
  BY <1>0 DEF IInv, LoopInv
<1>10. SlotSame(s)
  BY <1>0, <1>2, <1>4, <1>5, <1>9 DEF SlotSame, OpOK, FutureOK, StageOK
<1> QED BY <1>0, <1>3, <1>4, <1>5, <1>6, <1>7, <1>10, OneSlot

(* nng_socket_send, nng_socket_recv.                                       *)
LEMMA SubmitStep == ASSUME IInv, Submit PROVE IInv'
<1> DEFINE s == loop.cur
           a == IF sock.nng THEN [aio[s] EXCEPT !.st = "busy"]
                ELSE [aio[s] EXCEPT !.st = "ended", !.result = "closed"]
<1>0. /\ s \in Slots /\ op[s] \in OpType /\ aio[s] \in AioType /\ OpOK(op[s], aio[s])
      /\ loop \in LoopType /\ loop.cbs = {} /\ loop.pc = "submit"
      /\ StageOK(op[s], aio[s], "submit") /\ op[s].co = "running"
      /\ s \in mgr[op[s].home].reg
  BY At1, CoLoop DEF Submit, At, IInv, StageInv, CoPcs, RegInv
<1>1. a \in AioType
  BY <1>0, Types DEF Sts, Rs, Errors
<1>2. /\ sock.nng => a.st = "busy" /\ a.result = aio[s].result
      /\ ~sock.nng => a.st = "ended" /\ a.result = "closed"
      /\ a.effect = aio[s].effect /\ a.skip = aio[s].skip
  BY <1>0, Types
<1>3. /\ aio' = [aio EXCEPT ![s] = a] /\ op' = op
      /\ UNCHANGED <<sock, made, mgr, soon, close>>
  BY <1>0 DEF Submit, IInv, TypeOK
<1>4. /\ loop' \in LoopType /\ loop'.pc = "skip" /\ loop'.cur = loop.cur /\ loop'.cbs = loop.cbs
  BY <1>0, Types DEF Submit, Goto, LoopPcs
<1> HIDE DEF a, s
<1>5. Others(s) /\ op'[s] = op[s] /\ aio'[s] = a
  BY <1>0, <1>1, <1>3, AioUpdate DEF Others, IInv, TypeOK
<1>6. LoopSame
  BY <1>0, <1>4 DEF LoopSame
<1>7. StageInv'
  <2>1. StageOK(op[s], a, "skip")
    BY <1>0, <1>2 DEF StageOK
  <2> QED BY <1>0, <1>4, <1>5, <2>1, StageMoves DEF CoPcs, s
<1>9. close.by = "loop" => FutureOK(op[s], aio[s])
  BY <1>0 DEF IInv, LoopInv
<1>10. SlotSame(s)
  BY <1>0, <1>2, <1>4, <1>5, <1>9 DEF SlotSame, OpOK, FutureOK, StageOK, Submitted, s
<1> QED BY <1>0, <1>3, <1>4, <1>5, <1>6, <1>7, <1>10, OneSlot

(* The coroutine leaves its frame.                                         *)
LEMMA ReturnStep ==
    ASSUME IInv, NEW s \in Slots, s = loop.cur, NEW o \in Outs, Return(s, o),
           aio[s].st \in {"new", "idle"}, aio[s].st = "new" => s \notin mgr[op[s].home].reg,
           close.by = "loop" => (o = "ok" => aio[s].effect) /\ o \notin {"typeerror", "internal"},
           UNCHANGED <<sock, made, mgr, aio, soon, close>>
    PROVE  IInv'
<1> DEFINE n == [op[s] EXCEPT !.co = "done", !.out = o]
<1>0. /\ op[s] \in OpType /\ aio[s] \in AioType /\ OpOK(op[s], aio[s]) /\ op[s].co = "running"
      /\ loop.pc \in CoPcs
  BY At1, SlotsAssumption DEF IInv, StageInv
<1>a. loop.cbs = {}
  BY <1>0, CoLoop DEF CoPcs
<1>1. n \in OpType
  BY <1>0, Types DEF Cos
<1>2. /\ n.co = "done" /\ n.home = op[s].home /\ n.held = op[s].held /\ n.fut = op[s].fut /\ n.out = o
  BY <1>0, Types
<1>3. op' = [op EXCEPT ![s] = n] /\ loop' = Selecting
  BY DEF Return, IInv, TypeOK
<1>4. loop' \in LoopType /\ loop'.pc = "select" /\ loop'.cur = NoOp /\ loop'.cbs = {}
  BY <1>3, NewTypes DEF Selecting
<1> HIDE DEF n
<1>5. Others(s) /\ op'[s] = n /\ aio'[s] = aio[s]
  BY <1>1, <1>3, OpUpdate DEF Others, IInv, TypeOK
<1>6. LoopSame
  BY <1>a, <1>4 DEF LoopSame
<1>7. StageInv'
  BY <1>2, <1>3, <1>5, StageLeaves
<1>9. close.by = "loop" => FutureOK(op[s], aio[s])
  BY DEF IInv, LoopInv
<1>10. SlotSame(s)
  BY <1>0, <1>2, <1>4, <1>5, <1>9 DEF SlotSame, OpOK, FutureOK
<1>11. loop'.pc = "closing" <=> loop.pc = "closing"
  BY <1>0, <1>4 DEF CoPcs
<1> QED BY <1>4, <1>5, <1>6, <1>7, <1>10, <1>11, OneSlot

(* _prepare_submit meets a released manager.                               *)
LEMMA PrepareFails ==
    ASSUME IInv, At("prepare"), ~op[loop.cur].dict, Return(loop.cur, "typeerror"),
           UNCHANGED <<sock, made, mgr, aio, soon, close>>
    PROVE  IInv'
<1>1. loop.cur \in Slots /\ StageOK(op[loop.cur], aio[loop.cur], "prepare")
  BY At1 DEF At, IInv, StageInv, CoPcs
<1>2. close.by = "freethread"
  BY DEF At, IInv, PendingInv
<1>3. aio[loop.cur].st = "new" /\ loop.cur \notin mgr[op[loop.cur].home].reg
  BY <1>1 DEF StageOK, At, IInv, RegInv
<1>4. "typeerror" \in Outs
  BY DEF Outs
<1> QED BY <1>1, <1>2, <1>3, <1>4, ReturnStep

(* The synchronous path.                                                   *)
LEMMA FinishSyncStep == ASSUME IInv, FinishSync PROVE IInv'
<1> DEFINE s == loop.cur
<1>1. /\ s \in Slots /\ StageOK(op[s], aio[s], "sync") /\ aio[s] \in AioType /\ OpOK(op[s], aio[s])
  BY At1 DEF FinishSync, At, IInv, StageInv, CoPcs
<1>2. aio[s].st = "idle"
  BY <1>1 DEF StageOK
<1>3. AioOutcome(s) \in Outs /\ (AioOutcome(s) = "ok" => aio[s].effect) /\ AioOutcome(s) \notin {"typeerror", "internal"}
  BY <1>1, <1>2, Types DEF AioOutcome, Outs, Rs, Errors, OpOK
<1>4. Return(s, AioOutcome(s)) /\ UNCHANGED <<sock, made, mgr, aio, soon, close>>
  BY DEF FinishSync
<1> QED BY <1>1, <1>2, <1>3, <1>4, ReturnStep

(* The coroutine whose await has ended.                                    *)
LEMMA FinishStep == ASSUME IInv, Finish PROVE IInv'
<1> DEFINE s == loop.cur
<1>1. /\ s \in Slots /\ StageOK(op[s], aio[s], "finish") /\ op[s] \in OpType /\ aio[s] \in AioType
      /\ OpOK(op[s], aio[s])
  BY At1 DEF Finish, At, IInv, StageInv, CoPcs
<1>2. aio[s].st = "idle"
  BY <1>1, Types DEF StageOK, Finish, Busy, Sts
<1>3. op[s].cancel \/ op[s].fut # "pending"
  BY <1>1 DEF StageOK
<1>4. close.by = "loop" => FutureOK(op[s], aio[s])
  BY <1>1 DEF IInv, LoopInv
<1>5. AwaitOutcome(s) \in Outs
  BY <1>1, <1>3, Types DEF AwaitOutcome, Outs, Futs, Errors
<1>6. close.by = "loop" => (AwaitOutcome(s) = "ok" => aio[s].effect) /\ AwaitOutcome(s) \notin {"typeerror", "internal"}
  BY <1>1, <1>2, <1>4, Types DEF AwaitOutcome, Futs, Errors, FutureOK, OpOK
<1>7. Return(s, AwaitOutcome(s)) /\ UNCHANGED <<sock, made, mgr, aio, soon, close>>
  BY DEF Finish
<1> QED BY <1>1, <1>2, <1>5, <1>6, <1>7, ReturnStep

(* reach_skip_point, before the trampoline.                                *)
LEMMA SkipAwaits ==
    ASSUME IInv, At("skip"), ~aio[loop.cur].skip, UNCHANGED <<sock, made, mgr, soon, close>>,
           aio' = [aio EXCEPT ![loop.cur].skip = TRUE], op' = [op EXCEPT ![loop.cur].co = "await"],
           loop' = Selecting
    PROVE  IInv'
<1> DEFINE s == loop.cur
           n == [op[s] EXCEPT !.co = "await"]
           a == [aio[s] EXCEPT !.skip = TRUE]
<1>0. /\ s \in Slots /\ op[s] \in OpType /\ aio[s] \in AioType /\ OpOK(op[s], aio[s])
      /\ loop.pc = "skip" /\ StageOK(op[s], aio[s], "skip") /\ op[s].co = "running" /\ loop.cbs = {}
  BY At1, CoLoop DEF At, IInv, StageInv, CoPcs
<1>1. n \in OpType /\ a \in AioType
  BY <1>0, Types DEF Cos
<1>2. /\ n.co = "await" /\ n.home = op[s].home /\ n.held = op[s].held /\ n.fut = op[s].fut
      /\ n.out = op[s].out
      /\ a.st = aio[s].st /\ a.result = aio[s].result /\ a.effect = aio[s].effect /\ a.skip
  BY <1>0, Types
<1>3. op' = [op EXCEPT ![s] = n] /\ aio' = [aio EXCEPT ![s] = a]
  BY DEF IInv, TypeOK
<1>4. loop' \in LoopType /\ loop'.pc = "select" /\ loop'.cur = NoOp /\ loop'.cbs = {}
  BY NewTypes DEF Selecting
<1> HIDE DEF n, a, s
<1>5. Others(s) /\ op'[s] = n /\ aio'[s] = a
  <2>1. op' \in [Slots -> OpType] /\ op'[s] = n /\ \A t \in Slots \ {s} : op'[t] = op[t]
    BY <1>0, <1>1, <1>3, OpUpdate DEF IInv
  <2>2. aio' \in [Slots -> AioType] /\ aio'[s] = a /\ \A t \in Slots \ {s} : aio'[t] = aio[t]
    BY <1>0, <1>1, <1>3, AioUpdate DEF IInv
  <2> QED BY <2>1, <2>2 DEF Others
<1>6. LoopSame
  BY <1>0, <1>4 DEF LoopSame
<1>7. StageInv'
  BY <1>0, <1>2, <1>5, StageLeaves DEF s
<1>9. close.by = "loop" => FutureOK(op[s], aio[s])
  BY <1>0 DEF IInv, LoopInv
<1>a. aio[s].st \in {"busy", "ended"}
  BY <1>0 DEF StageOK, s
<1>b. Submitted(s)
  BY <1>0 DEF Submitted, s
<1>10. SlotSame(s)
  BY <1>0, <1>2, <1>4, <1>5, <1>9, <1>a, <1>b, SlotsAssumption DEF SlotSame, OpOK, FutureOK
<1> QED BY <1>0, <1>4, <1>5, <1>6, <1>7, <1>10, OneSlot

(* Task.cancel.                                                            *)
LEMMA CancelTaskStep == ASSUME IInv, NEW s \in Slots, CancelTask(s) PROVE IInv'
<1> DEFINE v == IF op[s].fut = "pending" THEN "cancelled" ELSE op[s].fut
           n == [op[s] EXCEPT !.cancel = TRUE, !.fut = v]
<1>0. /\ op[s] \in OpType /\ aio[s] \in AioType /\ OpOK(op[s], aio[s]) /\ op[s].co = "await"
      /\ loop.pc = "select" /\ loop' = loop /\ loop \in LoopType
  BY At1 DEF CancelTask, At
<1>1. n \in OpType
  BY <1>0, Types DEF Futs
<1>2. /\ n.co = op[s].co /\ n.home = op[s].home /\ n.held = op[s].held /\ n.out = op[s].out
      /\ n.fut # "pending" /\ (n.fut = "ok" => op[s].fut = "ok")
  BY <1>0, Types
<1>3. op' = [op EXCEPT ![s] = n] /\ UNCHANGED <<sock, made, mgr, aio, soon, close>>
  BY DEF CancelTask, IInv, TypeOK
<1> HIDE DEF n
<1>5. Others(s) /\ op'[s] = n /\ aio'[s] = aio[s]
  BY <1>1, <1>3, OpUpdate DEF Others, IInv, TypeOK
<1>6. LoopSame
  BY <1>0 DEF LoopSame
<1>7. StageInv'
  BY <1>0, <1>2, <1>5, StageStays DEF IInv, StageInv
<1>9. close.by = "loop" => FutureOK(op[s], aio[s])
  BY DEF IInv, LoopInv
<1>10. SlotSame(s)
  BY <1>0, <1>2, <1>5, <1>9 DEF SlotSame, OpOK, FutureOK
<1> QED BY <1>0, <1>3, <1>5, <1>6, <1>7, <1>10, OneSlot

(* An aio that is ended from outside.                                      *)
LEMMA AbortType ==
    ASSUME NEW a \in AioType, NEW r \in Errors
    PROVE  /\ Abort(a, r) \in AioType
           /\ a.st # "busy" => Abort(a, r) = a
           /\ a.st = "busy" => /\ Abort(a, r).st = "ended" /\ Abort(a, r).result = r
                               /\ Abort(a, r).effect = a.effect /\ Abort(a, r).skip = a.skip
BY Types DEF Abort, Sts, Rs

(* The await ends.                                                         *)
LEMMA ResumeStep == ASSUME IInv, NEW s \in Slots, Resume(s) PROVE IInv'
<1> DEFINE n == [op[s] EXCEPT !.co = "running"]
           a == Abort(aio[s], "canceled")
<1>0. /\ op[s] \in OpType /\ aio[s] \in AioType /\ OpOK(op[s], aio[s]) /\ op[s].co = "await"
      /\ op[s].fut # "pending" \/ op[s].cancel
      /\ loop.pc = "select" /\ loop.cbs = {} /\ loop \in LoopType
  BY At1, CoLoop DEF Resume, At
<1>1. n \in OpType
  BY <1>0, Types DEF Cos
<1>2. /\ n.co = "running" /\ n.home = op[s].home /\ n.held = op[s].held /\ n.out = op[s].out
      /\ n.fut = op[s].fut /\ n.cancel = op[s].cancel
  BY <1>0, Types
<1>a. /\ a \in AioType /\ (aio[s].st # "busy" => a = aio[s])
      /\ aio[s].st = "busy" => a.st = "ended" /\ a.result = "canceled" /\ a.effect = aio[s].effect
  BY <1>0, AbortType DEF Errors
<1>3. /\ op' = [op EXCEPT ![s] = n] /\ aio' = [aio EXCEPT ![s] = a]
      /\ UNCHANGED <<sock, made, mgr, soon, close>>
  BY DEF Resume, IInv, TypeOK
<1>4. loop' \in LoopType /\ loop'.pc = "finish" /\ loop'.cur = s /\ loop'.cbs = loop.cbs
  BY <1>0, Types DEF Resume, LoopPcs
<1> HIDE DEF n, a
<1>5. Others(s) /\ op'[s] = n /\ aio'[s] = a
  <2>1. op' \in [Slots -> OpType] /\ op'[s] = n /\ \A t \in Slots \ {s} : op'[t] = op[t]
    BY <1>1, <1>3, OpUpdate DEF IInv
  <2>2. aio' \in [Slots -> AioType] /\ aio'[s] = a /\ \A t \in Slots \ {s} : aio'[t] = aio[t]
    BY <1>3, <1>a, AioUpdate DEF IInv
  <2> QED BY <2>1, <2>2 DEF Others
<1>6. LoopSame
  BY <1>0, <1>4 DEF LoopSame
<1>b. aio[s].st # "new" /\ op[s].home # 0
  BY <1>0 DEF OpOK
<1>7. StageInv'
  <2>1. StageOK(n, a, "finish")
    BY <1>0, <1>2, <1>a, <1>b DEF StageOK
  <2> QED BY <1>0, <1>2, <1>4, <1>5, <2>1, StageEnters DEF CoPcs
<1>9. close.by = "loop" => FutureOK(op[s], aio[s])
  BY DEF IInv, LoopInv
<1>10. SlotSame(s)
  BY <1>0, <1>2, <1>4, <1>5, <1>9, <1>a, <1>b DEF SlotSame, OpOK, FutureOK
<1> QED BY <1>0, <1>3, <1>4, <1>5, <1>6, <1>7, <1>10, OneSlot

-----------------------------------------------------------------------------
(* nng's threads.                                                          *)

(* nng completes an operation.                                             *)
LEMMA CompleteStep == ASSUME IInv, NEW s \in Slots, NEW r \in {"ok", "timeout"}, Complete(s, r) PROVE IInv'
<1> DEFINE e == (r = "ok")
           a == [aio[s] EXCEPT !.st = "ended", !.result = r, !.effect = e]
<1>0. /\ op[s] \in OpType /\ aio[s] \in AioType /\ OpOK(op[s], aio[s]) /\ aio[s].st = "busy"
      /\ loop' = loop /\ loop \in LoopType
  BY At1 DEF Complete
<1>1. a \in AioType
  BY <1>0, Types DEF Sts, Rs, Errors
<1>2. a.st = "ended" /\ a.result = r /\ a.effect = e /\ a.skip = aio[s].skip
  BY <1>0, Types
<1>3. aio' = [aio EXCEPT ![s] = a] /\ UNCHANGED <<sock, made, mgr, op, soon, close>>
  BY DEF Complete, IInv, TypeOK
<1> HIDE DEF a
<1>5. Others(s) /\ aio'[s] = a /\ op'[s] = op[s]
  BY <1>1, <1>3, AioUpdate DEF Others, IInv, TypeOK
<1>6. LoopSame
  <2>1. loop'.pc \in {"create", "prepare"} => close.by = "freethread" \/ (loop'.pc = "prepare" => op'[loop.cur].dict)
    BY <1>0, <1>3 DEF IInv, PendingInv
  <2> QED BY <1>0, <2>1 DEF LoopSame
<1>7. StageInv'
  <2>1. s = loop.cur => StageOK(op[s], a, loop.pc)
    BY <1>0, <1>2, SlotsAssumption DEF IInv, StageInv, StageOK
  <2> QED BY <1>0, <1>5, <2>1, StageStays
<1>9. close.by = "loop" => FutureOK(op[s], aio[s])
  BY DEF IInv, LoopInv
<1>10. SlotSame(s)
  BY <1>0, <1>2, <1>5, <1>9 DEF SlotSame, OpOK, FutureOK, Submitted
<1> QED BY <1>0, <1>3, <1>5, <1>6, <1>7, <1>10, OneSlot

(* fire() before the skip point.                                           *)
LEMMA FireSkips ==
    ASSUME IInv, NEW s \in Slots, aio[s].st = "ended", ~aio[s].skip,
           aio' = [aio EXCEPT ![s].skip = TRUE, ![s].st = "idle"],
           UNCHANGED <<sock, made, mgr, op, loop, soon, close>>
    PROVE  IInv'
<1> DEFINE a == [aio[s] EXCEPT !.skip = TRUE, !.st = "idle"]
<1>0. /\ op[s] \in OpType /\ aio[s] \in AioType /\ OpOK(op[s], aio[s]) /\ loop \in LoopType
  BY At1
<1>1. a \in AioType
  BY <1>0, Types DEF Sts
<1>2. a.st = "idle" /\ a.result = aio[s].result /\ a.effect = aio[s].effect /\ a.skip
  BY <1>0, Types
<1>3. aio' = [aio EXCEPT ![s] = a]
  BY DEF IInv, TypeOK
<1> HIDE DEF a
<1>5. Others(s) /\ aio'[s] = a /\ op'[s] = op[s]
  BY <1>1, <1>3, AioUpdate DEF Others, IInv, TypeOK
<1>6. LoopSame
  <2>1. loop'.pc \in {"create", "prepare"} => close.by = "freethread" \/ (loop'.pc = "prepare" => op'[loop.cur].dict)
    BY DEF IInv, PendingInv
  <2> QED BY <2>1 DEF LoopSame
<1>7. StageInv'
  <2>1. s = loop.cur => StageOK(op[s], a, loop.pc)
    BY <1>0, <1>2, SlotsAssumption DEF IInv, StageInv, StageOK
  <2> QED BY <1>5, <2>1, StageStays
<1>9. close.by = "loop" => FutureOK(op[s], aio[s])
  BY DEF IInv, LoopInv
<1>10. SlotSame(s)
  BY <1>0, <1>2, <1>5, <1>9 DEF SlotSame, OpOK, FutureOK, Submitted
<1> QED BY <1>0, <1>5, <1>6, <1>7, <1>10, OneSlot

(* Only the bytes and the readers of the managers change.                  *)
LEMMA QueueBytes ==
    ASSUME IInv, NEW m \in Mgrs, NEW b \in 0..SockBuf,
           mgr' = [mgr EXCEPT ![m].q = [@ EXCEPT !.bytes = b]]
    PROVE  /\ mgr' \in [Mgrs -> MgrType]
           /\ \A n \in Mgrs : /\ mgr'[n].live = mgr[n].live /\ mgr'[n].reg = mgr[n].reg
                              /\ mgr'[n].q.items = mgr[n].q.items /\ (n # m => mgr'[n] = mgr[n])
<1> DEFINE z == [mgr[m].q EXCEPT !.bytes = b]
           g == [mgr[m] EXCEPT !.q = z]
<1>1. mgr[m] \in MgrType /\ mgr[m].q \in QueueType(Slots)
  BY At1, Types
<1>2. z \in QueueType(Slots) /\ z.items = mgr[m].q.items
  BY <1>1 DEF QueueType
<1>3. mgr' = [mgr EXCEPT ![m] = g]
  BY DEF IInv, TypeOK
<1> HIDE DEF z
<1>4. g \in MgrType /\ g.live = mgr[m].live /\ g.reg = mgr[m].reg /\ g.q = z
  BY <1>1, <1>2, Types
<1> HIDE DEF g
<1>5. mgr' \in [Mgrs -> MgrType] /\ mgr'[m] = g /\ \A n \in Mgrs \ {m} : mgr'[n] = mgr[n]
  BY <1>3, <1>4, MgrUpdate DEF IInv
<1> QED BY <1>2, <1>4, <1>5

(* The wakeup byte.                                                        *)
LEMMA FireWakeStep == ASSUME IInv, NEW s \in Slots, FireWake(s) PROVE IInv'
<1> DEFINE a == [aio[s] EXCEPT !.st = "idle"]
           m == op[s].home
           b == IF mgr[m].q.bytes < SockBuf THEN mgr[m].q.bytes + 1 ELSE mgr[m].q.bytes
<1>0. /\ op[s] \in OpType /\ aio[s] \in AioType /\ OpOK(op[s], aio[s]) /\ loop \in LoopType
      /\ aio[s].st = "wake" /\ UNCHANGED <<sock, made, op, loop, soon, close>>
  BY At1 DEF FireWake
<1>1. a \in AioType
  BY <1>0, Types DEF Sts
<1>2. a.st = "idle" /\ a.result = aio[s].result /\ a.effect = aio[s].effect /\ a.skip = aio[s].skip
  BY <1>0, Types
<1>3. aio' = [aio EXCEPT ![s] = a]
  BY DEF FireWake, IInv, TypeOK
<1>m. m \in Mgrs /\ ~(made < m)
  <2>1. m \in Mgrs
    BY <1>0, Types DEF OpOK
  <2>2. m <= made
    BY DEF IInv, MgrInv
  <2> QED BY <2>1, <2>2 DEF Mgrs, IInv, TypeOK
<1>b. b \in 0..SockBuf
  BY <1>m, At1, Types, SockBufAssumption DEF QueueType
<1>q. mgr' = [mgr EXCEPT ![m].q = [@ EXCEPT !.bytes = b]]
  BY <1>m DEF FireWake, SendByte, IInv, TypeOK
<1> HIDE DEF a, b, m
<1>4. /\ mgr' \in [Mgrs -> MgrType]
      /\ \A n \in Mgrs : /\ mgr'[n].live = mgr[n].live /\ mgr'[n].reg = mgr[n].reg
                         /\ mgr'[n].q.items = mgr[n].q.items /\ (n # m => mgr'[n] = mgr[n])
  BY <1>m, <1>b, <1>q, QueueBytes
<1>5. Others(s) /\ aio'[s] = a /\ op'[s] = op[s]
  BY <1>0, <1>1, <1>3, AioUpdate DEF Others, IInv, TypeOK
<1>6. LoopSame
  <2>1. loop'.pc \in {"create", "prepare"} => close.by = "freethread" \/ (loop'.pc = "prepare" => op'[loop.cur].dict)
    BY <1>0 DEF IInv, PendingInv
  <2> QED BY <1>0, <2>1 DEF LoopSame
<1>7. StageInv'
  <2>1. s = loop.cur => StageOK(op[s], a, loop.pc)
    BY <1>0, <1>2, SlotsAssumption DEF IInv, StageInv, StageOK
  <2> QED BY <1>0, <1>5, <2>1, StageStays
<1>9. close.by = "loop" => FutureOK(op[s], aio[s])
  BY DEF IInv, LoopInv
<1>10. SlotSame(s)
  BY <1>0, <1>2, <1>5, <1>9 DEF SlotSame, OpOK, FutureOK, Submitted
<1>11. \A t \in Slots : SlotSame(t)
  BY <1>5, <1>6, <1>10, Untouched DEF Others
<1>12. TypeOK'
  BY <1>0, <1>4, <1>5 DEF Others, IInv, TypeOK
<1>13. MgrSame /\ CloseSame
  BY <1>0, <1>m, <1>4 DEF MgrSame, DictSame, CloseSame, IInv, LoopInv
<1> QED BY <1>6, <1>7, <1>11, <1>12, <1>13, KeepStep

-----------------------------------------------------------------------------
(* Steps that move neither calls nor aios.                                 *)

LEMMA OpsStay ==
    ASSUME IInv, UNCHANGED <<op, aio, made>>, TypeOK', MgrSame, CloseSame, LoopSame, StageInv'
    PROVE  IInv'
<1>1. \A t \in Slots : SlotSame(t)
  BY Untouched
<1> QED BY <1>1, KeepStep

(* The reader is called.                                                   *)
LEMMA PollWakeupStep == ASSUME IInv, NEW m \in Mgrs, PollWakeup(m) PROVE IInv'
<1>0. /\ loop.pc = "select" /\ loop.cur = NoOp /\ loop.cbs = {} /\ loop \in LoopType
      /\ UNCHANGED <<sock, made, op, aio, soon, close>>
  BY At1, CoLoop DEF PollWakeup, At, IInv, StageInv, CoPcs
<1>1. ~(made < m)
  <2>1. made < m => mgr[m].q.bytes = 0
    BY DEF IInv, MgrInv, NewMgr, EmptyQueue
  <2> QED BY <2>1 DEF PollWakeup, Readable
<1>2. mgr' = [mgr EXCEPT ![m].q = [@ EXCEPT !.bytes = 0]]
  BY DEF PollWakeup, DrainWakeup
<1>3. 0 \in 0..SockBuf
  BY SockBufAssumption
<1>4. /\ mgr' \in [Mgrs -> MgrType]
      /\ \A n \in Mgrs : /\ mgr'[n].live = mgr[n].live /\ mgr'[n].reg = mgr[n].reg
                         /\ mgr'[n].q.items = mgr[n].q.items /\ (n # m => mgr'[n] = mgr[n])
  BY <1>2, <1>3, QueueBytes
<1>5. loop' \in LoopType /\ loop'.pc = "ready" /\ loop'.cur = NoOp /\ loop'.mgr = m /\ loop'.cbs = {}
  BY <1>0, Types DEF PollWakeup, LoopPcs
<1>6. LoopSame
  BY <1>0, <1>5 DEF LoopSame
<1>7. StageInv'
  <2>1. \A t \in Slots : op'[t].co # "running"
    BY <1>0, SlotsAssumption DEF IInv, StageInv
  <2>2. m # 0
    BY DEF Mgrs
  <2> QED BY <1>5, <2>1, <2>2, SlotsAssumption DEF StageInv, CoPcs
<1>8. TypeOK'
  BY <1>0, <1>4, <1>5 DEF IInv, TypeOK
<1>9. MgrSame
  BY <1>0, <1>1, <1>4 DEF MgrSame, DictSame
<1>10. CloseSame
  BY <1>0, <1>5 DEF CloseSame, IInv, LoopInv
<1> QED BY <1>0, <1>6, <1>7, <1>8, <1>9, <1>10, OpsStay

(* remove_reader.                                                          *)
LEMMA RunRemoveReaderStep == ASSUME IInv, NEW m \in Mgrs, RunRemoveReader(m) PROVE IInv'
<1> DEFINE g == [mgr[m] EXCEPT !.reader = FALSE]
<1>0. /\ loop.pc = "select" /\ loop \in LoopType /\ mgr[m] \in MgrType
      /\ UNCHANGED <<sock, made, op, aio, loop, close>>
  BY At1 DEF RunRemoveReader, At
<1>1. g \in MgrType /\ g.live = mgr[m].live /\ g.reg = mgr[m].reg /\ g.q = mgr[m].q
  BY <1>0, Types
<1>2. ASSUME made < m PROVE g = mgr[m]
  <2>1. mgr[m] = NewMgr
    BY <1>2 DEF IInv, MgrInv
  <2>2. mgr[m].reader = FALSE
    BY <2>1 DEF NewMgr
  <2>3. g.reader = FALSE
    BY <1>0, Types
  <2> HIDE DEF g
  <2> QED BY <1>0, <1>1, <2>2, <2>3, Types
<1>3. mgr' = [mgr EXCEPT ![m] = g] /\ soon' = [soon EXCEPT !.remove = @ \ {m}]
  BY DEF RunRemoveReader, IInv, TypeOK
<1> HIDE DEF g
<1>4. mgr' \in [Mgrs -> MgrType] /\ mgr'[m] = g /\ \A n \in Mgrs \ {m} : mgr'[n] = mgr[n]
  BY <1>1, <1>3, MgrUpdate DEF IInv
<1>5. soon'.set = soon.set /\ soon' \in [remove : SUBSET Mgrs, set : [Slots -> {"none", "ok"} \cup Errors]]
  BY <1>3 DEF IInv, TypeOK
<1>6. LoopSame
  BY <1>0 DEF LoopSame
<1>7. StageInv'
  BY <1>0 DEF IInv, StageInv
<1>8. TypeOK'
  BY <1>0, <1>4, <1>5 DEF IInv, TypeOK
<1>9. MgrSame
  BY <1>0, <1>1, <1>2, <1>4, <1>5 DEF MgrSame, DictSame
<1>10. CloseSame
  BY <1>0 DEF CloseSame, IInv, LoopInv
<1> QED BY <1>0, <1>6, <1>7, <1>8, <1>9, <1>10, OpsStay

(* The loop comes back from a callback.                                    *)
LEMMA CallbackEnds ==
    ASSUME IInv, loop.pc \in {"ready", "handle"}, loop.cbs = {}, loop' = Selecting,
           UNCHANGED <<sock, made, op, aio, soon, close>>, mgr' \in [Mgrs -> MgrType], MgrSame
    PROVE  IInv'
<1>5. loop' \in LoopType /\ loop'.pc = "select" /\ loop'.cur = NoOp /\ loop'.cbs = {}
  BY NewTypes DEF Selecting
<1>6. LoopSame
  BY <1>5 DEF LoopSame
<1>7. StageInv'
  <2>1. \A t \in Slots : op'[t].co # "running"
    BY SlotsAssumption DEF IInv, StageInv, CoPcs
  <2> QED BY <1>5, <2>1, SlotsAssumption DEF StageInv, CoPcs
<1>8. TypeOK'
  BY <1>5 DEF IInv, TypeOK
<1>10. CloseSame
  BY <1>5 DEF CloseSame, IInv, LoopInv
<1> QED BY <1>6, <1>7, <1>8, <1>10, OpsStay

(* close() is called.                                                      *)
LEMMA CloseStartStep == ASSUME IInv, CloseStart PROVE IInv'
<1>0. /\ close.pc = "open" /\ UNCHANGED <<sock, made, mgr, op, aio, soon>> /\ loop \in LoopType
      /\ close' = [close EXCEPT !.pc = "nngclose"]
  BY At1 DEF CloseStart, CloseAt
<1>1. /\ close' \in [by : Closers, pc : ClosePcs, snap : SUBSET Slots]
      /\ close'.by = close.by /\ close'.snap = close.snap /\ close'.pc = "nngclose"
  BY <1>0 DEF IInv, TypeOK, ClosePcs
<1>2. CASE close.by = "loop"
  <2>1. loop.pc = "select" /\ loop.cur = NoOp /\ loop.cbs = {}
    BY <1>2, CoLoop DEF CloseStart, At, IInv, StageInv, CoPcs
  <2>2. loop' \in LoopType /\ loop'.pc = "closing" /\ loop'.cur = NoOp /\ loop'.cbs = {}
    BY <1>0, <1>2, <2>1, Types DEF CloseStart, Goto, LoopPcs
  <2>3. LoopSame
    BY <2>1, <2>2 DEF LoopSame
  <2>4. StageInv'
    BY <1>0, <2>1, <2>2 DEF IInv, StageInv, CoPcs
  <2>5. TypeOK'
    BY <1>0, <1>1, <2>2 DEF IInv, TypeOK
  <2>6. MgrSame /\ CloseSame
    BY <1>0, <1>1, <2>2 DEF MgrSame, DictSame, CloseSame, Early
  <2> QED BY <1>0, <2>3, <2>4, <2>5, <2>6, OpsStay
<1>3. CASE close.by # "loop"
  <2>1. loop' = loop
    BY <1>3 DEF CloseStart
  <2>3. LoopSame
    BY <1>0, <2>1 DEF LoopSame, IInv, PendingInv
  <2>4. StageInv'
    BY <1>0, <2>1 DEF IInv, StageInv
  <2>5. TypeOK'
    BY <1>0, <1>1, <2>1 DEF IInv, TypeOK
  <2>6. MgrSame /\ CloseSame
    BY <1>0, <1>1, <1>3 DEF MgrSame, DictSame, CloseSame, Early
  <2> QED BY <1>0, <2>3, <2>4, <2>5, <2>6, OpsStay
<1> QED BY <1>2, <1>3

(* A step of close() before release().                                     *)
LEMMA CloseGoesOn ==
    ASSUME IInv, UNCHANGED <<made, mgr, loop, soon>>, NEW p \in {"clearid", "release"},
           close.pc \in {"nngclose", "clearid"}, close' = [close EXCEPT !.pc = p],
           sock' \in SockType, sock'.mgr = sock.mgr, ~sock.handle => ~sock'.handle,
           p = "release" => ~sock'.handle,
           op' = op, aio' \in [Slots -> AioType]
    PROVE  /\ MgrSame /\ CloseSame /\ LoopSame /\ TypeOK'
<1>1. /\ close' \in [by : Closers, pc : ClosePcs, snap : SUBSET Slots]
      /\ close'.by = close.by /\ close'.snap = close.snap /\ close'.pc = p
  BY DEF IInv, TypeOK, ClosePcs
<1>2. LoopSame
  BY DEF LoopSame, IInv, PendingInv
<1>3. TypeOK'
  BY <1>1 DEF IInv, TypeOK
<1>4. MgrSame
  BY DEF MgrSame, DictSame
<1>5. CloseSame
  BY <1>1 DEF CloseSame, Early, IInv, LoopInv
<1> QED BY <1>2, <1>3, <1>4, <1>5

(* The id is cleared.                                                      *)
LEMMA CloseClearIdStep == ASSUME IInv, CloseClearId PROVE IInv'
<1>0. /\ close.pc = "clearid" /\ UNCHANGED <<made, mgr, op, aio, loop, soon>>
      /\ close' = [close EXCEPT !.pc = "release"]
  BY DEF CloseClearId, CloseAt
<1>1. sock' \in SockType /\ sock'.mgr = sock.mgr /\ ~sock'.handle
  BY DEF CloseClearId, IInv, TypeOK, SockType
<1>2. aio' \in [Slots -> AioType]
  BY <1>0 DEF IInv, TypeOK
<1>3. MgrSame /\ CloseSame /\ LoopSame /\ TypeOK'
  BY <1>0, <1>1, <1>2, CloseGoesOn
<1>4. StageInv'
  BY <1>0 DEF IInv, StageInv
<1> QED BY <1>0, <1>3, <1>4, OpsStay

(* nng_socket_close.                                                       *)
LEMMA CloseNngStep == ASSUME IInv, CloseNng PROVE IInv'
<1>0. /\ close.pc = "nngclose" /\ UNCHANGED <<made, mgr, op, loop, soon>>
      /\ close' = [close EXCEPT !.pc = "clearid"]
  BY DEF CloseNng, CloseAt
<1>1. sock' \in SockType /\ sock'.mgr = sock.mgr /\ sock'.handle = sock.handle
  BY DEF CloseNng, IInv, TypeOK, SockType
<1>a. ASSUME NEW t \in Slots
      PROVE  /\ aio'[t] \in AioType /\ (aio[t].st # "busy" => aio'[t] = aio[t])
             /\ aio[t].st = "busy" => /\ aio'[t].st = "ended" /\ aio'[t].result = "closed"
                                      /\ aio'[t].effect = aio[t].effect /\ aio'[t].skip = aio[t].skip
  <2>1. aio'[t] = Abort(aio[t], "closed") /\ aio[t] \in AioType /\ "closed" \in Errors
    BY At1 DEF CloseNng, Errors
  <2> QED BY <2>1, AbortType
<1>2. aio' \in [Slots -> AioType]
  BY <1>a DEF CloseNng
<1>3. MgrSame /\ CloseSame /\ LoopSame /\ TypeOK'
  BY <1>0, <1>1, <1>2, CloseGoesOn
<1>4. StageInv'
  <2>1. ASSUME loop.cur # NoOp PROVE StageOK(op[loop.cur], aio'[loop.cur], loop.pc)
    <3>1. loop.cur \in Slots /\ StageOK(op[loop.cur], aio[loop.cur], loop.pc)
      BY <2>1, At1 DEF IInv, StageInv
    <3> QED BY <3>1, <1>a DEF StageOK
  <2> QED BY <1>0, <2>1 DEF IInv, StageInv
<1>5. ASSUME NEW t \in Slots PROVE SlotSame(t)
  <2>1. OpOK(op[t], aio[t]) /\ (close.by = "loop" => FutureOK(op[t], aio[t])) /\ op'[t] = op[t]
    BY <1>0 DEF IInv, OpInv, LoopInv
  <2>2. aio[t].st \in {"busy", "ended"} => t \in mgr[op[t].home].reg
    BY DEF IInv, RegInv
  <2>3. t = loop'.cur /\ loop'.pc \in {"submit", "skip"} => Submitted(t)
    BY <1>0 DEF Submitted
  <2> QED BY <1>a, <2>1, <2>2, <2>3 DEF SlotSame, OpOK, FutureOK, Submitted
<1> QED BY <1>3, <1>4, <1>5, KeepStep

(* fire() after the skip point: the id is queued.                          *)
LEMMA FirePushes ==
    ASSUME IInv, NEW s \in Slots, aio[s].st = "ended", aio[s].skip,
           mgr' = [mgr EXCEPT ![op[s].home].q = PushBack(mgr[op[s].home].q, s)],
           NEW v \in {"wake", "idle"}, aio' = [aio EXCEPT ![s].st = v],
           UNCHANGED <<sock, made, op, loop, soon, close>>
    PROVE  IInv'
<1> DEFINE a == [aio[s] EXCEPT !.st = v]
           m == op[s].home
           i == Append(mgr[m].q.items, s)
           z == [mgr[m].q EXCEPT !.items = i]
           g == [mgr[m] EXCEPT !.q = z]
<1>0. /\ op[s] \in OpType /\ aio[s] \in AioType /\ OpOK(op[s], aio[s]) /\ loop \in LoopType
      /\ s \in mgr[m].reg
  BY At1 DEF IInv, RegInv
<1>m. m \in Mgrs /\ ~(made < m)
  <2>1. m \in Mgrs
    BY <1>0, Types DEF OpOK
  <2>2. m <= made
    BY DEF IInv, MgrInv
  <2> QED BY <2>1, <2>2 DEF Mgrs, IInv, TypeOK
<1>1. a \in AioType
  BY <1>0, Types DEF Sts
<1>2. a.st = v /\ a.result = aio[s].result /\ a.effect = aio[s].effect /\ a.skip = aio[s].skip
  BY <1>0, Types
<1>3. aio' = [aio EXCEPT ![s] = a] /\ mgr' = [mgr EXCEPT ![m] = g]
  BY <1>m DEF PushBack, IInv, TypeOK
<1>q. mgr[m] \in MgrType /\ mgr[m].q \in QueueType(Slots) /\ mgr[m].q.items \in Seq(Slots)
  BY <1>m, At1, Types DEF QueueType
<1>i. i \in Seq(Slots)
  BY <1>q
<1> HIDE DEF i
<1>z. z \in QueueType(Slots) /\ z.items = i
  BY <1>q, <1>i DEF QueueType
<1> HIDE DEF z
<1>g. g \in MgrType /\ g.live = mgr[m].live /\ g.reg = mgr[m].reg /\ g.q = z
  BY <1>q, <1>z, Types
<1> HIDE DEF a, g, m
<1>4. mgr' \in [Mgrs -> MgrType] /\ mgr'[m] = g /\ \A n \in Mgrs \ {m} : mgr'[n] = mgr[n]
  BY <1>m, <1>3, <1>g, MgrUpdate DEF IInv
<1>5. Others(s) /\ aio'[s] = a /\ op'[s] = op[s]
  <2>1. aio' \in [Slots -> AioType] /\ aio'[s] = a /\ \A t \in Slots \ {s} : aio'[t] = aio[t]
    BY <1>1, <1>3, AioUpdate DEF IInv
  <2> QED BY <2>1 DEF Others, IInv, TypeOK
<1>6. LoopSame
  BY DEF LoopSame, IInv, PendingInv
<1>s. s = loop.cur => loop.pc # "skip" /\ StageOK(op[s], aio[s], loop.pc)
  BY SlotsAssumption DEF IInv, StageInv, StageOK
<1>7. StageInv'
  <2>1. s = loop.cur => StageOK(op[s], a, loop.pc)
    BY <1>2, <1>s DEF StageOK
  <2> QED BY <1>5, <2>1, StageStays
<1>9. close.by = "loop" => FutureOK(op[s], aio[s])
  BY DEF IInv, LoopInv
<1>10. SlotSame(s)
  BY <1>0, <1>2, <1>5, <1>9 DEF SlotSame, OpOK, FutureOK, Submitted
<1>11. \A t \in Slots : SlotSame(t)
  BY <1>5, <1>6, <1>10, Untouched DEF Others
<1>12. TypeOK'
  BY <1>4, <1>5 DEF Others, IInv, TypeOK
<1>13. DictSame
  BY <1>m, <1>4, <1>g DEF DictSame
<1>14. CloseSame
  BY DEF CloseSame, IInv, LoopInv
<1>15. QueueInv'
  <2>1. ASSUME NEW n \in Mgrs, mgr'[n].live
        PROVE  /\ Injective(mgr'[n].q.items)
               /\ \A t \in Range(mgr'[n].q.items) :
                     /\ t \in mgr'[n].reg /\ aio'[t].st \in {"wake", "idle"}
                     /\ ~(loop'.pc = "skip" /\ t = loop'.cur)
    <3>1. mgr[n].live /\ mgr'[n].reg = mgr[n].reg
      BY <2>1, <1>13 DEF DictSame
    <3>2. Injective(mgr[n].q.items)
      BY <3>1 DEF IInv, QueueInv
    <3>3. ASSUME NEW t \in Range(mgr[n].q.items)
          PROVE  /\ t \in mgr'[n].reg /\ aio[t].st \in {"wake", "idle"} /\ aio'[t].st \in {"wake", "idle"}
                 /\ ~(loop'.pc = "skip" /\ t = loop'.cur)
      BY <1>6, <1>11, <3>1, QueuedSame
    <3>4. CASE n # m
      BY <1>4, <3>2, <3>3, <3>4
    <3>5. CASE n = m
      <4>1. s \notin Range(mgr[m].q.items)
        BY <3>3, <3>5
      <4>2. Injective(i) /\ Range(i) = Range(mgr[m].q.items) \cup {s}
        BY <1>q, <3>2, <3>5, <4>1, AppendQueue DEF i
      <4>3. mgr'[n].q.items = i
        BY <1>4, <1>g, <1>z, <3>5
      <4>4. s \in mgr'[n].reg /\ aio'[s].st \in {"wake", "idle"} /\ ~(loop'.pc = "skip" /\ s = loop'.cur)
        BY <1>0, <1>2, <1>5, <1>s, <3>1, <3>5 DEF m
      <4> QED BY <3>3, <3>5, <4>2, <4>3, <4>4
    <3> QED BY <3>4, <3>5
  <2> QED BY <2>1 DEF QueueInv
<1> QED BY <1>6, <1>7, <1>11, <1>12, <1>13, <1>14, <1>15, KeepDicts

(* The trampoline.                                                         *)
LEMMA FireStep == ASSUME IInv, NEW s \in Slots, Fire(s) PROVE IInv'
<1>1. aio[s].st = "ended" /\ UNCHANGED <<sock, made, op, loop, soon, close>>
  BY DEF Fire
<1>2. CASE ~aio[s].skip
  BY <1>1, <1>2, FireSkips DEF Fire
<1>3. CASE aio[s].skip
  <2> DEFINE v == IF WasEmpty(mgr[op[s].home].q) THEN "wake" ELSE "idle"
  <2>1. mgr' = [mgr EXCEPT ![op[s].home].q = PushBack(mgr[op[s].home].q, s)] /\ aio' = [aio EXCEPT ![s].st = v]
    BY <1>3 DEF Fire
  <2>2. v \in {"wake", "idle"}
    OBVIOUS
  <2> HIDE DEF v
  <2> QED BY <1>1, <1>3, <2>1, <2>2, FirePushes
<1> QED BY <1>2, <1>3

-----------------------------------------------------------------------------
(* Steps on the dicts.                                                     *)

(* An operation is only in the dict of its manager.                        *)
LEMMA Homes ==
    ASSUME IInv
    PROVE  /\ \A t \in Slots : op[t].home \in {0} \cup Mgrs
           /\ \A m \in Mgrs : mgr[m].reg \subseteq Slots
           /\ \A m \in Mgrs : \A t \in mgr[m].reg : op[t].home = m
           /\ \A t \in Slots : aio[t].st # "new" => op[t].home \in Mgrs
           /\ \A t \in Slots : op[t].home \in Mgrs => ~(made < op[t].home)
<1>1. \A t \in Slots : op[t].home \in {0} \cup Mgrs
  BY At1, Types
<1>2. \A m \in Mgrs : mgr[m].reg \subseteq Slots
  BY At1, Types
<1>3. \A m \in Mgrs : \A t \in mgr[m].reg : op[t].home = m
  BY DEF IInv, RegInv
<1>4. \A t \in Slots : aio[t].st # "new" => op[t].home \in Mgrs
  BY <1>1, At1 DEF OpOK
<1>5. \A t \in Slots : op[t].home \in Mgrs => ~(made < op[t].home)
  BY DEF IInv, MgrInv, TypeOK, Mgrs
<1> QED BY <1>1, <1>2, <1>3, <1>4, <1>5

(* A dict is replaced.                                                     *)
LEMMA RegUpdate ==
    ASSUME IInv, NEW m \in Mgrs, NEW R \in SUBSET Slots, mgr' = [mgr EXCEPT ![m].reg = R]
    PROVE  /\ mgr' \in [Mgrs -> MgrType]
           /\ mgr'[m].reg = R
           /\ \A n \in Mgrs : /\ mgr'[n].live = mgr[n].live /\ mgr'[n].q = mgr[n].q
                              /\ n # m => mgr'[n] = mgr[n]
<1> DEFINE g == [mgr[m] EXCEPT !.reg = R]
<1>1. mgr[m] \in MgrType
  BY At1
<1>2. g \in MgrType /\ g.live = mgr[m].live /\ g.q = mgr[m].q /\ g.reg = R
  BY <1>1, Types
<1>3. mgr' = [mgr EXCEPT ![m] = g]
  BY DEF IInv, TypeOK
<1> HIDE DEF g
<1>4. mgr' \in [Mgrs -> MgrType] /\ mgr'[m] = g /\ \A n \in Mgrs \ {m} : mgr'[n] = mgr[n]
  BY <1>2, <1>3, MgrUpdate DEF IInv
<1> QED BY <1>2, <1>4

\* The operation that runs enters its manager's dict, or leaves it.
Registers ==
    /\ mgr' = [mgr EXCEPT ![op[loop.cur].home].reg = @ \cup {loop.cur}]
    /\ UNCHANGED <<sock, made, op, aio, soon, close>>

Unregisters ==
    /\ mgr' = [mgr EXCEPT ![op[loop.cur].home].reg = @ \ {loop.cur}]
    /\ UNCHANGED <<sock, made, op, aio, soon, close>>

(* _prepare_submit enters the operation in the dict.                       *)
LEMMA PrepareRegisters ==
    ASSUME IInv, At("prepare"), op[loop.cur].dict, Goto("submit"), Registers
    PROVE  IInv'
<1> DEFINE s == loop.cur
           m == op[s].home
           R == mgr[m].reg \cup {s}
<1>0. /\ s \in Slots /\ op[s] \in OpType /\ aio[s] \in AioType /\ OpOK(op[s], aio[s])
      /\ loop \in LoopType /\ loop.cbs = {} /\ loop.pc = "prepare"
      /\ StageOK(op[s], aio[s], "prepare") /\ op[s].co = "running"
  BY At1, CoLoop DEF At, IInv, StageInv, CoPcs
<1>1. m \in Mgrs /\ ~(made < m) /\ R \subseteq Slots
  BY <1>0, Homes DEF StageOK
<1>2. mgr' = [mgr EXCEPT ![m].reg = R]
  BY DEF Registers
<1>b. UNCHANGED <<sock, made, op, aio, soon, close>>
  BY DEF Registers
<1> USE <1>b
<1> HIDE DEF R
<1>3. /\ mgr' \in [Mgrs -> MgrType] /\ mgr'[m].reg = R
      /\ \A n \in Mgrs : /\ mgr'[n].live = mgr[n].live /\ mgr'[n].q = mgr[n].q
                         /\ n # m => mgr'[n] = mgr[n]
  BY <1>1, <1>2, RegUpdate
<1>a. ASSUME NEW n \in Mgrs PROVE mgr[n].reg \subseteq mgr'[n].reg /\ mgr'[n].reg \subseteq mgr[n].reg \cup {s}
  BY <1>3, <1>1 DEF R
<1>4. /\ loop' \in LoopType /\ loop'.pc = "submit" /\ loop'.cur = loop.cur /\ loop'.cbs = {}
  BY <1>0, Types DEF Goto, LoopPcs
<1> HIDE DEF s, m
<1>5. Others(s)
  BY DEF Others, IInv, TypeOK
<1>6. StageInv'
  <2>1. StageOK(op[s], aio[s], "submit")
    BY <1>0 DEF StageOK
  <2> QED BY <1>0, <1>4, <1>5, <2>1, StageMoves DEF CoPcs, s
<1>7. TypeOK'
  BY <1>3, <1>4 DEF IInv, TypeOK
<1>8. OpInv' /\ LoopInv'
  BY <1>0, <1>4 DEF IInv, OpInv, LoopInv
<1>9. MgrInv'
  BY <1>1, <1>3 DEF IInv, MgrInv
<1>10. RegInv'
  <2>1. ASSUME NEW n \in Mgrs, NEW t \in mgr'[n].reg
        PROVE  /\ op'[t].home = n /\ (mgr'[n].live => op'[t].held)
               /\ op'[t].co # "running" => aio'[t].st # "new"
    <3>1. CASE t \in mgr[n].reg
      BY <1>3, <3>1 DEF IInv, RegInv
    <3>2. CASE t \notin mgr[n].reg
      <4>1. t = s /\ n = m
        BY <1>3, <1>a, <2>1, <3>2
      <4> QED BY <1>0, <4>1 DEF StageOK, m
    <3> QED BY <3>1, <3>2
  <2>2. ASSUME NEW t \in Slots, aio'[t].st \in {"busy", "ended"} PROVE t \in mgr'[op'[t].home].reg
    BY <1>a, <2>2, Homes DEF IInv, RegInv
  <2>3. s \in mgr'[m].reg
    BY <1>3 DEF R
  <2> QED BY <1>4, <2>1, <2>2, <2>3 DEF RegInv, m, s
<1>11. QueueInv'
  BY <1>0, <1>3, <1>4, <1>a DEF IInv, QueueInv
<1>12. WayInv'
  <2>1. \A t \in Slots : soon.set[t] # "none" => SoonOK(t)'
    BY <1>3, Homes DEF IInv, WayInv, SoonOK
  <2>2. \A t \in close.snap : SnapOK(t)'
    BY <1>4 DEF IInv, WayInv, SnapOK
  <2> QED BY <1>4, <2>1, <2>2 DEF WayInv
<1>13. PendingInv'
  <2>1. SUFFICES ASSUME close.by # "freethread", NEW t \in Slots, Submitted(t)', op[t].fut = "pending"
                 PROVE  Resolvable(t)'
    BY <1>4 DEF PendingInv
  <2>2. CASE t = s
    <3>1. mgr[m].live
      BY <1>0, <2>1 DEF IInv, PendingInv, m, s
    <3>2. mgr'[m].live /\ s \in mgr'[m].reg
      BY <1>1, <1>3, <3>1 DEF R
    <3>3. op'[s].home = m
      BY DEF m
    <3>4. m # 0
      BY <1>1 DEF Mgrs
    <3> QED BY <2>2, <3>2, <3>3, <3>4 DEF Resolvable
  <2>3. CASE t # s
    <3>1. Submitted(t)
      BY <1>4, <2>1, <2>3 DEF Submitted, s
    <3>2. Resolvable(t)
      BY <2>1, <3>1 DEF IInv, PendingInv
    <3>3. op[t].home # 0 => mgr'[op[t].home].live = mgr[op[t].home].live /\ mgr[op[t].home].reg \subseteq mgr'[op[t].home].reg
      BY <1>3, <1>a, Homes
    <3> QED BY <1>0, <1>4, <3>2, <3>3 DEF Resolvable
  <2> QED BY <2>2, <2>3
<1> QED BY <1>6, <1>7, <1>8, <1>9, <1>10, <1>11, <1>12, <1>13 DEF IInv

(* _prepare_submit.                                                        *)
LEMMA PrepareSubmitStep == ASSUME IInv, PrepareSubmit PROVE IInv'
<1>1. CASE op[loop.cur].dict
  BY <1>1, PrepareRegisters DEF PrepareSubmit, Registers
<1>2. CASE ~op[loop.cur].dict
  BY <1>2, PrepareFails DEF PrepareSubmit
<1> QED BY <1>1, <1>2

(* reach_skip_point, after the trampoline.                                 *)
LEMMA SkipUnregisters ==
    ASSUME IInv, At("skip"), aio[loop.cur].skip, Goto("sync"), Unregisters
    PROVE  IInv'
<1> DEFINE s == loop.cur
           m == op[s].home
           R == mgr[m].reg \ {s}
<1>0. /\ s \in Slots /\ op[s] \in OpType /\ aio[s] \in AioType /\ OpOK(op[s], aio[s])
      /\ loop \in LoopType /\ loop.cbs = {} /\ loop.pc = "skip"
      /\ StageOK(op[s], aio[s], "skip") /\ op[s].co = "running"
  BY At1, CoLoop DEF At, IInv, StageInv, CoPcs
<1>1. m \in Mgrs /\ ~(made < m) /\ R \subseteq Slots /\ aio[s].st = "idle"
  BY <1>0, Homes DEF StageOK
<1>2. mgr' = [mgr EXCEPT ![m].reg = R]
  BY DEF Unregisters
<1>b. UNCHANGED <<sock, made, op, aio, soon, close>>
  BY DEF Unregisters
<1> USE <1>b
<1> HIDE DEF R
<1>3. /\ mgr' \in [Mgrs -> MgrType] /\ mgr'[m].reg = R
      /\ \A n \in Mgrs : /\ mgr'[n].live = mgr[n].live /\ mgr'[n].q = mgr[n].q
                         /\ n # m => mgr'[n] = mgr[n]
  BY <1>1, <1>2, RegUpdate
<1>a. ASSUME NEW n \in Mgrs PROVE mgr'[n].reg \subseteq mgr[n].reg /\ mgr[n].reg \subseteq mgr'[n].reg \cup {s}
  BY <1>3, <1>1 DEF R
<1>4. /\ loop' \in LoopType /\ loop'.pc = "sync" /\ loop'.cur = loop.cur /\ loop'.cbs = {}
  BY <1>0, Types DEF Goto, LoopPcs
<1> HIDE DEF s, m
<1>5. Others(s)
  BY DEF Others, IInv, TypeOK
<1>6. StageInv'
  <2>1. StageOK(op[s], aio[s], "sync")
    BY <1>0, <1>1 DEF StageOK
  <2> QED BY <1>0, <1>4, <1>5, <2>1, StageMoves DEF CoPcs, s
<1>7. TypeOK'
  BY <1>3, <1>4 DEF IInv, TypeOK
<1>8. OpInv' /\ LoopInv'
  BY <1>0, <1>4 DEF IInv, OpInv, LoopInv
<1>9. MgrInv'
  BY <1>1, <1>3 DEF IInv, MgrInv
<1>10. RegInv'
  <2>1. ASSUME NEW n \in Mgrs, NEW t \in mgr'[n].reg
        PROVE  /\ op'[t].home = n /\ (mgr'[n].live => op'[t].held)
               /\ op'[t].co # "running" => aio'[t].st # "new"
    BY <1>3, <1>a, <2>1 DEF IInv, RegInv
  <2>2. ASSUME NEW t \in Slots, aio'[t].st \in {"busy", "ended"} PROVE t \in mgr'[op'[t].home].reg
    <3>1. t # s /\ op[t].home \in Mgrs /\ t \in mgr[op[t].home].reg
      BY <1>1, <2>2, Homes DEF IInv, RegInv
    <3> QED BY <1>a, <3>1
  <2> QED BY <1>4, <2>1, <2>2 DEF RegInv
<1>11. QueueInv'
  <2>1. SUFFICES ASSUME NEW n \in Mgrs, mgr[n].live, NEW t \in Range(mgr[n].q.items)
                 PROVE  t \in mgr'[n].reg /\ aio[t].st \in {"wake", "idle"}
    BY <1>3, <1>4 DEF IInv, QueueInv
  <2>2. t \in mgr[n].reg /\ t # s /\ aio[t].st \in {"wake", "idle"}
    BY <1>0, <2>1 DEF IInv, QueueInv, s
  <2> QED BY <1>a, <2>2
<1>12. WayInv'
  <2>1. \A t \in Slots : soon.set[t] # "none" => SoonOK(t)'
    BY <1>3, Homes DEF IInv, WayInv, SoonOK
  <2>2. \A t \in close.snap : SnapOK(t)'
    BY <1>4 DEF IInv, WayInv, SnapOK
  <2> QED BY <1>4, <2>1, <2>2 DEF WayInv
<1>13. PendingInv'
  <2>1. SUFFICES ASSUME close.by # "freethread", NEW t \in Slots, op[t].co = "await", op[t].fut = "pending"
                 PROVE  Resolvable(t)'
    BY <1>4 DEF PendingInv, Submitted
  <2>2. Resolvable(t) /\ t # s
    BY <1>0, <2>1 DEF IInv, PendingInv, Submitted
  <2>3. op[t].home # 0 =>
           /\ mgr'[op[t].home].live = mgr[op[t].home].live
           /\ t \in mgr[op[t].home].reg => t \in mgr'[op[t].home].reg
    BY <1>3, <1>a, <2>2, Homes
  <2> QED BY <1>0, <1>4, <2>2, <2>3 DEF Resolvable
<1> QED BY <1>6, <1>7, <1>8, <1>9, <1>10, <1>11, <1>12, <1>13 DEF IInv

(* reach_skip_point.                                                       *)
LEMMA SkipPointStep == ASSUME IInv, SkipPoint PROVE IInv'
<1>1. CASE aio[loop.cur].skip
  BY <1>1, SkipUnregisters DEF SkipPoint, Unregisters
<1>2. CASE ~aio[loop.cur].skip
  BY <1>2, SkipAwaits DEF SkipPoint
<1> QED BY <1>1, <1>2

(* get_aio_manager finds a manager, or makes one.                          *)
LEMMA ManagerFound ==
    ASSUME IInv, GetManager
    PROVE  \E m \in Mgrs :
             /\ op' = [op EXCEPT ![loop.cur].home = m]
             /\ mgr' \in [Mgrs -> MgrType] /\ made' \in 0..2 /\ sock' \in SockType
             /\ sock'.mgr = m /\ made' = m /\ sock'.handle = sock.handle
             /\ made <= m /\ (close.pc # "done" => m <= 1)
             /\ mgr'[m].live
             /\ ~mgr[m].live => /\ made < m /\ mgr[m] = NewMgr
             /\ \A n \in Mgrs : /\ mgr'[n].reg = mgr[n].reg /\ mgr'[n].q = mgr[n].q
                                /\ n # m => mgr'[n] = mgr[n] /\ ~mgr[n].live
<1>0. /\ made \in 0..2 /\ sock \in SockType /\ mgr \in [Mgrs -> MgrType] /\ close.pc # "resolve"
      /\ \A n \in Mgrs : mgr[n].live <=> n = sock.mgr
  BY DEF IInv, TypeOK, MgrInv, GetManager
<1>1. CASE sock.mgr # 0
  <2>1. sock.mgr \in Mgrs /\ sock.mgr = made
    BY <1>0, <1>1 DEF SockType, IInv, MgrInv
  <2>2. sock' = [sock EXCEPT !.mgr = sock.mgr] /\ made' = made /\ mgr' = mgr
    BY <1>1 DEF GetManager
  <2>3. sock' \in SockType /\ sock'.mgr = sock.mgr /\ sock'.handle = sock.handle
    BY <1>0, <2>2 DEF SockType
  <2>4. close.pc # "done" => made <= 1
    BY DEF IInv, MgrInv
  <2>5. op' = [op EXCEPT ![loop.cur].home = sock.mgr]
    BY <1>1 DEF GetManager
  <2>6. made <= sock.mgr
    BY <1>0, <2>1
  <2> QED BY <1>0, <2>1, <2>2, <2>3, <2>4, <2>5, <2>6
<1>2. CASE sock.mgr = 0
  <2> DEFINE m == made + 1
             g == [mgr[m] EXCEPT !.live = TRUE, !.reader = TRUE]
  <2>1. m \in Mgrs /\ made < m /\ made <= m /\ m \in 0..2
    BY <1>0, <1>2 DEF IInv, MgrInv, Mgrs
  <2>2. close.pc # "done" => m <= 1
    BY <1>0, <1>2 DEF IInv, MgrInv
  <2>3. mgr[m] = NewMgr /\ mgr[m] \in MgrType
    BY <1>0, <2>1 DEF IInv, MgrInv
  <2>4. g \in MgrType /\ g.live /\ g.reg = mgr[m].reg /\ g.q = mgr[m].q
    BY <2>3, Types
  <2>5. mgr' = [mgr EXCEPT ![m] = g] /\ made' = m /\ sock' = [sock EXCEPT !.mgr = m]
        /\ op' = [op EXCEPT ![loop.cur].home = m]
    BY <1>0, <1>2, <2>1 DEF GetManager
  <2> HIDE DEF g, m
  <2>6. mgr' \in [Mgrs -> MgrType] /\ mgr'[m] = g /\ \A n \in Mgrs \ {m} : mgr'[n] = mgr[n]
    BY <2>1, <2>4, <2>5, MgrUpdate DEF IInv
  <2>7. sock' \in SockType /\ sock'.mgr = m /\ sock'.handle = sock.handle
    BY <1>0, <2>1, <2>5 DEF SockType
  <2>8. \A n \in Mgrs : ~mgr[n].live
    BY <1>0, <1>2 DEF Mgrs
  <2> QED BY <2>1, <2>2, <2>3, <2>4, <2>5, <2>6, <2>7, <2>8
<1> QED BY <1>1, <1>2

(* get_aio_manager.                                                        *)
LEMMA GetManagerStep == ASSUME IInv, GetManager PROVE IInv'
<1> DEFINE s == loop.cur
<1>0. /\ s \in Slots /\ op[s] \in OpType /\ aio[s] \in AioType /\ OpOK(op[s], aio[s])
      /\ loop \in LoopType /\ loop.cbs = {} /\ loop.pc = "getmgr"
      /\ StageOK(op[s], aio[s], "getmgr") /\ op[s].co = "running"
      /\ UNCHANGED <<aio, soon, close>> /\ close.pc # "resolve"
  BY At1, CoLoop DEF GetManager, At, IInv, StageInv, CoPcs
<1>1. PICK m \in Mgrs :
             /\ op' = [op EXCEPT ![s].home = m]
             /\ mgr' \in [Mgrs -> MgrType] /\ made' \in 0..2 /\ sock' \in SockType
             /\ sock'.mgr = m /\ made' = m /\ sock'.handle = sock.handle
             /\ made <= m /\ (close.pc # "done" => m <= 1)
             /\ mgr'[m].live
             /\ ~mgr[m].live => /\ made < m /\ mgr[m] = NewMgr
             /\ \A n \in Mgrs : /\ mgr'[n].reg = mgr[n].reg /\ mgr'[n].q = mgr[n].q
                                /\ n # m => mgr'[n] = mgr[n] /\ ~mgr[n].live
  BY ManagerFound
<1> DEFINE o == [op[s] EXCEPT !.home = m]
<1>2. o \in OpType
  BY <1>0, Types
<1>3. /\ o.co = "running" /\ o.home = m /\ o.held = op[s].held /\ o.fut = op[s].fut /\ o.out = op[s].out
  BY <1>0, Types
<1>4. op' = [op EXCEPT ![s] = o]
  BY <1>1 DEF IInv, TypeOK
<1>5. /\ loop' \in LoopType /\ loop'.pc = "create" /\ loop'.cur = loop.cur /\ loop'.cbs = {}
  BY <1>0, Types DEF GetManager, Goto, LoopPcs
<1> HIDE DEF s, o
<1>6. op' \in [Slots -> OpType] /\ op'[s] = o /\ \A t \in Slots \ {s} : op'[t] = op[t]
  BY <1>0, <1>2, <1>4, OpUpdate DEF IInv
<1>7. Others(s)
  BY <1>0, <1>6 DEF Others, IInv, TypeOK
<1>8. m # 0 /\ op[s].home = 0 /\ aio[s].st = "new" /\ ~aio[s].skip
  BY <1>0 DEF StageOK, Mgrs
<1>r. \A n \in Mgrs : s \notin mgr[n].reg
  BY <1>8, Homes DEF Mgrs
<1>9. StageInv'
  <2>1. StageOK(o, aio[s], "create")
    BY <1>3, <1>8 DEF StageOK
  <2> QED BY <1>0, <1>3, <1>5, <1>6, <1>7, <2>1, StageMoves DEF CoPcs, s
<1>10. TypeOK'
  BY <1>0, <1>1, <1>5, <1>6 DEF IInv, TypeOK
<1>11. OpInv'
  <2>1. OpOK(o, aio[s])
    BY <1>0, <1>3, <1>8 DEF OpOK
  <2> QED BY <1>0, <1>6, <2>1 DEF IInv, OpInv
<1>12. LoopInv'
  <2>1. close.by = "loop" => FutureOK(o, aio[s])
    BY <1>0, <1>3 DEF IInv, LoopInv, FutureOK
  <2> QED BY <1>0, <1>5, <1>6, <2>1 DEF IInv, LoopInv
<1>13. MgrInv'
  <2>1. \A n \in Mgrs : mgr'[n].live <=> n = m
    BY <1>1
  <2>2. \A n \in Mgrs : m < n => mgr'[n] = NewMgr
    <3>1. \A n \in Mgrs : m < n => made < n /\ n # m
      BY <1>1 DEF Mgrs, IInv, TypeOK
    <3> QED BY <1>1, <3>1 DEF IInv, MgrInv
  <2>3. \A t \in Slots : op'[t].home <= m
    <3>1. \A t \in Slots : op[t].home <= made /\ op[t].home \in Nat
      BY Homes DEF IInv, MgrInv, Mgrs
    <3>2. \A t \in Slots \ {s} : op[t].home <= m
      BY <1>1, <3>1 DEF IInv, TypeOK, Mgrs
    <3>3. m <= m
      BY DEF Mgrs
    <3> QED BY <1>3, <1>6, <3>2, <3>3
  <2>4. close.pc \in {"release", "resolve", "done"} => ~sock'.handle
    BY <1>1 DEF IInv, MgrInv
  <2> QED BY <1>0, <1>1, <1>8, <2>1, <2>2, <2>3, <2>4 DEF MgrInv
<1>14. RegInv'
  <2>1. ASSUME NEW n \in Mgrs, NEW t \in mgr'[n].reg
        PROVE  /\ op'[t].home = n /\ (mgr'[n].live => op'[t].held)
               /\ op'[t].co # "running" => aio'[t].st # "new"
    <3>1. t \in mgr[n].reg /\ t # s /\ t \in Slots
      BY <1>1, <1>r, <2>1, Homes
    <3>2. mgr'[n].live => mgr[n].live
      <4>1. n = m /\ ~mgr[n].live => mgr[n].reg = {}
        BY <1>1 DEF NewMgr
      <4> QED BY <1>1, <3>1, <4>1
    <3> QED BY <1>0, <1>6, <3>1, <3>2 DEF IInv, RegInv
  <2>2. ASSUME NEW t \in Slots, aio'[t].st \in {"busy", "ended"} PROVE t \in mgr'[op'[t].home].reg
    <3>1. t # s /\ op[t].home \in Mgrs /\ t \in mgr[op[t].home].reg
      BY <1>0, <1>8, <2>2, Homes DEF IInv, RegInv
    <3> QED BY <1>1, <1>6, <3>1
  <2>3. s \notin mgr'[op'[s].home].reg
    BY <1>0, <1>1, <1>3, <1>6, <1>r
  <2> QED BY <1>5, <2>1, <2>2, <2>3 DEF RegInv, s
<1>15. QueueInv'
  <2>1. ASSUME NEW n \in Mgrs, mgr'[n].live
        PROVE  /\ Injective(mgr'[n].q.items)
               /\ \A t \in Range(mgr'[n].q.items) : t \in mgr'[n].reg /\ aio'[t].st \in {"wake", "idle"}
    <3>1. CASE mgr[n].live
      BY <1>0, <1>1, <3>1 DEF IInv, QueueInv
    <3>2. CASE ~mgr[n].live
      <4>1. mgr'[n].q.items = <<>>
        BY <1>1, <2>1, <3>2 DEF NewMgr, EmptyQueue
      <4> QED BY <4>1 DEF Injective, Range
    <3> QED BY <3>1, <3>2
  <2> QED BY <1>5, <2>1 DEF QueueInv
<1>16. WayInv'
  <2>1. close.snap = {}
    BY <1>0 DEF IInv, WayInv, SnapOK
  <2>2. ASSUME NEW t \in Slots, soon.set[t] # "none" PROVE SoonOK(t)'
    <3>1. SoonOK(t) /\ t # s
      BY <1>0, <1>8, <2>2 DEF IInv, WayInv, SoonOK
    <3>2. op[t].home # 0 => (mgr'[op[t].home].live => mgr[op[t].home].live)
      <4>1. ASSUME op[t].home = m, ~mgr[m].live PROVE FALSE
        BY <1>1, <4>1, Homes
      <4> QED BY <1>1, <4>1, Homes
    <3> QED BY <1>0, <1>6, <3>1, <3>2 DEF SoonOK
  <2> QED BY <1>0, <1>5, <2>1, <2>2 DEF WayInv
<1>17. PendingInv'
  <2>1. SUFFICES ASSUME close.by # "freethread"
                 PROVE  /\ mgr'[op'[s].home].live
                        /\ \A t \in Slots : op'[t].co = "await" /\ op'[t].fut = "pending" => Resolvable(t)'
    BY <1>0, <1>5 DEF PendingInv, Submitted, s
  <2>2. mgr'[op'[s].home].live
    BY <1>0, <1>1, <1>3, <1>6
  <2>3. ASSUME NEW t \in Slots, op'[t].co = "await", op'[t].fut = "pending" PROVE Resolvable(t)'
    <3>1. t # s /\ op'[t] = op[t]
      BY <1>3, <1>6, <2>3
    <3>2. Resolvable(t)
      BY <2>1, <2>3, <3>1 DEF IInv, PendingInv, Submitted
    <3>3. op[t].home # 0 => /\ mgr[op[t].home].live => mgr'[op[t].home].live
                            /\ mgr'[op[t].home].reg = mgr[op[t].home].reg
      BY <1>1, Homes
    <3> QED BY <1>0, <1>5, <3>1, <3>2, <3>3 DEF Resolvable
  <2> QED BY <2>2, <2>3
<1> QED BY <1>9, <1>10, <1>11, <1>12, <1>13, <1>14, <1>15, <1>16, <1>17 DEF IInv

(* The last reference goes.                                                *)
LEMMA FreeStep == ASSUME IInv, NEW s \in Slots, Free(s) PROVE IInv'
<1>0. /\ op[s].co = "done" /\ aio[s].st \in {"new", "idle"} /\ s # loop.cur
      /\ s \notin loop.cbs /\ s \notin close.snap
      /\ UNCHANGED <<sock, made, loop, soon, close>>
      /\ op' = [op EXCEPT ![s] = NewOp] /\ aio' = [aio EXCEPT ![s] = NewAio]
  BY At1 DEF Free, IInv, StageInv, OpOK
<1>1. /\ op' \in [Slots -> OpType] /\ op'[s] = NewOp /\ \A t \in Slots \ {s} : op'[t] = op[t]
  BY <1>0, NewTypes, OpUpdate DEF IInv
<1>2. /\ aio' \in [Slots -> AioType] /\ aio'[s] = NewAio /\ \A t \in Slots \ {s} : aio'[t] = aio[t]
  BY <1>0, NewTypes, AioUpdate DEF IInv
<1>3. ASSUME NEW n \in Mgrs
      PROVE  /\ mgr'[n] \in MgrType /\ mgr'[n].live = mgr[n].live /\ mgr'[n].q = mgr[n].q
             /\ mgr'[n].reg = mgr[n].reg \ {s}
             /\ mgr[n].live => s \notin mgr[n].reg
             /\ mgr[n] = NewMgr => mgr'[n] = NewMgr
  <2> DEFINE R == mgr[n].reg \ {s}
             g == [mgr[n] EXCEPT !.reg = R]
  <2>1. mgr[n] \in MgrType /\ R \subseteq Slots
    BY At1, Types
  <2>2. mgr'[n] = g /\ (mgr[n].live => s \notin mgr[n].reg)
    BY DEF Free
  <2>3. g \in MgrType /\ g.live = mgr[n].live /\ g.q = mgr[n].q /\ g.reg = R /\ g.reader = mgr[n].reader
    BY <2>1, Types
  <2> HIDE DEF g
  <2>4. mgr[n] = NewMgr => g.reg = mgr[n].reg
    BY <2>3 DEF NewMgr
  <2>5. g.reg = mgr[n].reg => g = mgr[n]
    BY <2>1, <2>3, Types
  <2> QED BY <2>2, <2>3, <2>4, <2>5
<1>m. mgr' \in [Mgrs -> MgrType]
  BY <1>3 DEF Free
<1>n. /\ NewOp.co = "free" /\ NewOp.home = 0 /\ NewOp.fut = "pending" /\ NewOp.out = "none"
      /\ NewAio.st = "new" /\ ~NewAio.skip /\ ~NewAio.effect
  BY DEF NewOp, NewAio
<1>o. Others(s)
  BY <1>1, <1>2 DEF Others
<1>4. StageInv'
  <2>1. \A t \in Slots : op'[t].co = "running" <=> op[t].co = "running"
    BY <1>0, <1>1, <1>n
  <2>2. loop.cur # NoOp => StageOK(op'[loop.cur], aio'[loop.cur], loop.pc)
    BY <1>0, <1>1, <1>2, At1 DEF IInv, StageInv
  <2> QED BY <1>0, <2>1, <2>2 DEF IInv, StageInv
<1>5. TypeOK'
  BY <1>0, <1>1, <1>2, <1>m DEF IInv, TypeOK
<1>6. OpInv'
  <2>1. OpOK(NewOp, NewAio)
    BY <1>n DEF OpOK
  <2> QED BY <1>1, <1>2, <2>1 DEF IInv, OpInv
<1>7. LoopInv'
  <2>1. FutureOK(NewOp, NewAio)
    BY <1>n DEF FutureOK
  <2> QED BY <1>0, <1>1, <1>2, <2>1 DEF IInv, LoopInv
<1>8. MgrInv'
  <2>1. \A t \in Slots : op'[t].home <= made
    <3>1. 0 <= made
      BY DEF IInv, TypeOK
    <3> QED BY <1>1, <1>n, <3>1 DEF IInv, MgrInv
  <2> QED BY <1>0, <1>3, <2>1 DEF IInv, MgrInv
<1>9. RegInv'
  <2>1. ASSUME NEW n \in Mgrs, NEW t \in mgr'[n].reg
        PROVE  /\ op'[t].home = n /\ (mgr'[n].live => op'[t].held)
               /\ op'[t].co # "running" => aio'[t].st # "new"
    <3>1. t \in mgr[n].reg /\ t \in Slots \ {s}
      BY <1>3, <2>1, Homes
    <3> QED BY <1>1, <1>2, <1>3, <3>1 DEF IInv, RegInv
  <2>2. ASSUME NEW t \in Slots, aio'[t].st \in {"busy", "ended"} PROVE t \in mgr'[op'[t].home].reg
    <3>1. t # s
      BY <1>2, <1>n, <2>2
    <3>2. op[t].home \in Mgrs /\ t \in mgr[op[t].home].reg
      BY <1>2, <2>2, <3>1, Homes DEF IInv, RegInv
    <3> QED BY <1>1, <1>3, <3>1, <3>2
  <2>3. ASSUME loop.cur # NoOp
        PROVE  /\ op'[loop.cur] = op[loop.cur]
               /\ loop.pc # "getmgr" => (loop.cur \in mgr[op[loop.cur].home].reg <=> loop.cur \in mgr'[op[loop.cur].home].reg)
    <3>1. loop.cur \in Slots \ {s} /\ StageOK(op[loop.cur], aio[loop.cur], loop.pc)
      BY <1>0, <2>3, At1 DEF IInv, StageInv
    <3>2. loop.pc # "getmgr" => op[loop.cur].home \in Mgrs
      BY <3>1, Homes DEF StageOK
    <3> QED BY <1>1, <1>3, <3>1, <3>2
  <2>4. /\ loop.pc = "submit" => loop.cur \in mgr'[op'[loop.cur].home].reg
        /\ loop.pc \in {"create", "prepare"} => loop.cur \notin mgr'[op'[loop.cur].home].reg
    BY <2>3 DEF IInv, RegInv, StageInv, CoPcs
  <2> QED BY <1>0, <2>1, <2>2, <2>4 DEF RegInv
<1>10. QueueInv'
  <2>1. SUFFICES ASSUME NEW n \in Mgrs, mgr[n].live, NEW t \in Range(mgr[n].q.items)
                 PROVE  t \in mgr'[n].reg /\ aio'[t].st \in {"wake", "idle"}
    BY <1>0, <1>3 DEF IInv, QueueInv
  <2>2. t \in mgr[n].reg /\ t # s /\ aio[t].st \in {"wake", "idle"} /\ t \in Slots
    BY <1>3, <2>1, Homes DEF IInv, QueueInv
  <2> QED BY <1>2, <1>3, <2>2
<1>11. WayInv'
  <2>1. ASSUME NEW t \in loop.cbs PROVE CbsOK(t)'
    <3>1. CbsOK(t) /\ t # s /\ t \in Slots
      BY <1>0, <2>1, At1, Types DEF IInv, WayInv
    <3>2. op[t].home \in Mgrs
      BY <3>1, Homes DEF CbsOK
    <3> QED BY <1>0, <1>1, <1>2, <1>3, <3>1, <3>2 DEF CbsOK
  <2>2. ASSUME NEW t \in close.snap PROVE SnapOK(t)'
    <3>1. SnapOK(t) /\ t # s /\ t \in Slots
      BY <1>0, <2>2 DEF IInv, WayInv, TypeOK
    <3> QED BY <1>0, <1>1, <1>2, <3>1 DEF SnapOK
  <2>3. ASSUME NEW t \in Slots, soon.set[t] # "none" PROVE SoonOK(t)'
    <3>1. SoonOK(t)
      BY <2>3 DEF IInv, WayInv
    <3>2. CASE t = s
      BY <1>0, <1>1, <1>n, <3>1, <3>2 DEF SoonOK
    <3>3. CASE t # s
      <4>1. op[t].home # 0 => mgr'[op[t].home].live = mgr[op[t].home].live
        BY <1>3, Homes
      <4> QED BY <1>0, <1>1, <3>1, <3>3, <4>1 DEF SoonOK
    <3> QED BY <3>2, <3>3
  <2> QED BY <1>0, <2>1, <2>2, <2>3 DEF WayInv
<1>12. PendingInv'
  <2>1. SUFFICES ASSUME close.by # "freethread"
                 PROVE  /\ loop.pc \in {"create", "prepare"} => mgr'[op'[loop.cur].home].live
                        /\ loop.pc = "prepare" => op'[loop.cur].dict
                        /\ \A t \in Slots : Submitted(t)' /\ op'[t].fut = "pending" => Resolvable(t)'
    BY <1>0 DEF PendingInv
  <2>2. ASSUME loop.pc \in {"create", "prepare"}
        PROVE  mgr'[op'[loop.cur].home].live /\ (loop.pc = "prepare" => op'[loop.cur].dict)
    <3>1. loop.cur \in Slots \ {s} /\ StageOK(op[loop.cur], aio[loop.cur], loop.pc)
      BY <1>0, <2>2, At1 DEF IInv, StageInv, CoPcs
    <3>2. op[loop.cur].home \in Mgrs
      BY <2>2, <3>1, Homes DEF StageOK
    <3> QED BY <1>1, <1>3, <2>1, <2>2, <3>1, <3>2 DEF IInv, PendingInv
  <2>3. ASSUME NEW t \in Slots, Submitted(t)', op'[t].fut = "pending" PROVE Resolvable(t)'
    <3>1. t # s
      BY <1>0, <1>1, <1>n, <2>3 DEF Submitted
    <3>2. Submitted(t) /\ op[t].fut = "pending" /\ op'[t] = op[t]
      BY <1>0, <1>1, <2>3, <3>1 DEF Submitted
    <3>3. Resolvable(t)
      BY <2>1, <3>2 DEF IInv, PendingInv
    <3>4. op[t].home # 0 => /\ mgr'[op[t].home].live = mgr[op[t].home].live
                            /\ t \in mgr[op[t].home].reg => t \in mgr'[op[t].home].reg
      BY <1>3, <3>1, Homes
    <3> QED BY <1>0, <3>2, <3>3, <3>4 DEF Resolvable
  <2> QED BY <2>2, <2>3
<1> QED BY <1>4, <1>5, <1>6, <1>7, <1>8, <1>9, <1>10, <1>11, <1>12 DEF IInv

-----------------------------------------------------------------------------
(* The poll callback.                                                      *)

(* drain_ready, and the callbacks of a live manager are popped.            *)
LEMMA PollPops ==
    ASSUME IInv, PollReady, mgr[loop.mgr].live
    PROVE  IInv'
<1> DEFINE m   == loop.mgr
           ids == mgr[m].q.items
           R   == mgr[m].reg \ Range(ids)
           z   == [mgr[m].q EXCEPT !.items = <<>>]
           g   == [mgr[m] EXCEPT !.q = z, !.reg = R]
           C   == Range(ids) \cap mgr[m].reg
<1>0. /\ loop.pc = "ready" /\ loop.cur = NoOp /\ loop.cbs = {} /\ loop \in LoopType
      /\ UNCHANGED <<sock, made, op, aio, soon, close>>
  BY At1, CoLoop DEF PollReady, At, IInv, StageInv, CoPcs
<1>1. m \in Mgrs /\ mgr[m] \in MgrType /\ mgr[m].q \in QueueType(Slots) /\ ids \in Seq(Slots)
  <2>1. m \in Mgrs
    BY <1>0, Types DEF IInv, StageInv
  <2>2. mgr[m] \in MgrType
    BY <2>1, At1
  <2> QED BY <2>1, <2>2, Types DEF QueueType
<1>2. R \subseteq Slots /\ C \subseteq Slots
  BY <1>1, Homes
<1>3. z \in QueueType(Slots) /\ z.items = <<>>
  <2>1. <<>> \in Seq(Slots)
    OBVIOUS
  <2> QED BY <1>1, <2>1 DEF QueueType
<1>4. mgr' = [mgr EXCEPT ![m] = g]
  BY <1>1 DEF PollReady, DrainReady, IInv, TypeOK
<1>5. loop' = [loop EXCEPT !.pc = "handle", !.batch = ids, !.cbs = C]
  BY DEF PollReady
<1> HIDE DEF R, z, C
<1>6. g \in MgrType /\ g.live = mgr[m].live /\ g.reg = R /\ g.q = z
  BY <1>1, <1>2, <1>3, Types
<1> HIDE DEF g
<1>7. mgr' \in [Mgrs -> MgrType] /\ mgr'[m] = g /\ \A n \in Mgrs \ {m} : mgr'[n] = mgr[n]
  BY <1>1, <1>4, <1>6, MgrUpdate DEF IInv
<1> HIDE DEF ids
<1>8. loop' \in LoopType /\ loop'.pc = "handle" /\ loop'.cur = NoOp /\ loop'.batch = ids /\ loop'.cbs = C
  BY <1>0, <1>1, <1>2, <1>5, Types DEF LoopPcs
<1>9. /\ mgr[m].live /\ m = sock.mgr /\ close.pc # "resolve"
      /\ \A t \in Range(ids) : t \in mgr[m].reg /\ aio[t].st \in {"wake", "idle"}
  BY <1>1 DEF IInv, MgrInv, QueueInv, ids
<1> HIDE DEF m
<1>a. C = Range(ids) /\ R = mgr[m].reg \ C
  BY <1>9 DEF C, R
<1>b. ASSUME NEW n \in Mgrs
      PROVE  /\ mgr'[n].live = mgr[n].live /\ mgr'[n].reg \subseteq mgr[n].reg
             /\ mgr[n].reg \subseteq mgr'[n].reg \cup C
  BY <1>1, <1>6, <1>7, <1>a
<1>10. StageInv'
  BY <1>0, <1>8 DEF IInv, StageInv, CoPcs
<1>11. TypeOK'
  BY <1>0, <1>7, <1>8 DEF IInv, TypeOK
<1>12. OpInv' /\ LoopInv'
  BY <1>0, <1>8 DEF IInv, OpInv, LoopInv
<1>13. MgrInv'
  <2>1. ~(made < m)
    <3>1. made < m => ~mgr[m].live
      BY <1>1 DEF IInv, MgrInv, NewMgr
    <3> QED BY <1>9, <3>1
  <2>2. \A n \in Mgrs : made < n => mgr'[n] = mgr[n]
    BY <1>7, <2>1
  <2> QED BY <1>0, <1>b, <2>2 DEF IInv, MgrInv
<1>14. RegInv'
  <2>1. ASSUME NEW n \in Mgrs, NEW t \in mgr'[n].reg
        PROVE  /\ op'[t].home = n /\ (mgr'[n].live => op'[t].held)
               /\ op'[t].co # "running" => aio'[t].st # "new"
    BY <1>0, <1>b, <2>1 DEF IInv, RegInv
  <2>2. ASSUME NEW t \in Slots, aio'[t].st \in {"busy", "ended"} PROVE t \in mgr'[op'[t].home].reg
    <3>1. t \notin C /\ op[t].home \in Mgrs /\ t \in mgr[op[t].home].reg
      BY <1>0, <1>9, <1>a, <2>2, Homes DEF IInv, RegInv
    <3> QED BY <1>0, <1>b, <3>1
  <2> QED BY <1>8, <2>1, <2>2 DEF RegInv
<1>15. QueueInv'
  <2>1. ASSUME NEW n \in Mgrs, mgr'[n].live
        PROVE  /\ Injective(mgr'[n].q.items)
               /\ \A t \in Range(mgr'[n].q.items) : t \in mgr'[n].reg /\ aio'[t].st \in {"wake", "idle"}
    <3>1. CASE n # m
      BY <1>0, <1>7, <2>1, <3>1 DEF IInv, QueueInv
    <3>2. CASE n = m
      <4>1. mgr'[n].q.items = <<>>
        BY <1>3, <1>6, <1>7, <3>2
      <4> QED BY <4>1 DEF Injective, Range
    <3> QED BY <3>1, <3>2
  <2> QED BY <1>8, <2>1 DEF QueueInv
<1>16. WayInv'
  <2>1. ASSUME NEW t \in C PROVE CbsOK(t)'
    <3>1. t \in Range(ids) /\ t \in mgr[m].reg /\ aio[t].st \in {"wake", "idle"} /\ t \in Slots
      BY <1>2, <1>9, <1>a, <2>1
    <3>2. op[t].home = m /\ op[t].held
      BY <1>1, <1>9, <3>1 DEF IInv, RegInv
    <3>3. t \notin close.snap
      BY <1>9 DEF IInv, WayInv, SnapOK
    <3>4. soon.set[t] = "none"
      BY <1>1, <1>9, <3>1, <3>2 DEF IInv, WayInv, SoonOK, Mgrs
    <3>5. t \notin mgr'[m].reg
      BY <1>6, <1>7, <1>a, <2>1
    <3>6. m # 0
      BY <1>1 DEF Mgrs
    <3> QED BY <1>0, <1>8, <3>1, <3>2, <3>3, <3>4, <3>5, <3>6 DEF CbsOK
  <2>2. \A t \in close.snap : SnapOK(t)'
    BY <1>0, <1>8 DEF IInv, WayInv, SnapOK
  <2>3. \A t \in Slots : soon.set[t] # "none" => SoonOK(t)'
    BY <1>0, <1>b, Homes DEF IInv, WayInv, SoonOK
  <2> QED BY <1>0, <1>8, <2>1, <2>2, <2>3 DEF WayInv
<1>17. PendingInv'
  <2>1. SUFFICES ASSUME close.by # "freethread", NEW t \in Slots, op[t].co = "await", op[t].fut = "pending"
                 PROVE  Resolvable(t)'
    BY <1>0, <1>8 DEF PendingInv, Submitted
  <2>2. Resolvable(t)
    BY <2>1 DEF IInv, PendingInv, Submitted
  <2>3. op[t].home # 0 =>
           /\ mgr'[op[t].home].live = mgr[op[t].home].live
           /\ t \in mgr[op[t].home].reg => t \in mgr'[op[t].home].reg \cup C
    BY <1>b, Homes
  <2> QED BY <1>0, <1>8, <2>2, <2>3 DEF Resolvable
<1> QED BY <1>10, <1>11, <1>12, <1>13, <1>14, <1>15, <1>16, <1>17 DEF IInv

(* drain_ready of a released manager.                                      *)
LEMMA PollDrops ==
    ASSUME IInv, PollReady, ~mgr[loop.mgr].live
    PROVE  IInv'
<1> DEFINE m == loop.mgr
           z == [mgr[m].q EXCEPT !.items = <<>>]
           R == mgr[m].reg
           g == [mgr[m] EXCEPT !.q = z, !.reg = R]
<1>0. /\ loop.pc = "ready" /\ loop.cur = NoOp /\ loop.cbs = {} /\ loop \in LoopType
      /\ UNCHANGED <<sock, made, op, aio, soon, close>> /\ loop' = Selecting
  BY At1, CoLoop DEF PollReady, At, IInv, StageInv, CoPcs
<1>1. m \in Mgrs /\ mgr[m] \in MgrType /\ mgr[m].q \in QueueType(Slots) /\ R \subseteq Slots
  <2>1. m \in Mgrs
    BY <1>0, Types DEF IInv, StageInv
  <2>2. mgr[m] \in MgrType
    BY <2>1, At1
  <2> QED BY <2>1, <2>2, Types
<1>2. z \in QueueType(Slots) /\ z.items = <<>> /\ z.bytes = mgr[m].q.bytes
  <2>1. <<>> \in Seq(Slots)
    OBVIOUS
  <2> QED BY <1>1, <2>1 DEF QueueType
<1>3. mgr' = [mgr EXCEPT ![m] = g]
  BY <1>1 DEF PollReady, DrainReady, IInv, TypeOK
<1> HIDE DEF z, R
<1>4. g \in MgrType /\ g.live = mgr[m].live /\ g.reg = R /\ g.q = z /\ g.reader = mgr[m].reader
  BY <1>1, <1>2, Types
<1> HIDE DEF g
<1>5. mgr' \in [Mgrs -> MgrType] /\ mgr'[m] = g /\ \A n \in Mgrs \ {m} : mgr'[n] = mgr[n]
  BY <1>1, <1>3, <1>4, MgrUpdate DEF IInv
<1>6. made < m => g = mgr[m]
  <2>1. SUFFICES ASSUME mgr[m] = NewMgr PROVE g = mgr[m]
    BY <1>1 DEF IInv, MgrInv
  <2>2. mgr[m].q.items = <<>>
    BY <2>1 DEF NewMgr, EmptyQueue
  <2>3. z = mgr[m].q
    BY <1>1, <1>2, <2>2 DEF QueueType
  <2> QED BY <1>1, <1>4, <2>3, Types DEF R
<1>7. loop' \in LoopType /\ loop'.pc = "select" /\ loop'.cur = NoOp /\ loop'.cbs = {}
  BY <1>0, NewTypes DEF Selecting
<1>8. LoopSame
  BY <1>0, <1>7 DEF LoopSame
<1>9. \A t \in Slots : SlotSame(t)
  BY <1>0, <1>8, Untouched
<1>10. DictSame
  BY <1>0, <1>4, <1>5, <1>6 DEF DictSame, R
<1>11. CloseSame
  BY <1>0, <1>7 DEF CloseSame, IInv, LoopInv
<1>12. TypeOK'
  BY <1>0, <1>5, <1>7 DEF IInv, TypeOK
<1>13. StageInv'
  BY <1>0, <1>7 DEF IInv, StageInv, CoPcs
<1>14. QueueInv'
  <2>1. ~g.live
    BY <1>4
  <2> QED BY <1>0, <1>5, <1>7, <2>1 DEF IInv, QueueInv
<1> QED BY <1>8, <1>9, <1>10, <1>11, <1>12, <1>13, <1>14, KeepDicts

(* drain_ready.                                                            *)
LEMMA PollReadyStep == ASSUME IInv, PollReady PROVE IInv'
BY PollPops, PollDrops

(* _dispatch_complete takes a future that is held.                         *)
LEMMA TakesFuture ==
    ASSUME IInv, NEW s \in Slots, op[s].held, op[s].home # 0, aio[s].st # "new", DispatchComplete(s)
    PROVE  /\ op' \in [Slots -> OpType] /\ \A t \in Slots \ {s} : op'[t] = op[t]
           /\ op'[s].co = op[s].co /\ op'[s].home = op[s].home /\ op'[s].out = op[s].out
           /\ op'[s].dict = op[s].dict /\ op'[s].cancel = op[s].cancel
           /\ op'[s].fut # "pending"
           /\ aio[s].st = "idle"
           /\ OpOK(op'[s], aio[s])
           /\ close.by = "loop" => FutureOK(op'[s], aio[s])
<1> DEFINE r == aio[s].result
           v == IF op[s].fut = "pending" THEN r ELSE op[s].fut
           o == [op[s] EXCEPT !.held = FALSE, !.fut = v]
<1>0. op[s] \in OpType /\ aio[s] \in AioType /\ OpOK(op[s], aio[s]) /\ ~Busy(s)
  BY At1 DEF DispatchComplete
<1>1. aio[s].st = "idle"
  BY <1>0, Types DEF Busy, Sts
<1>2. v \in Futs /\ v # "pending"
  BY <1>0, Types DEF Futs, Rs, Errors
<1>3. op' = [op EXCEPT ![s] = o]
  BY <1>0, Types DEF DispatchComplete, SetFuture, IInv, TypeOK
<1>4. v = "ok" => r = "ok" \/ op[s].fut = "ok"
  OBVIOUS
<1> HIDE DEF v
<1>5. /\ o \in OpType /\ o.co = op[s].co /\ o.home = op[s].home /\ o.out = op[s].out
      /\ o.dict = op[s].dict /\ o.cancel = op[s].cancel /\ o.fut = v
  BY <1>0, <1>2, Types
<1> HIDE DEF o
<1>6. op' \in [Slots -> OpType] /\ op'[s] = o /\ \A t \in Slots \ {s} : op'[t] = op[t]
  BY <1>3, <1>5, OpUpdate DEF IInv
<1>7. OpOK(o, aio[s])
  BY <1>0, <1>5 DEF OpOK
<1>8. close.by = "loop" => FutureOK(o, aio[s])
  BY <1>1, <1>4, <1>5 DEF IInv, LoopInv, FutureOK
<1> QED BY <1>1, <1>2, <1>5, <1>6, <1>7, <1>8

(* One step of the poll callback's loop.                                   *)
LEMMA PollHandleStep == ASSUME IInv, PollHandle PROVE IInv'
<1>0. /\ loop.pc = "handle" /\ loop.cur = NoOp /\ loop \in LoopType /\ loop.batch \in Seq(Slots)
      /\ loop.cbs \subseteq Slots
      /\ UNCHANGED <<sock, made, mgr, aio, soon, close>>
  BY At1, Types DEF PollHandle, At, IInv, StageInv, CoPcs
<1>1. CASE loop.batch = <<>>
  <2>1. loop' = Selecting /\ op' = op
    BY <1>1 DEF PollHandle
  <2>2. loop.cbs = {}
    BY <1>1 DEF IInv, WayInv, CbsOK, Range
  <2>3. MgrSame /\ mgr' \in [Mgrs -> MgrType]
    BY <1>0 DEF MgrSame, DictSame, IInv, TypeOK
  <2> QED BY <1>0, <2>1, <2>2, <2>3, CallbackEnds
<1>2. CASE loop.batch # <<>>
  <2> DEFINE s == Head(loop.batch)
             b == Tail(loop.batch)
             C == loop.cbs \ {s}
  <2>1. s \in Slots /\ b \in Seq(Slots) /\ \A x \in Range(loop.batch) : x # s => x \in Range(b)
    BY <1>0, <1>2, TailBatch
  <2>2. loop' = [loop EXCEPT !.batch = b, !.cbs = C]
    BY <1>2 DEF PollHandle
  <2>3. IF s \in loop.cbs THEN DispatchComplete(s) ELSE UNCHANGED op
    BY <1>2 DEF PollHandle
  <2>c. C \subseteq Slots /\ C = loop.cbs \ {s}
    BY <1>0
  <2> HIDE DEF s, b, C
  <2>4. loop' \in LoopType /\ loop'.pc = "handle" /\ loop'.cur = NoOp /\ loop'.batch = b /\ loop'.cbs = C
    BY <1>0, <2>1, <2>2, <2>c, Types
  <2>5. ASSUME NEW t \in C PROVE CbsOK(t) /\ t \in Range(b) /\ t \in Slots /\ t # s
    BY <2>1, <2>5, <2>c DEF IInv, WayInv, CbsOK
  <2>6. CASE s \notin loop.cbs
    <3>1. op' = op /\ C = loop.cbs
      BY <2>3, <2>6, <2>c
    <3>2. TypeOK'
      BY <1>0, <2>4, <3>1 DEF IInv, TypeOK
    <3>3. StageInv'
      BY <1>0, <2>4, <3>1 DEF IInv, StageInv, CoPcs
    <3>4. OpInv' /\ LoopInv' /\ MgrInv'
      BY <1>0, <2>4, <3>1 DEF IInv, OpInv, LoopInv, MgrInv
    <3>5. RegInv' /\ QueueInv'
      BY <1>0, <2>4, <3>1 DEF IInv, RegInv, QueueInv
    <3>6. WayInv'
      <4>1. \A t \in C : CbsOK(t)'
        BY <1>0, <2>4, <2>5, <3>1 DEF CbsOK
      <4> QED BY <1>0, <2>4, <3>1, <4>1 DEF IInv, WayInv, SnapOK, SoonOK
    <3>7. PendingInv'
      BY <1>0, <2>4, <3>1 DEF IInv, PendingInv, Submitted, Resolvable
    <3> QED BY <3>2, <3>3, <3>4, <3>5, <3>6, <3>7 DEF IInv
  <2>7. CASE s \in loop.cbs
    <3>1. CbsOK(s) /\ DispatchComplete(s)
      BY <2>3, <2>7 DEF IInv, WayInv
    <3>a. aio[s].st # "new" /\ op[s].held /\ op[s].home # 0
      BY <3>1 DEF CbsOK
    <3>2. /\ op' \in [Slots -> OpType] /\ \A t \in Slots \ {s} : op'[t] = op[t]
          /\ op'[s].co = op[s].co /\ op'[s].home = op[s].home /\ op'[s].fut # "pending"
          /\ OpOK(op'[s], aio[s]) /\ (close.by = "loop" => FutureOK(op'[s], aio[s]))
      BY <2>1, <3>1, <3>a, TakesFuture
    <3>3. TypeOK'
      BY <1>0, <2>4, <3>2 DEF IInv, TypeOK
    <3>4. StageInv'
      <4>1. \A t \in Slots : op'[t].co = op[t].co
        BY <3>2
      <4> QED BY <1>0, <2>4, <4>1 DEF IInv, StageInv, CoPcs
    <3>5. OpInv'
      BY <1>0, <3>2 DEF IInv, OpInv
    <3>6. LoopInv'
      BY <1>0, <2>4, <3>2 DEF IInv, LoopInv
    <3>h. \A t \in Slots : op'[t].home = op[t].home
      BY <3>2
    <3>7. MgrInv'
      BY <1>0, <3>h DEF IInv, MgrInv
    <3>8. \A m \in Mgrs : s \notin mgr[m].reg
      BY <3>1, Homes DEF CbsOK
    <3>9. RegInv'
      <4>1. ASSUME NEW n \in Mgrs, NEW t \in mgr[n].reg
            PROVE  /\ op'[t].home = n /\ (mgr[n].live => op'[t].held)
                   /\ op'[t].co # "running" => aio[t].st # "new"
        <5>1. t \in Slots \ {s}
          BY <3>8, Homes
        <5> QED BY <3>2, <5>1 DEF IInv, RegInv
      <4> QED BY <1>0, <2>4, <3>h, <4>1 DEF IInv, RegInv
    <3>10. QueueInv'
      BY <1>0, <2>4 DEF IInv, QueueInv
    <3>11. WayInv'
      <4>1. \A t \in C : CbsOK(t)'
        BY <1>0, <2>4, <2>5, <3>2 DEF CbsOK
      <4>2. ASSUME NEW t \in close.snap PROVE SnapOK(t)'
        <5>1. SnapOK(t) /\ t \in Slots \ {s}
          BY <3>1 DEF CbsOK, IInv, WayInv, TypeOK
        <5> QED BY <1>0, <2>4, <3>2, <5>1 DEF SnapOK
      <4>3. \A t \in Slots : op'[t].co = op[t].co
        BY <3>2
      <4>4. \A t \in Slots : soon.set[t] # "none" => SoonOK(t)'
        BY <1>0, <3>h, <4>3 DEF IInv, WayInv, SoonOK
      <4> QED BY <1>0, <2>4, <4>1, <4>2, <4>4 DEF WayInv
    <3>12. PendingInv'
      <4>1. SUFFICES ASSUME close.by # "freethread", NEW t \in Slots, op'[t].co = "await", op'[t].fut = "pending"
                     PROVE  Resolvable(t)'
        BY <1>0, <2>4 DEF PendingInv, Submitted
      <4>2. t # s /\ op'[t] = op[t]
        BY <3>2, <4>1
      <4>3. Resolvable(t)
        BY <4>1, <4>2 DEF IInv, PendingInv, Submitted
      <4> QED BY <1>0, <2>4, <2>c, <4>2, <4>3 DEF Resolvable
    <3> QED BY <3>3, <3>4, <3>5, <3>6, <3>7, <3>9, <3>10, <3>11, <3>12 DEF IInv
  <2> QED BY <2>6, <2>7
<1> QED BY <1>1, <1>2

(* A scheduled call resolves its future.                                   *)
LEMMA RunSetFutureStep == ASSUME IInv, NEW s \in Slots, RunSetFuture(s) PROVE IInv'
<1> DEFINE r == soon.set[s]
           v == IF op[s].fut = "pending" THEN r ELSE op[s].fut
           o == [op[s] EXCEPT !.fut = v]
<1>0. /\ loop.pc = "select" /\ loop.cur = NoOp /\ loop.cbs = {} /\ loop \in LoopType
      /\ op[s] \in OpType /\ OpOK(op[s], aio[s]) /\ r # "none"
      /\ UNCHANGED <<sock, made, mgr, aio, loop, close>>
  BY At1, CoLoop DEF RunSetFuture, At, IInv, StageInv, CoPcs
<1>1. /\ soon' \in [remove : SUBSET Mgrs, set : [Slots -> {"none", "ok"} \cup Errors]]
      /\ soon'.set[s] = "none" /\ \A t \in Slots \ {s} : soon'.set[t] = soon.set[t]
      /\ r \in {"none", "ok"} \cup Errors
  BY DEF RunSetFuture, IInv, TypeOK
<1>2. v \in Futs /\ v # "pending"
  BY <1>0, <1>1, Types DEF Futs, Errors
<1>3. op' = [op EXCEPT ![s] = o]
  BY <1>0, Types DEF RunSetFuture, SetFuture, IInv, TypeOK
<1>4. close.by # "loop"
  BY <1>0 DEF IInv, WayInv, SoonOK
<1> HIDE DEF v
<1>5. /\ o \in OpType /\ o.co = op[s].co /\ o.home = op[s].home /\ o.out = op[s].out
      /\ o.held = op[s].held /\ o.fut = v
  BY <1>0, <1>2, Types
<1> HIDE DEF o, r
<1>6. op' \in [Slots -> OpType] /\ op'[s] = o /\ \A t \in Slots \ {s} : op'[t] = op[t]
  BY <1>3, <1>5, OpUpdate DEF IInv
<1>h. \A t \in Slots : op'[t].home = op[t].home /\ op'[t].co = op[t].co /\ op'[t].held = op[t].held
  BY <1>5, <1>6
<1>7. TypeOK'
  BY <1>0, <1>1, <1>6 DEF IInv, TypeOK
<1>8. StageInv'
  BY <1>0, <1>h DEF IInv, StageInv, CoPcs
<1>9. OpInv'
  <2>1. OpOK(o, aio[s])
    BY <1>0, <1>5 DEF OpOK
  <2> QED BY <1>0, <1>6, <2>1 DEF IInv, OpInv
<1>10. LoopInv' /\ MgrInv'
  BY <1>0, <1>4, <1>h DEF IInv, LoopInv, MgrInv
<1>11. RegInv'
  <2>1. \A n \in Mgrs : \A t \in mgr[n].reg : op'[t].home = op[t].home /\ op'[t].co = op[t].co /\ op'[t].held = op[t].held
    BY <1>h, Homes
  <2> QED BY <1>0, <1>h, <2>1 DEF IInv, RegInv
<1>12. QueueInv'
  BY <1>0 DEF IInv, QueueInv
<1>13. WayInv'
  <2>1. ASSUME NEW t \in close.snap PROVE SnapOK(t)'
    <3>1. SnapOK(t) /\ t \in Slots
      BY DEF IInv, WayInv, TypeOK
    <3> QED BY <1>0, <1>h, <3>1 DEF SnapOK
  <2>2. \A t \in Slots : soon'.set[t] # "none" => SoonOK(t)'
    BY <1>0, <1>1, <1>h DEF IInv, WayInv, SoonOK
  <2> QED BY <1>0, <2>1, <2>2 DEF WayInv
<1>14. PendingInv'
  <2>1. SUFFICES ASSUME close.by # "freethread", NEW t \in Slots, op'[t].co = "await", op'[t].fut = "pending"
                 PROVE  Resolvable(t)'
    BY <1>0 DEF PendingInv, Submitted
  <2>2. t # s /\ op'[t] = op[t]
    BY <1>2, <1>5, <1>6, <2>1
  <2>3. Resolvable(t)
    BY <2>1, <2>2 DEF IInv, PendingInv, Submitted
  <2> QED BY <1>0, <1>1, <2>2, <2>3 DEF Resolvable
<1> QED BY <1>7, <1>8, <1>9, <1>10, <1>11, <1>12, <1>13, <1>14 DEF IInv

-----------------------------------------------------------------------------
(* release() and what follows it.                                          *)

(* The dict of the cached manager is copied and dropped.                   *)
LEMMA CloseReleaseStep == ASSUME IInv, CloseRelease PROVE IInv'
<1> DEFINE m == sock.mgr
           S == IF m = 0 THEN {} ELSE mgr[m].reg
<1>0. /\ close.pc = "release" /\ GilAvailable /\ loop.pc # "ready"
      /\ UNCHANGED <<sock, made, op, aio, loop>>
      /\ close' = [close EXCEPT !.pc = "resolve", !.snap = S]
  BY DEF CloseRelease, At
<1>1. m \in {0} \cup Mgrs /\ m = made /\ made <= 1 /\ ~sock.handle
      /\ \A n \in Mgrs : mgr[n].live <=> n = m
  BY <1>0 DEF IInv, TypeOK, SockType, MgrInv
<1>2. S \subseteq Slots
  BY <1>1, Homes
<1>3. mgr' \in [Mgrs -> MgrType]
      /\ \A n \in Mgrs : /\ ~mgr'[n].live /\ mgr'[n].reg = mgr[n].reg /\ mgr'[n].q = mgr[n].q
                         /\ n # m => mgr'[n] = mgr[n]
  <2>1. CASE m = 0
    <3>1. mgr' = mgr
      BY <2>1 DEF CloseRelease
    <3> QED BY <1>1, <2>1, <3>1 DEF IInv, TypeOK, Mgrs
  <2>2. CASE m # 0
    <3> DEFINE g == [mgr[m] EXCEPT !.live = FALSE]
    <3>1. m \in Mgrs /\ mgr[m] \in MgrType
      BY <1>1, <2>2, At1
    <3>2. g \in MgrType /\ ~g.live /\ g.reg = mgr[m].reg /\ g.q = mgr[m].q
      BY <3>1, Types
    <3>3. mgr' = [mgr EXCEPT ![m] = g]
      BY <2>2, <3>1 DEF CloseRelease, IInv, TypeOK
    <3> HIDE DEF g, m
    <3>4. mgr' \in [Mgrs -> MgrType] /\ mgr'[m] = g /\ \A n \in Mgrs \ {m} : mgr'[n] = mgr[n]
      BY <3>1, <3>2, <3>3, MgrUpdate DEF IInv
    <3> QED BY <1>1, <3>2, <3>4
  <2> QED BY <2>1, <2>2
<1>4. soon'.set = soon.set /\ soon' \in [remove : SUBSET Mgrs, set : [Slots -> {"none", "ok"} \cup Errors]]
  <2>1. CASE m = 0
    BY <2>1 DEF CloseRelease, IInv, TypeOK
  <2>2. CASE m # 0
    BY <1>1, <2>2 DEF CloseRelease, IInv, TypeOK
  <2> QED BY <2>1, <2>2
<1>a. ASSUME NEW t \in S PROVE m \in Mgrs /\ t \in mgr[m].reg /\ mgr[m].live /\ op[t].home = m /\ t \in Slots
  BY <1>1, <1>a, Homes DEF Mgrs
<1>s. ASSUME NEW t \in Slots, op[t].home \in Mgrs, mgr[op[t].home].live, t \in mgr[op[t].home].reg PROVE t \in S
  BY <1>1, <1>s DEF Mgrs
<1> HIDE DEF S, m
<1>5. /\ close' \in [by : Closers, pc : ClosePcs, snap : SUBSET Slots]
      /\ close'.by = close.by /\ close'.pc = "resolve" /\ close'.snap = S
  BY <1>0, <1>2 DEF IInv, TypeOK, ClosePcs
<1>6. \A t \in Slots : soon.set[t] = "none"
  BY <1>0 DEF IInv, WayInv, SoonOK
<1>7. close.snap = {}
  BY <1>0 DEF IInv, WayInv, SnapOK
<1>8. TypeOK'
  BY <1>0, <1>3, <1>4, <1>5 DEF IInv, TypeOK
<1>9. StageInv' /\ OpInv'
  BY <1>0 DEF IInv, StageInv, OpInv
<1>10. LoopInv'
  BY <1>0, <1>5 DEF IInv, LoopInv
<1>11. MgrInv'
  <2>1. \A n \in Mgrs : made < n => n # m
    BY <1>1 DEF Mgrs
  <2>2. sock.mgr = made /\ made <= 1 /\ ~sock.handle
    BY <1>1 DEF m
  <2>3. \A n \in Mgrs : made < n => mgr'[n] = NewMgr
    BY <1>3, <2>1 DEF IInv, MgrInv
  <2>4. \A t \in Slots : op[t].home <= made
    BY DEF IInv, MgrInv
  <2> QED BY <1>0, <1>3, <1>5, <2>2, <2>3, <2>4 DEF MgrInv
<1>12. RegInv'
  <2>1. \A t \in Slots : aio[t].st \in {"busy", "ended"} => t \in mgr'[op[t].home].reg
    BY <1>3, Homes DEF IInv, RegInv
  <2>2. loop.pc \in {"submit", "create", "prepare"} => mgr'[op[loop.cur].home].reg = mgr[op[loop.cur].home].reg
    <3>1. SUFFICES ASSUME loop.pc \in {"submit", "create", "prepare"} PROVE op[loop.cur].home \in Mgrs
      BY <1>3
    <3>2. loop.cur \in Slots /\ StageOK(op[loop.cur], aio[loop.cur], loop.pc)
      BY <3>1, At1 DEF IInv, StageInv, CoPcs
    <3> QED BY <3>1, <3>2, Homes DEF StageOK
  <2> QED BY <1>0, <1>3, <2>1, <2>2 DEF IInv, RegInv
<1>13. QueueInv'
  BY <1>3 DEF QueueInv
<1>14. WayInv'
  <2>1. ASSUME NEW t \in loop.cbs PROVE CbsOK(t)'
    <3>1. CbsOK(t) /\ t \in Slots /\ op[t].home \in Mgrs
      BY <2>1, At1, Types, Homes DEF IInv, WayInv, CbsOK
    <3>2. t \notin S
      BY <1>a, <3>1 DEF CbsOK
    <3> QED BY <1>0, <1>3, <1>4, <1>5, <3>1, <3>2 DEF CbsOK
  <2>2. ASSUME NEW t \in S PROVE SnapOK(t)'
    <3>1. m \in Mgrs /\ t \in mgr[m].reg /\ mgr[m].live /\ op[t].home = m /\ t \in Slots
      BY <1>a, <2>2
    <3>2. op[t].held /\ (op[t].co # "running" => aio[t].st # "new")
      BY <3>1 DEF IInv, RegInv
    <3>3. close.by = "loop" => op[t].co # "running"
      <4>1. close.by = "loop" => loop.pc = "closing"
        BY <1>0 DEF IInv, LoopInv
      <4> QED BY <3>1, <4>1, SlotsAssumption DEF IInv, StageInv, CoPcs
    <3>4. op[t].home # 0
      BY <3>1 DEF Mgrs
    <3>5. ~(t = loop.cur /\ loop.pc \in {"create", "prepare"})
      BY <3>1 DEF IInv, RegInv
    <3> QED BY <1>0, <1>5, <3>2, <3>3, <3>4, <3>5 DEF SnapOK
  <2> QED BY <1>0, <1>4, <1>5, <1>6, <2>1, <2>2 DEF WayInv
<1>15. PendingInv'
  <2>1. SUFFICES ASSUME close.by # "freethread"
                 PROVE  /\ loop.pc \notin {"create", "prepare"}
                        /\ \A t \in Slots : Submitted(t) /\ op[t].fut = "pending" => Resolvable(t)'
    BY <1>0, <1>5 DEF PendingInv, Submitted
  <2>2. loop.pc \notin {"create", "prepare"}
    BY <1>0, <2>1 DEF GilAvailable
  <2>3. ASSUME NEW t \in Slots, Submitted(t), op[t].fut = "pending" PROVE Resolvable(t)'
    <3>1. Resolvable(t)
      BY <2>1, <2>3 DEF IInv, PendingInv
    <3>2. CASE op[t].home # 0 /\ mgr[op[t].home].live /\ t \in mgr[op[t].home].reg
      <4>1. t \in S
        BY <1>s, <3>2, Homes
      <4> QED BY <1>5, <4>1 DEF Resolvable
    <3>3. CASE t \in loop.cbs
      BY <1>0, <3>3 DEF Resolvable
    <3> QED BY <1>6, <1>7, <3>1, <3>2, <3>3 DEF Resolvable
  <2> QED BY <2>2, <2>3
<1> QED BY <1>8, <1>9, <1>10, <1>11, <1>12, <1>13, <1>14, <1>15 DEF IInv

(* A future that release() copied is taken: f is its new state, and r what *)
(* is scheduled for it.                                                    *)
LEMMA Resolves ==
    ASSUME IInv, NEW s \in close.snap, close.pc = "resolve", UNCHANGED <<sock, made, mgr, aio, loop>>,
           close' = [close EXCEPT !.snap = @ \ {s}],
           op' \in [Slots -> OpType], \A t \in Slots \ {s} : op'[t] = op[t],
           op'[s].co = op[s].co, op'[s].home = op[s].home, op'[s].dict = op[s].dict,
           op'[s].cancel = op[s].cancel, op'[s].fut = op[s].fut \/ op'[s].fut # "pending",
           op'[s].fut = "pending" => soon'.set[s] # "none",
           OpOK(op'[s], aio[s]), close.by = "loop" => FutureOK(op'[s], aio[s]),
           soon' \in [remove : SUBSET Mgrs, set : [Slots -> {"none", "ok"} \cup Errors]],
           \A t \in Slots \ {s} : soon'.set[t] = soon.set[t],
           soon'.set[s] # "none" => close.by # "loop"
    PROVE  IInv'
<1> DEFINE C == close.snap \ {s}
<1>0. s \in Slots /\ close.snap \subseteq Slots /\ SnapOK(s) /\ C \subseteq Slots
  BY DEF IInv, TypeOK, WayInv
<1>1. \A n \in Mgrs : ~mgr[n].live
  BY DEF IInv, MgrInv
<1>2. /\ close' \in [by : Closers, pc : ClosePcs, snap : SUBSET Slots]
      /\ close'.by = close.by /\ close'.pc = "resolve" /\ close'.snap = close.snap \ {s}
  BY <1>0 DEF IInv, TypeOK
<1>h. \A t \in Slots : op'[t].home = op[t].home /\ op'[t].co = op[t].co /\ op'[t].dict = op[t].dict
  BY <1>0
<1>3. TypeOK'
  BY <1>2 DEF IInv, TypeOK
<1>4. StageInv'
  <2>1. ASSUME loop.cur # NoOp PROVE StageOK(op'[loop.cur], aio[loop.cur], loop.pc)
    <3>1. loop.cur \in Slots /\ StageOK(op[loop.cur], aio[loop.cur], loop.pc)
      BY <2>1, At1 DEF IInv, StageInv
    <3>2. CASE loop.cur # s
      BY <3>1, <3>2
    <3>3. CASE loop.cur = s
      BY <1>0, <3>1, <3>3 DEF StageOK, SnapOK
    <3> QED BY <3>2, <3>3
  <2> QED BY <1>h, <2>1 DEF IInv, StageInv
<1>5. OpInv'
  BY <1>0 DEF IInv, OpInv
<1>6. LoopInv'
  BY <1>0, <1>2 DEF IInv, LoopInv
<1>7. MgrInv'
  BY <1>2, <1>h DEF IInv, MgrInv
<1>8. RegInv'
  <2>1. \A n \in Mgrs : \A t \in mgr[n].reg : op'[t].home = op[t].home /\ op'[t].co = op[t].co
    BY <1>h, Homes
  <2>2. \A t \in Slots : aio[t].st \in {"busy", "ended"} => t \in mgr[op'[t].home].reg
    BY <1>h DEF IInv, RegInv
  <2>3. loop.cur # NoOp => op'[loop.cur].home = op[loop.cur].home
    BY <1>h, At1
  <2> QED BY <1>1, <2>1, <2>2, <2>3 DEF IInv, RegInv, StageInv, CoPcs
<1>9. QueueInv'
  BY <1>1 DEF QueueInv
<1>10. WayInv'
  <2>1. ASSUME NEW t \in loop.cbs PROVE CbsOK(t)'
    <3>1. CbsOK(t) /\ t \in Slots \ {s}
      BY <2>1, At1, Types DEF IInv, WayInv, CbsOK
    <3> QED BY <1>2, <3>1 DEF CbsOK
  <2>2. ASSUME NEW t \in close'.snap PROVE SnapOK(t)'
    <3>1. SnapOK(t) /\ t \in Slots \ {s}
      BY <1>0, <1>2, <2>2 DEF IInv, WayInv
    <3> QED BY <1>2, <3>1 DEF SnapOK
  <2>3. ASSUME NEW t \in Slots, soon'.set[t] # "none" PROVE SoonOK(t)'
    <3>1. CASE t = s
      <4>1. op[s].home \in Mgrs
        BY <1>0, Homes DEF SnapOK
      <4> QED BY <1>0, <1>1, <1>2, <2>3, <3>1, <4>1 DEF SoonOK, SnapOK
    <3>2. CASE t # s
      <4>1. SoonOK(t)
        BY <2>3, <3>2 DEF IInv, WayInv
      <4> QED BY <1>2, <3>2, <4>1 DEF SoonOK
    <3> QED BY <3>1, <3>2
  <2> QED BY <2>1, <2>2, <2>3 DEF WayInv
<1>11. PendingInv'
  <2>1. SUFFICES ASSUME close.by # "freethread"
                 PROVE  /\ loop.pc \in {"create", "prepare"} => mgr[op'[loop.cur].home].live
                        /\ loop.pc = "prepare" => op'[loop.cur].dict
                        /\ \A t \in Slots : Submitted(t)' /\ op'[t].fut = "pending" => Resolvable(t)'
    BY <1>2 DEF PendingInv
  <2>2. loop.cur # NoOp => op'[loop.cur].home = op[loop.cur].home /\ op'[loop.cur].dict = op[loop.cur].dict
    BY <1>h, At1
  <2>3. /\ loop.pc \in {"create", "prepare"} => mgr[op'[loop.cur].home].live
        /\ loop.pc = "prepare" => op'[loop.cur].dict
    BY <2>1, <2>2 DEF IInv, PendingInv, StageInv, CoPcs
  <2>4. ASSUME NEW t \in Slots, Submitted(t)', op'[t].fut = "pending" PROVE Resolvable(t)'
    <3>1. CASE t = s
      BY <2>4, <3>1 DEF Resolvable
    <3>2. CASE t # s
      <4>1. op'[t] = op[t] /\ Submitted(t)
        BY <2>4, <3>2 DEF Submitted
      <4>2. Resolvable(t)
        BY <2>1, <2>4, <4>1 DEF IInv, PendingInv
      <4> QED BY <1>2, <3>2, <4>1, <4>2 DEF Resolvable
    <3> QED BY <3>1, <3>2
  <2> QED BY <2>3, <2>4
<1> QED BY <1>3, <1>4, <1>5, <1>6, <1>7, <1>8, <1>9, <1>10, <1>11 DEF IInv

(* A copied callback is called.                                            *)
LEMMA CloseResolveStep == ASSUME IInv, NEW s \in Slots, CloseResolve(s) PROVE IInv'
<1>0. /\ s \in close.snap /\ close.pc = "resolve" /\ UNCHANGED <<sock, made, mgr, aio, loop>>
      /\ close' = [close EXCEPT !.snap = @ \ {s}]
      /\ op[s].held /\ op[s].home # 0 /\ (close.by = "loop" => aio[s].st # "new")
      /\ op[s] \in OpType /\ aio[s] \in AioType /\ OpOK(op[s], aio[s])
  BY At1 DEF CloseResolve, IInv, WayInv, SnapOK
<1>1. CASE close.by = "loop"
  <2>1. DispatchComplete(s) /\ soon' = soon /\ aio[s].st # "new"
    BY <1>0, <1>1 DEF CloseResolve
  <2>2. /\ op' \in [Slots -> OpType] /\ \A t \in Slots \ {s} : op'[t] = op[t]
        /\ op'[s].co = op[s].co /\ op'[s].home = op[s].home
        /\ op'[s].dict = op[s].dict /\ op'[s].cancel = op[s].cancel
        /\ op'[s].fut # "pending"
        /\ OpOK(op'[s], aio[s]) /\ (close.by = "loop" => FutureOK(op'[s], aio[s]))
    BY <1>0, <2>1, TakesFuture
  <2>3. soon'.set[s] = "none"
    BY <1>1, <2>1 DEF IInv, WayInv, SoonOK
  <2>4. soon' \in [remove : SUBSET Mgrs, set : [Slots -> {"none", "ok"} \cup Errors]]
    BY <2>1 DEF IInv, TypeOK
  <2> QED BY <1>0, <2>1, <2>2, <2>3, <2>4, Resolves
<1>2. CASE close.by # "loop"
  <2> DEFINE o == [op[s] EXCEPT !.held = FALSE]
             r == aio[s].result
  <2>1. op' = [op EXCEPT ![s] = o] /\ soon' = [soon EXCEPT !.set[s] = r]
    BY <1>0, <1>2 DEF CloseResolve, IInv, TypeOK
  <2>2. /\ o \in OpType /\ o.co = op[s].co /\ o.home = op[s].home /\ o.dict = op[s].dict
        /\ o.cancel = op[s].cancel /\ o.fut = op[s].fut /\ o.out = op[s].out
    BY <1>0, Types
  <2>3. r \in Rs
    BY <1>0, Types
  <2> HIDE DEF o, r
  <2>4. op' \in [Slots -> OpType] /\ op'[s] = o /\ \A t \in Slots \ {s} : op'[t] = op[t]
    BY <2>1, <2>2, OpUpdate DEF IInv
  <2>5. /\ soon' \in [remove : SUBSET Mgrs, set : [Slots -> {"none", "ok"} \cup Errors]]
        /\ soon'.set[s] = r /\ \A t \in Slots \ {s} : soon'.set[t] = soon.set[t]
    BY <2>1, <2>3 DEF IInv, TypeOK, Rs
  <2>6. OpOK(o, aio[s])
    BY <1>0, <2>2 DEF OpOK
  <2>7. r # "none"
    BY <2>3 DEF Rs, Errors
  <2> QED BY <1>0, <1>2, <2>2, <2>4, <2>5, <2>6, <2>7, Resolves
<1> QED BY <1>1, <1>2

(* The managers are forgotten.                                             *)
LEMMA CloseEndStep == ASSUME IInv, CloseEnd PROVE IInv'
<1>0. /\ close.pc = "resolve" /\ close.snap = {} /\ GilAvailable
      /\ close' = [close EXCEPT !.pc = "done"] /\ sock' = [sock EXCEPT !.mgr = 0]
      /\ UNCHANGED <<made, mgr, op, aio, soon>>
  BY DEF CloseEnd, CloseAt
<1>1. /\ close' \in [by : Closers, pc : ClosePcs, snap : SUBSET Slots]
      /\ close'.by = close.by /\ close'.pc = "done" /\ close'.snap = {}
  BY <1>0 DEF IInv, TypeOK, ClosePcs
<1>2. sock' \in SockType /\ sock'.mgr = 0 /\ sock'.handle = sock.handle
  BY <1>0 DEF IInv, TypeOK, SockType
<1>3. /\ loop' \in LoopType /\ loop'.cur = loop.cur /\ loop'.cbs = loop.cbs
      /\ close.by # "loop" => loop' = loop
      /\ close.by = "loop" => loop.pc = "closing" /\ loop'.pc = "select" /\ loop.cur = NoOp /\ loop.cbs = {}
  <2>1. CASE close.by = "loop"
    <3>1. loop.pc = "closing" /\ loop.cur = NoOp /\ loop.cbs = {}
      BY <1>0, <2>1, CoLoop DEF IInv, LoopInv, StageInv, CoPcs
    <3>2. loop' = Selecting
      BY <2>1 DEF CloseEnd
    <3> QED BY <2>1, <3>1, <3>2, NewTypes DEF Selecting
  <2>2. CASE close.by # "loop"
    BY <2>2, At1 DEF CloseEnd
  <2> QED BY <2>1, <2>2
<1>4. \A n \in Mgrs : ~mgr[n].live
  BY <1>0 DEF IInv, MgrInv
<1>5. TypeOK'
  BY <1>0, <1>1, <1>2, <1>3 DEF IInv, TypeOK
<1>6. StageInv'
  BY <1>0, <1>3 DEF IInv, StageInv, CoPcs
<1>7. OpInv' /\ LoopInv'
  BY <1>0, <1>1, <1>3 DEF IInv, OpInv, LoopInv
<1>8. MgrInv'
  <2>1. \A n \in Mgrs : n # 0
    BY DEF Mgrs
  <2> QED BY <1>0, <1>1, <1>2, <1>4, <2>1 DEF IInv, MgrInv
<1>9. RegInv' /\ QueueInv'
  BY <1>0, <1>3, <1>4 DEF IInv, RegInv, QueueInv
<1>10. WayInv'
  <2>1. \A t \in loop.cbs : CbsOK(t)'
    BY <1>0, <1>1, <1>3 DEF IInv, WayInv, CbsOK
  <2>2. \A t \in Slots : soon.set[t] # "none" => SoonOK(t)'
    BY <1>0, <1>1 DEF IInv, WayInv, SoonOK
  <2> QED BY <1>0, <1>1, <1>3, <2>1, <2>2 DEF WayInv
<1>11. PendingInv'
  <2>1. SUFFICES ASSUME close.by # "freethread"
                 PROVE  /\ loop'.pc \notin {"create", "prepare"}
                        /\ \A t \in Slots : Submitted(t)' /\ op[t].fut = "pending" => Resolvable(t)'
    BY <1>0, <1>1 DEF PendingInv
  <2>2. loop'.pc \notin {"create", "prepare"}
    BY <1>0, <1>3, <2>1 DEF GilAvailable
  <2>3. ASSUME NEW t \in Slots, Submitted(t)', op[t].fut = "pending" PROVE Resolvable(t)'
    <3>1. Submitted(t)
      BY <1>0, <1>3, <2>3 DEF Submitted
    <3>2. Resolvable(t)
      BY <2>1, <2>3, <3>1 DEF IInv, PendingInv
    <3> QED BY <1>0, <1>1, <1>3, <3>2 DEF Resolvable
  <2> QED BY <2>2, <2>3
<1> QED BY <1>5, <1>6, <1>7, <1>8, <1>9, <1>10, <1>11 DEF IInv

-----------------------------------------------------------------------------
(* The invariant.                                                          *)

(* It holds at the start ...                                               *)
LEMMA InitIInv == Init => IInv
<1> SUFFICES ASSUME Init PROVE IInv
  OBVIOUS
<1>0. /\ sock.handle /\ sock.mgr = 0 /\ sock \in SockType /\ made = 0
      /\ loop = Selecting /\ loop.pc = "select" /\ loop.cur = NoOp /\ loop.cbs = {}
      /\ close.pc = "open" /\ close.snap = {}
      /\ close \in [by : Closers, pc : ClosePcs, snap : SUBSET Slots]
      /\ \A s \in Slots : soon.set[s] = "none"
      /\ soon \in [remove : SUBSET Mgrs, set : [Slots -> {"none", "ok"} \cup Errors]]
  BY DEF Init, Selecting, ClosePcs, SockType
<1>1. /\ \A m \in Mgrs : mgr[m] = NewMgr
      /\ \A s \in Slots : op[s] = NewOp /\ aio[s] = NewAio
      /\ NewMgr.reg = {} /\ ~NewMgr.live
  BY DEF Init, NewMgr
<1>n. /\ NewOp.co = "free" /\ NewOp.home = 0 /\ NewOp.fut = "pending" /\ NewOp.out = "none"
      /\ NewAio.st = "new" /\ ~NewAio.skip /\ ~NewAio.effect
  BY DEF NewOp, NewAio
<1>2. TypeOK
  <2>1. mgr \in [Mgrs -> MgrType] /\ op \in [Slots -> OpType] /\ aio \in [Slots -> AioType]
    BY NewTypes DEF Init
  <2> QED BY <1>0, <2>1, NewTypes DEF TypeOK
<1>3. OpInv
  BY <1>1, <1>n DEF OpInv, OpOK
<1>4. StageInv
  BY <1>0, <1>1, <1>n, SlotsAssumption DEF StageInv, CoPcs
<1>5. MgrInv
  BY <1>0, <1>1, <1>n DEF MgrInv, Mgrs
<1>6. RegInv /\ QueueInv
  BY <1>0, <1>1, <1>n DEF RegInv, QueueInv
<1>7. WayInv
  BY <1>0 DEF WayInv
<1>8. PendingInv
  BY <1>0, <1>1, <1>n DEF PendingInv, Submitted
<1>9. LoopInv
  BY <1>0, <1>1, <1>n DEF LoopInv, FutureOK
<1> QED BY <1>2, <1>3, <1>4, <1>5, <1>6, <1>7, <1>8, <1>9 DEF IInv

(* ... and every step keeps it.                                            *)
LEMMA NextIInv == IInv /\ [Next]_vars => IInv'
<1> SUFFICES ASSUME IInv, [Next]_vars PROVE IInv'
  OBVIOUS
<1>1. ASSUME NEW s \in Slots, NEW k \in Kinds, Call(s, k) PROVE IInv'
  BY <1>1, CallStep
<1>2. CASE UNCHANGED vars
  BY <1>2 DEF vars, IInv, TypeOK, OpInv, StageInv, MgrInv, RegInv, QueueInv, WayInv, PendingInv,
              LoopInv, CbsOK, SnapOK, SoonOK, Submitted, Resolvable
<1>3. CASE CallOnClosed
  BY <1>2, <1>3 DEF CallOnClosed
<1>4. CASE CoroutineStep
  BY <1>4, GetManagerStep, CreateAioStep, PrepareSubmitStep, SubmitStep, SkipPointStep,
     FinishSyncStep, FinishStep DEF CoroutineStep
<1>5. CASE PollStep
  BY <1>5, PollReadyStep, PollHandleStep DEF PollStep
<1>6. ASSUME NEW m \in Mgrs, PollWakeup(m) \/ RunRemoveReader(m) PROVE IInv'
  BY <1>6, PollWakeupStep, RunRemoveReaderStep
<1>7. ASSUME NEW s \in Slots, Resume(s) \/ RunSetFuture(s) PROVE IInv'
  BY <1>7, ResumeStep, RunSetFutureStep
<1>8. ASSUME NEW s \in Slots, CancelTask(s) \/ Free(s) PROVE IInv'
  BY <1>8, CancelTaskStep, FreeStep
<1>9. ASSUME NEW s \in Slots, NEW r \in {"ok", "timeout"}, Complete(s, r) PROVE IInv'
  BY <1>9, CompleteStep
<1>10. ASSUME NEW s \in Slots, NngCallback(s) PROVE IInv'
  BY <1>10, FireStep, FireWakeStep DEF NngCallback
<1>11. CASE CloseStart
  BY <1>11, CloseStartStep
<1>12. CASE CloseStep
  BY <1>12, CloseNngStep, CloseClearIdStep, CloseReleaseStep, CloseEndStep, CloseResolveStep DEF CloseStep
<1>13. CASE LoopStep
  BY <1>13, <1>4, <1>5, <1>6, <1>7 DEF LoopStep
<1> QED BY <1>1, <1>2, <1>3, <1>8, <1>9, <1>10, <1>11, <1>12, <1>13 DEF Next

LEMMA SpecIInv == Spec => []IInv
BY InitIInv, NextIInv, PTL DEF Spec

-----------------------------------------------------------------------------
(* The managers, operations, aios, the loop and close() always have their  *)
(* types: in particular get_aio_manager never makes a third manager, and a *)
(* coroutine never returns a future that is still pending.                 *)
THEOREM TypeCorrect == Spec => []TypeOK
<1>1. IInv => TypeOK
  BY DEF IInv
<1> QED BY SpecIInv, <1>1, PTL

(* With a GIL, an awaited future always has somebody who will resolve it:  *)
(* no interleaving of asend or arecv with the poll callback and with       *)
(* close() on another thread loses a completion.                           *)
THEOREM AwaitResolved == Spec => []AwaitHasResolverWithGil
<1>1. IInv => AwaitHasResolverWithGil
  <2>1. SUFFICES ASSUME IInv, close.by # "freethread", NEW s \in Slots, op[s].co = "await",
                        op[s].fut = "pending"
                 PROVE  Resolvers(s) # {}
    BY DEF AwaitHasResolverWithGil, AwaitHasResolver
  <2>2. Resolvable(s)
    BY <2>1 DEF IInv, PendingInv, Submitted
  <2> QED BY <2>2 DEF Resolvable, Resolvers
<1> QED BY SpecIInv, <1>1, PTL

(* The poll callback and release() never both hold the completion of one   *)
(* operation, with or without a GIL.                                       *)
THEOREM ResolvedOnce == Spec => []OneResolver
<1>1. IInv => OneResolver
  <2> SUFFICES ASSUME IInv, NEW s \in Slots, NEW r1 \in Resolvers(s), NEW r2 \in Resolvers(s)
               PROVE  r1 = r2
    BY DEF OneResolver
  <2>1. "dict" \in Resolvers(s) => op[s].home \in Mgrs /\ mgr[op[s].home].live /\ s \in mgr[op[s].home].reg
    BY Homes DEF Resolvers
  <2>2. "batch" \in Resolvers(s) => CbsOK(s)
    BY DEF Resolvers, IInv, WayInv
  <2>3. "snap" \in Resolvers(s) => SnapOK(s) /\ s \in close.snap
    BY DEF Resolvers, IInv, WayInv
  <2>4. "soon" \in Resolvers(s) => SoonOK(s) /\ soon.set[s] # "none"
    BY DEF Resolvers, IInv, WayInv
  <2>5. close.pc = "resolve" => \A m \in Mgrs : ~mgr[m].live
    BY DEF IInv, MgrInv
  <2>6. "dict" \in Resolvers(s) => {"batch", "snap", "soon"} \cap Resolvers(s) = {}
    BY <2>1, <2>2, <2>3, <2>4, <2>5 DEF CbsOK, SnapOK, SoonOK, Mgrs
  <2>7. "batch" \in Resolvers(s) => {"snap", "soon"} \cap Resolvers(s) = {}
    BY <2>2, <2>3, <2>4 DEF CbsOK
  <2>8. "snap" \in Resolvers(s) => "soon" \notin Resolvers(s)
    BY <2>3, <2>4 DEF SoonOK
  <2>9. Resolvers(s) \subseteq {"dict", "batch", "snap", "soon"}
    BY DEF Resolvers
  <2> QED BY <2>6, <2>7, <2>8, <2>9
<1> QED BY SpecIInv, <1>1, PTL

(* An id in the queue of a live manager names the operation that has this  *)
(* address now, however often addresses are reused.                        *)
THEOREM QueuedCurrent == Spec => []QueuedIdIsCurrent
<1>1. IInv => QueuedIdIsCurrent
  <2> SUFFICES ASSUME IInv, NEW m \in Mgrs, mgr[m].live
               PROVE  /\ \A i, j \in DOMAIN mgr[m].q.items :
                            mgr[m].q.items[i] = mgr[m].q.items[j] => i = j
                      /\ \A s \in Range(mgr[m].q.items) :
                            /\ s \in mgr[m].reg /\ op[s].home = m
                            /\ aio[s].st \in {"wake", "idle"} /\ op[s].held
    BY DEF QueuedIdIsCurrent
  <2>1. Injective(mgr[m].q.items)
    BY DEF IInv, QueueInv
  <2>2. \A s \in Range(mgr[m].q.items) : s \in mgr[m].reg /\ aio[s].st \in {"wake", "idle"}
    BY DEF IInv, QueueInv
  <2>3. \A s \in mgr[m].reg : op[s].home = m /\ op[s].held
    BY DEF IInv, RegInv
  <2> QED BY <2>1, <2>2, <2>3 DEF Injective
<1> QED BY SpecIInv, <1>1, PTL

(* When only the loop's own thread closes the socket, asend and arecv      *)
(* report success only for what nng did, and fail only with nng's error or *)
(* a cancellation.                                                         *)
THEOREM OutcomesReal == Spec => []OutcomesAreRealOnLoop
<1>1. IInv => OutcomesAreRealOnLoop
  BY DEF IInv, LoopInv, FutureOK, OutcomesAreRealOnLoop, OutcomesAreReal, OutcomeIsReal
<1> QED BY SpecIInv, <1>1, PTL
=============================================================================
