-------------------------- MODULE CalculatorProofs --------------------------
(***************************************************************************)
(* The REP server of the conversation example keeps its books for any      *)
(* number of clients, contexts, connections and repeated requests: a       *)
(* context that waits has one manager that will release it, an inbox never *)
(* overflows, and a running manager is the one its pipe is known for.  And *)
(* a session never gets answers of two conversations.                      *)
(*                                                                         *)
(* The first three do not hold by themselves.  IInv adds what a manager    *)
(* may hold in each state of its task (RecordOk), that only a reported     *)
(* pipe has put a None into an inbox, and that _clients keeps naming a     *)
(* manager until its task is over or its pipe is reported (KnownInv).  The *)
(* last one rests on LaterInv: no handshake is on a connection that its    *)
(* session made behind the handshake.                                      *)
(***************************************************************************)
EXTENDS Calculator, SequenceTheorems, TLAPS

Fields == {"pc", "running", "inbox", "cur", "snd", "app"}
Live == {"ready", "work", "send"}

\* The four contents an inbox can have.
InboxForm(q) ==
    \/ q = <<>>
    \/ q = <<Gone>>
    \/ \E k \in Contexts : q = <<k>> \/ q = <<k, Gone>>

\* What a manager's record holds in each state of its task.
RecordOk(r) ==
    /\ DOMAIN r = Fields
    /\ r.pc \in Live \cup {"unborn", "done", "over"}
    /\ r.running \in BOOLEAN
    /\ r.running => r.pc \in Live
    /\ InboxForm(r.inbox)
    /\ r.pc \notin Live => r.inbox = <<>>
    /\ r.cur \in Contexts \cup {NoCtx} /\ r.snd \in Contexts \cup {NoCtx}
    /\ r.cur # NoCtx <=> r.pc = "work"
    /\ r.snd # NoCtx <=> r.pc = "send"
    /\ r.pc = "work" => r.inbox \in {<<>>, <<Gone>>}
    /\ r.snd \notin Range(r.inbox)

MgrInv == DOMAIN mgr = Managers /\ \A m \in Managers : RecordOk(mgr[m])

Bodies == {Start, Quit} \cup {s.script[c][i] : s \in Scenarios, c \in Clients, i \in Nat}

WireInv == wire \in [Pipes -> Seq(Requests(Bodies))]

CtxInv ==
    /\ DOMAIN ctx = Contexts
    /\ \A k \in Contexts :
          /\ DOMAIN ctx[k] = {"st", "msg"}
          /\ ctx[k].st \in {"got", "wait"} => ctx[k].msg.pipe \in Pipes

ClientInv ==
    /\ DOMAIN cl = Clients
    /\ \A c \in Clients :
          /\ DOMAIN cl[c] = {"pc", "step", "conn", "answers", "resent", "script"}
          /\ cl[c].step \in Nat
          /\ cl[c].conn \in 1..MaxConns
          /\ \E s \in Scenarios : cl[c].script = s.script[c]

\* _clients and the managers.
KnownInv ==
    /\ clients \in [Pipes -> Managers \cup {NoManager}]
    /\ \A p \in Pipes :
          clients[p] # NoManager => PipeOf(clients[p]) = p /\ mgr[clients[p]].pc # "unborn"
    /\ \A m \in Managers :
          /\ mgr[m].pc \notin {"unborn", "over"} /\ PipeOf(m) \notin reported
                => clients[PipeOf(m)] = m
          /\ Gone \in Range(mgr[m].inbox) => PipeOf(m) \in reported

\* SlotHasOneHolder, one holder at a time.
HeldIn(r) == HeldBy(r) \cup {r.snd}
SlotInv ==
    \A k \in Contexts :
        /\ \A m \in Managers :
              k \in HeldIn(mgr[m]) =>
                  ctx[k].st = "wait" /\ PipeOf(m) = ctx[k].msg.pipe /\ mgr[m].pc \in Live
        /\ \A m, n \in Managers : k \in HeldIn(mgr[m]) /\ k \in HeldIn(mgr[n]) => m = n
        /\ ctx[k].st = "wait" => \E m \in Managers : k \in HeldIn(mgr[m])

IInv == MgrInv /\ WireInv /\ CtxInv /\ ClientInv /\ KnownInv /\ SlotInv

USE RepServerAssumption

-----------------------------------------------------------------------------
(* Inboxes.                                                                *)

(* What short inboxes hold.                                                *)
LEMMA RangeEmpty == Range(<<>>) = {}
BY DEF Range

LEMMA RangeOne == \A a : Range(<<a>>) = {a}
BY DEF Range

LEMMA RangeTwo == \A a, b : Range(<<a, b>>) = {a, b}
<1> TAKE a, b
<1>1. DOMAIN <<a, b>> = {1, 2}
  OBVIOUS
<1>2. <<a, b>>[1] = a /\ <<a, b>>[2] = b
  OBVIOUS
<1> QED BY <1>1, <1>2 DEF Range

(* get_nowait() takes the first item.                                      *)
LEMMA TakeOne == \A a : Head(<<a>>) = a /\ Tail(<<a>>) = <<>>
OBVIOUS

LEMMA TakeTwo == \A a, b : Head(<<a, b>>) = a /\ Tail(<<a, b>>) = <<b>>
OBVIOUS

(* put_nowait() behind an item.                                            *)
LEMMA PutSecond == \A a, b : Append(<<a>>, b) = <<a, b>>
<1> TAKE a, b
<1> DEFINE s == Append(<<a>>, b)
<1>1. <<a>> \in Seq({a, b}) /\ <<a, b>> \in Seq({a, b})
  OBVIOUS
<1>2. s \in Seq({a, b}) /\ Len(s) = 2 /\ s[1] = a /\ s[2] = b
  BY <1>1
<1>3. Len(<<a, b>>) = 2 /\ <<a, b>>[1] = a /\ <<a, b>>[2] = b
  OBVIOUS
<1> HIDE DEF s
<1>4. Len(s) = Len(<<a, b>>) /\ \A i \in 1..Len(s) : s[i] = <<a, b>>[i]
  BY <1>2, <1>3
<1>5. s = <<a, b>>
  BY <1>1, <1>2, <1>4, SeqEqual
<1> QED BY <1>5 DEF s

(* An inbox holds contexts and the None of _disconnect().                  *)
LEMMA InboxRange ==
    ASSUME NEW q, InboxForm(q)
    PROVE  Range(q) \subseteq Contexts \cup {Gone}
BY RangeEmpty, RangeOne, RangeTwo DEF InboxForm

(* "No manager" is no manager.                                             *)
LEMMA NoManagerIsNone == NoManager \notin Managers
BY DEF NoManager, Managers

(* Receiving takes the context out of the inbox and loses nothing.         *)
LEMMA ReceivedFacts ==
    ASSUME NEW r, RecordOk(r), r.pc = "ready", r.inbox # <<>>, Head(r.inbox) # Gone
    PROVE  /\ DOMAIN Received(r) = Fields
           /\ Received(r).cur \in Contexts
           /\ Received(r).inbox \in {<<>>, <<Gone>>}
           /\ Received(r).snd = r.snd /\ Received(r).pc = r.pc /\ Received(r).running = r.running
           /\ Range(r.inbox) = {Received(r).cur} \cup Range(Received(r).inbox)
<1>1. PICK k \in Contexts : r.inbox = <<k>> \/ r.inbox = <<k, Gone>>
  BY DEF RecordOk, InboxForm
<1>2. Head(r.inbox) = k /\ Tail(r.inbox) \in {<<>>, <<Gone>>}
  BY <1>1, TakeOne, TakeTwo
<1>3. CASE r.inbox = <<k>>
  BY <1>2, <1>3, RangeEmpty, RangeOne DEF Received, RecordOk, Fields
<1>4. CASE r.inbox = <<k, Gone>>
  <2>1. Tail(r.inbox) = <<Gone>>
    BY <1>4, TakeTwo
  <2> QED BY <1>2, <1>4, <2>1, RangeOne, RangeTwo DEF Received, RecordOk, Fields
<1> QED BY <1>1, <1>3, <1>4

-----------------------------------------------------------------------------
(* Who holds which context, when manager m changes and the others do not.  *)

OthersSame(m) == DOMAIN mgr' = Managers /\ \A n \in Managers \ {m} : mgr'[n] = mgr[n]

\* The contexts in S, which m held or nobody did, receive again.
CtxReleased(S) ==
    /\ DOMAIN ctx' = Contexts
    /\ \A k \in Contexts : ctx'[k] = IF k \in S THEN Receiving ELSE ctx[k]

(* Released() is what CtxReleased describes.                               *)
LEMMA ReleasedFacts ==
    ASSUME NEW S, ctx' = Released(S)
    PROVE  CtxReleased(S)
BY DEF Released, CtxReleased

(* A released context has no message.                                      *)
LEMMA ReleaseKeepsCtx ==
    ASSUME CtxInv, NEW S, CtxReleased(S)
    PROVE  CtxInv'
BY DEF CtxInv, CtxReleased, Receiving

(* Releasing a context leaves nobody who holds it.                         *)
LEMMA SlotRelease ==
    ASSUME SlotInv, NEW m \in Managers, OthersSame(m), NEW S, CtxReleased(S),
           \A k \in S : k \in HeldIn(mgr[m]) \/ ctx[k].st # "wait",
           \A k \in Contexts : k \in HeldIn(mgr'[m]) <=> k \in HeldIn(mgr[m]) /\ k \notin S,
           \A k \in Contexts : k \in HeldIn(mgr'[m]) => mgr'[m].pc \in Live
    PROVE  SlotInv'
<1> SUFFICES ASSUME NEW k \in Contexts
             PROVE  /\ \A n \in Managers :
                         k \in HeldIn(mgr'[n]) =>
                             ctx'[k].st = "wait" /\ PipeOf(n) = ctx'[k].msg.pipe /\ mgr'[n].pc \in Live
                    /\ \A n, o \in Managers : k \in HeldIn(mgr'[n]) /\ k \in HeldIn(mgr'[o]) => n = o
                    /\ ctx'[k].st = "wait" => \E n \in Managers : k \in HeldIn(mgr'[n])
  BY DEF SlotInv, HeldIn, HeldBy, Live, PipeOf
<1>1. \A n \in Managers : k \in HeldIn(mgr'[n]) => k \in HeldIn(mgr[n]) /\ k \notin S
  BY DEF OthersSame, SlotInv
<1>2. \A n \in Managers : k \in HeldIn(mgr[n]) /\ k \notin S => k \in HeldIn(mgr'[n])
  BY DEF OthersSame
<1>3. k \in S => ctx'[k].st = "recv"
  BY DEF CtxReleased, Receiving
<1>4. k \notin S => ctx'[k] = ctx[k]
  BY DEF CtxReleased
<1>5. \A n \in Managers : k \in HeldIn(mgr'[n]) => mgr'[n].pc \in Live
  BY <1>1 DEF OthersSame, SlotInv
<1> QED BY <1>1, <1>2, <1>3, <1>4, <1>5 DEF SlotInv

(* A context that a task has just received gets its one holder.            *)
LEMMA SlotTake ==
    ASSUME SlotInv, CtxInv, NEW m \in Managers, OthersSame(m), NEW k \in Contexts,
           ctx[k].st = "got", PipeOf(m) = ctx[k].msg.pipe, ctx' = [ctx EXCEPT ![k].st = "wait"],
           \A j \in Contexts : j \in HeldIn(mgr'[m]) <=> j \in HeldIn(mgr[m]) \/ j = k,
           mgr'[m].pc \in Live
    PROVE  SlotInv' /\ CtxInv'
<1>1. /\ DOMAIN ctx' = Contexts
      /\ \A j \in Contexts : DOMAIN ctx'[j] = {"st", "msg"}
      /\ \A j \in Contexts \ {k} : ctx'[j] = ctx[j]
      /\ ctx'[k].st = "wait" /\ ctx'[k].msg = ctx[k].msg
  BY DEF CtxInv
<1>2. CtxInv'
  BY <1>1 DEF CtxInv
<1>3. SlotInv'
  <2> SUFFICES ASSUME NEW j \in Contexts
               PROVE  /\ \A n \in Managers :
                           j \in HeldIn(mgr'[n]) =>
                               ctx'[j].st = "wait" /\ PipeOf(n) = ctx'[j].msg.pipe /\ mgr'[n].pc \in Live
                      /\ \A n, o \in Managers : j \in HeldIn(mgr'[n]) /\ j \in HeldIn(mgr'[o]) => n = o
                      /\ ctx'[j].st = "wait" => \E n \in Managers : j \in HeldIn(mgr'[n])
    BY DEF SlotInv, HeldIn, HeldBy, Live, PipeOf
  <2>1. \A n \in Managers : k \notin HeldIn(mgr[n])
    BY DEF SlotInv
  <2>2. CASE j = k
    <3>1. \A n \in Managers : k \in HeldIn(mgr'[n]) <=> n = m
      BY <2>1 DEF OthersSame
    <3> QED BY <2>2, <3>1, <1>1
  <2>3. CASE j # k
    <3>1. \A n \in Managers : j \in HeldIn(mgr'[n]) <=> j \in HeldIn(mgr[n])
      BY <2>3 DEF OthersSame
    <3>2. \A n \in Managers : j \in HeldIn(mgr'[n]) => mgr'[n].pc \in Live
      BY <3>1 DEF OthersSame, SlotInv
    <3> QED BY <2>3, <3>1, <3>2, <1>1 DEF SlotInv
  <2> QED BY <2>2, <2>3
<1> QED BY <1>2, <1>3

(* A step of a manager's own task: it keeps what it holds or releases it.  *)
LEMMA TaskStep ==
    ASSUME IInv, NEW m \in Managers, OthersSame(m), NEW S, CtxReleased(S),
           RecordOk(mgr'[m]), mgr[m].pc \in Live, mgr'[m].pc \in Live \cup {"done"},
           Gone \in Range(mgr'[m].inbox) => Gone \in Range(mgr[m].inbox),
           \A k \in S : k \in HeldIn(mgr[m]) \/ ctx[k].st # "wait",
           \A k \in Contexts : k \in HeldIn(mgr'[m]) <=> k \in HeldIn(mgr[m]) /\ k \notin S,
           WireInv', UNCHANGED <<reported, clients, cl>>
    PROVE  IInv'
<1> USE DEF IInv
<1>1. MgrInv'
  BY DEF MgrInv, OthersSame
<1>2. CtxInv'
  BY ReleaseKeepsCtx
<1>3. ClientInv'
  BY DEF ClientInv
<1>4. KnownInv'
  BY DEF KnownInv, OthersSame, Live
<1>5. \A k \in Contexts : k \in HeldIn(mgr'[m]) => mgr'[m].pc \in Live
  BY RangeEmpty DEF RecordOk, HeldIn, HeldBy, NoCtx
<1>6. SlotInv'
  BY <1>5, SlotRelease
<1> QED BY <1>1, <1>2, <1>3, <1>4, <1>6

-----------------------------------------------------------------------------
(* The steps of a manager's task.                                          *)

(* Closing a pipe drops what is on it.                                     *)
LEMMA ClosePipeKeepsWire ==
    ASSUME WireInv, NEW p, ClosePipe(p)
    PROVE  WireInv'
<1>1. <<>> \in Seq(Requests(Bodies))
  OBVIOUS
<1>2. wire' = [wire EXCEPT ![p] = <<>>]
  BY DEF ClosePipe
<1> QED BY <1>1, <1>2 DEF WireInv

(* A step that leaves the contexts alone releases none.                    *)
LEMMA NothingReleased ==
    ASSUME CtxInv, UNCHANGED ctx
    PROVE  CtxReleased({})
BY DEF CtxInv, CtxReleased

(* _execute()'s finally block gives back all that the manager holds.       *)
LEMMA FinallyStep ==
    ASSUME IInv, NEW m \in Managers, mgr[m].pc \in Live,
           NEW S, S = HeldIn(mgr[m]) \cap Contexts,
           NEW T, T \cap Contexts = S, ctx' = Released(T),
           mgr' = [mgr EXCEPT ![m].running = FALSE, ![m].cur = NoCtx, ![m].snd = NoCtx,
                              ![m].inbox = <<>>, ![m].pc = "done"],
           ClosePipe(PipeOf(m)), UNCHANGED <<reported, clients, cl>>
    PROVE  IInv'
<1>1. WireInv'
  BY ClosePipeKeepsWire DEF IInv
<1>2. CtxReleased(S)
  BY DEF Released, CtxReleased
<1>3. OthersSame(m)
  BY DEF IInv, MgrInv, OthersSame
<1>4. /\ DOMAIN mgr'[m] = Fields
      /\ mgr'[m].pc = "done" /\ mgr'[m].running = FALSE /\ mgr'[m].inbox = <<>>
      /\ mgr'[m].cur = NoCtx /\ mgr'[m].snd = NoCtx
  BY DEF IInv, MgrInv, RecordOk, Fields
<1>5. RecordOk(mgr'[m])
  BY <1>4, RangeEmpty DEF RecordOk, InboxForm, Live
<1>6. \A k \in Contexts : k \notin HeldIn(mgr'[m])
  BY <1>4, RangeEmpty DEF HeldIn, HeldBy, NoCtx
<1> QED
  BY <1>1, <1>2, <1>3, <1>4, <1>5, <1>6, RangeEmpty, TaskStep

(* arecv() found None.                                                     *)
LEMMA ConnectionResetStep ==
    ASSUME IInv, NEW m \in Managers, ConnectionReset(m), UNCHANGED cl
    PROVE  IInv'
<1>1. mgr[m].pc = "ready" /\ mgr[m].snd = NoCtx
  BY DEF ConnectionReset, HasItem, IInv, MgrInv, RecordOk
<1>2. (HeldBy(mgr[m]) \cup {}) \cap Contexts = HeldIn(mgr[m]) \cap Contexts
  BY <1>1 DEF HeldIn, NoCtx
<1> QED
  BY <1>1, <1>2, FinallyStep DEF ConnectionReset, Execute_finally, Live

(* asend() failed.                                                         *)
LEMMA SendFailedStep ==
    ASSUME IInv, NEW m \in Managers, SendFailed(m), UNCHANGED cl
    PROVE  IInv'
<1>1. (HeldBy(mgr[m]) \cup {mgr[m].snd}) \cap Contexts = HeldIn(mgr[m]) \cap Contexts
  BY DEF HeldIn
<1> QED
  BY <1>1, FinallyStep DEF SendFailed, Execute_finally, Live

(* asend() is over: the conversation ends, or only its context is freed.   *)
LEMMA SentStep ==
    ASSUME IInv, NEW m \in Managers, Conversation_sent(m)
    PROVE  IInv'
<1> DEFINE r == mgr[m]
<1>0. RecordOk(r) /\ r.pc = "send" /\ mgr[m].snd \in Contexts
  BY DEF IInv, MgrInv, Conversation_sent, SendDone, RecordOk
<1>1. CASE Execute_finally(m, {mgr[m].snd})
  <2>1. (HeldBy(mgr[m]) \cup {mgr[m].snd}) \cap Contexts = HeldIn(mgr[m]) \cap Contexts
    BY DEF HeldIn
  <2> QED BY <1>0, <1>1, <2>1, FinallyStep DEF Conversation_sent, SendDone, Execute_finally, Live
<1>2. CASE /\ mgr' = [mgr EXCEPT ![m].snd = NoCtx, ![m].pc = "ready"]
           /\ ctx' = Released({mgr[m].snd})
           /\ UNCHANGED <<link, wire>>
  <2>1. OthersSame(m)
    BY <1>2 DEF IInv, MgrInv, OthersSame
  <2>2. /\ DOMAIN mgr'[m] = Fields
        /\ mgr'[m].pc = "ready" /\ mgr'[m].running = r.running /\ mgr'[m].inbox = r.inbox
        /\ mgr'[m].cur = r.cur /\ mgr'[m].snd = NoCtx
    BY <1>0, <1>2 DEF IInv, MgrInv, RecordOk, Fields
  <2>3. r.cur = NoCtx /\ NoCtx \notin Range(r.inbox)
    BY <1>0, InboxRange DEF RecordOk, NoCtx, Gone
  <2>4. RecordOk(mgr'[m])
    BY <1>0, <2>2, <2>3 DEF RecordOk, Live
  <2>5. \A k \in Contexts : k \in HeldIn(mgr'[m]) <=> k \in HeldIn(mgr[m]) /\ k \notin {mgr[m].snd}
    BY <1>0, <2>2, <2>3 DEF RecordOk, HeldIn, HeldBy, NoCtx
  <2>6. mgr[m].snd \in HeldIn(mgr[m])
    BY DEF HeldIn
  <2>7. WireInv' /\ CtxReleased({mgr[m].snd})
    BY <1>2, ReleasedFacts DEF IInv, WireInv
  <2> QED
    BY <1>0, <2>1, <2>2, <2>4, <2>5, <2>6, <2>7, TaskStep DEF Conversation_sent, SendDone, Live
<1> QED BY <1>1, <1>2 DEF Conversation_sent, SendDone

(* conversation(): a context goes from the inbox into the manager's hand,  *)
(* and from there into asend(), and stays held.                            *)
LEMMA HelloStep ==
    ASSUME IInv, NEW m \in Managers, Conversation_hello(m)
    PROVE  IInv'
<1> DEFINE r == mgr[m]
           g == Received(r)
<1>0. RecordOk(r) /\ r.pc = "ready" /\ r.inbox # <<>> /\ Head(r.inbox) # Gone
  BY DEF IInv, MgrInv, Conversation_hello, HasRequest, HasItem
<1>1. /\ DOMAIN g = Fields
      /\ g.cur \in Contexts /\ g.inbox \in {<<>>, <<Gone>>}
      /\ g.snd = r.snd /\ g.pc = r.pc /\ g.running = r.running
      /\ Range(r.inbox) = {g.cur} \cup Range(g.inbox)
  BY <1>0, ReceivedFacts
<1> HIDE DEF g
<1>2. PICK ph : mgr' = [mgr EXCEPT ![m] = [Sending(g) EXCEPT !.app.phase = ph]]
  BY DEF Conversation_hello, Hello, g
<1>3. OthersSame(m)
  BY <1>2 DEF IInv, MgrInv, OthersSame
<1>4. /\ DOMAIN mgr'[m] = Fields
      /\ mgr'[m].pc = "send" /\ mgr'[m].running = g.running /\ mgr'[m].inbox = g.inbox
      /\ mgr'[m].cur = NoCtx /\ mgr'[m].snd = g.cur
  BY <1>1, <1>2 DEF IInv, MgrInv, Sending, Fields
<1>5. g.cur \notin Range(g.inbox) /\ g.cur # NoCtx
  BY <1>1, RangeEmpty, RangeOne DEF Gone, NoCtx
<1>6. InboxForm(g.inbox)
  BY <1>1 DEF InboxForm
<1>7. RecordOk(mgr'[m])
  BY <1>0, <1>1, <1>4, <1>5, <1>6 DEF RecordOk, Live
<1>8. r.cur = NoCtx /\ r.snd = NoCtx
  BY <1>0 DEF RecordOk
<1>9. \A k \in Contexts : k \in HeldIn(mgr'[m]) <=> k \in HeldIn(mgr[m]) /\ k \notin {}
  BY <1>1, <1>4, <1>8 DEF HeldIn, HeldBy, NoCtx, Gone
<1>10. WireInv' /\ CtxReleased({}) /\ UNCHANGED <<reported, clients, cl>>
  BY NothingReleased DEF IInv, WireInv, Conversation_hello
<1>11. Gone \in Range(mgr'[m].inbox) => Gone \in Range(mgr[m].inbox)
  BY <1>1, <1>4
<1> QED
  BY <1>0, <1>3, <1>4, <1>7, <1>9, <1>10, <1>11, TaskStep DEF Live

(* arecv() of a command.                                                   *)
LEMMA RecvStep ==
    ASSUME IInv, NEW m \in Managers, Conversation_recv(m)
    PROVE  IInv'
<1> DEFINE r == mgr[m]
           g == Received(r)
<1>0. RecordOk(r) /\ r.pc = "ready" /\ r.inbox # <<>> /\ Head(r.inbox) # Gone
  BY DEF IInv, MgrInv, Conversation_recv, HasRequest, HasItem
<1>1. /\ DOMAIN g = Fields
      /\ g.cur \in Contexts /\ g.inbox \in {<<>>, <<Gone>>}
      /\ g.snd = r.snd /\ g.pc = r.pc /\ g.running = r.running
      /\ Range(r.inbox) = {g.cur} \cup Range(g.inbox)
  BY <1>0, ReceivedFacts
<1>2. mgr' = [mgr EXCEPT ![m] = [g EXCEPT !.pc = "work"]]
  BY DEF Conversation_recv
<1> HIDE DEF g
<1>3. OthersSame(m)
  BY <1>2 DEF IInv, MgrInv, OthersSame
<1>4. /\ DOMAIN mgr'[m] = Fields
      /\ mgr'[m].pc = "work" /\ mgr'[m].running = g.running /\ mgr'[m].inbox = g.inbox
      /\ mgr'[m].cur = g.cur /\ mgr'[m].snd = g.snd
  BY <1>1, <1>2 DEF IInv, MgrInv, Fields
<1>5. r.cur = NoCtx /\ r.snd = NoCtx /\ g.cur # NoCtx
  BY <1>0, <1>1 DEF RecordOk, NoCtx
<1>6. InboxForm(g.inbox) /\ NoCtx \notin Range(g.inbox)
  BY <1>1, RangeEmpty, RangeOne DEF InboxForm, NoCtx, Gone
<1>7. RecordOk(mgr'[m])
  BY <1>0, <1>1, <1>4, <1>5, <1>6 DEF RecordOk, Live
<1>9. \A k \in Contexts : k \in HeldIn(mgr'[m]) <=> k \in HeldIn(mgr[m]) /\ k \notin {}
  BY <1>1, <1>4, <1>5 DEF HeldIn, HeldBy, NoCtx, Gone
<1>10. WireInv' /\ CtxReleased({}) /\ UNCHANGED <<reported, clients, cl>>
  BY NothingReleased DEF IInv, WireInv, Conversation_recv
<1>11. Gone \in Range(mgr'[m].inbox) => Gone \in Range(mgr[m].inbox)
  BY <1>1, <1>4
<1> QED
  BY <1>0, <1>3, <1>4, <1>7, <1>9, <1>10, <1>11, TaskStep DEF Live

(* asend() of the answer.                                                  *)
LEMMA ExecuteStep ==
    ASSUME IInv, NEW m \in Managers, Conversation_execute(m)
    PROVE  IInv'
<1> DEFINE r == mgr[m]
<1>0. RecordOk(r) /\ r.pc = "work" /\ r.cur \in Contexts /\ r.snd = NoCtx
  BY DEF IInv, MgrInv, Conversation_execute, RecordOk, NoCtx
<1>2. \/ mgr' = [mgr EXCEPT ![m] = [Sending(r) EXCEPT !.app.phase = "end"]]
      \/ \E n : mgr' = [mgr EXCEPT ![m] = [Sending(r) EXCEPT !.app.acc = n]]
  BY DEF Conversation_execute, Computed
<1>3. OthersSame(m)
  BY <1>2 DEF IInv, MgrInv, OthersSame
<1>4. /\ DOMAIN mgr'[m] = Fields
      /\ mgr'[m].pc = "send" /\ mgr'[m].running = r.running /\ mgr'[m].inbox = r.inbox
      /\ mgr'[m].cur = NoCtx /\ mgr'[m].snd = r.cur
  <2>1. DOMAIN r = Fields /\ DOMAIN mgr = Managers
    BY <1>0 DEF IInv, MgrInv, RecordOk
  <2>2. CASE mgr' = [mgr EXCEPT ![m] = [Sending(r) EXCEPT !.app.phase = "end"]]
    BY <2>1, <2>2 DEF Sending, Fields
  <2>3. ASSUME NEW n, mgr' = [mgr EXCEPT ![m] = [Sending(r) EXCEPT !.app.acc = n]]
        PROVE  /\ DOMAIN mgr'[m] = Fields
               /\ mgr'[m].pc = "send" /\ mgr'[m].running = r.running /\ mgr'[m].inbox = r.inbox
               /\ mgr'[m].cur = NoCtx /\ mgr'[m].snd = r.cur
    BY <2>1, <2>3 DEF Sending, Fields
  <2> QED BY <1>2, <2>2, <2>3
<1>5. r.cur \notin Range(r.inbox) /\ r.cur # NoCtx
  BY <1>0, RangeEmpty, RangeOne DEF RecordOk, Gone, NoCtx
<1>7. RecordOk(mgr'[m])
  BY <1>0, <1>4, <1>5 DEF RecordOk, Live
<1>9. \A k \in Contexts : k \in HeldIn(mgr'[m]) <=> k \in HeldIn(mgr[m]) /\ k \notin {}
  BY <1>0, <1>4 DEF HeldIn, HeldBy, NoCtx, Gone
<1>10. WireInv' /\ CtxReleased({}) /\ UNCHANGED <<reported, clients, cl>>
  BY NothingReleased DEF IInv, WireInv, Conversation_execute
<1> QED
  BY <1>0, <1>3, <1>4, <1>7, <1>9, <1>10, TaskStep DEF Live

-----------------------------------------------------------------------------
(* The dispatch tasks.                                                     *)

(* A context that a dispatch task keeps for itself is held by nobody.      *)
LEMMA KeepStep ==
    ASSUME IInv, NEW k \in Contexts, ctx[k].st # "wait", ctx' = Released({k}),
           DOMAIN mgr' = Managers, \A n \in Managers : mgr'[n] = mgr[n],
           WireInv', UNCHANGED <<reported, clients, cl>>
    PROVE  IInv'
<1>1. CtxReleased({k})
  BY ReleasedFacts
<1>2. CtxInv'
  BY <1>1, ReleaseKeepsCtx DEF IInv
<1>3. MgrInv' /\ KnownInv' /\ ClientInv'
  BY DEF IInv, MgrInv, KnownInv, ClientInv
<1>4. SlotInv'
  <2> SUFFICES ASSUME NEW j \in Contexts
               PROVE  /\ \A n \in Managers :
                           j \in HeldIn(mgr'[n]) =>
                               ctx'[j].st = "wait" /\ PipeOf(n) = ctx'[j].msg.pipe /\ mgr'[n].pc \in Live
                      /\ \A n, o \in Managers : j \in HeldIn(mgr'[n]) /\ j \in HeldIn(mgr'[o]) => n = o
                      /\ ctx'[j].st = "wait" => \E n \in Managers : j \in HeldIn(mgr'[n])
    BY DEF SlotInv, HeldIn, HeldBy, Live, PipeOf
  <2>1. CASE j = k
    <3>1. \A n \in Managers : k \notin HeldIn(mgr[n])
      BY DEF IInv, SlotInv
    <3>2. ctx'[k].st # "wait"
      BY <1>1 DEF CtxReleased, Receiving
    <3> QED BY <2>1, <3>1, <3>2
  <2>2. CASE j # k
    <3>1. ctx'[j] = ctx[j]
      BY <1>1, <2>2 DEF CtxReleased
    <3> QED BY <3>1 DEF IInv, SlotInv
  <2> QED BY <2>1, <2>2
<1> QED BY <1>2, <1>3, <1>4 DEF IInv

(* A record without a request gets the one of context k.                   *)
LEMMA InboxPut ==
    ASSUME NEW r, RecordOk(r), r.running, r.inbox = <<>>, r.cur = NoCtx,
           NEW k \in Contexts, k \notin HeldIn(r),
           NEW n, DOMAIN n = Fields, n.pc = r.pc, n.running = r.running,
           n.inbox = <<k>>, n.cur = r.cur, n.snd = r.snd
    PROVE  /\ RecordOk(n) /\ n.pc = r.pc /\ n.pc \in Live
           /\ Gone \notin Range(n.inbox)
           /\ \A j \in Contexts : j \in HeldIn(n) <=> j \in HeldIn(r) \/ j = k
<1>3. Range(n.inbox) = {k} /\ Range(r.inbox) = {} /\ InboxForm(n.inbox)
  BY RangeOne, RangeEmpty DEF InboxForm
<1>4. k # Gone /\ k # NoCtx /\ r.snd # k
  BY DEF HeldIn, Gone, NoCtx
<1>5. RecordOk(n)
  BY <1>3, <1>4 DEF RecordOk
<1>6. \A j \in Contexts : j \in HeldIn(n) <=> j \in HeldIn(r) \/ j = k
  BY <1>3, <1>4 DEF HeldIn, HeldBy
<1> QED BY <1>3, <1>4, <1>5, <1>6 DEF RecordOk

(* _dispatch() to the manager the pipe has.                                *)
LEMMA DispatchKnownStep ==
    ASSUME IInv, NEW k \in Contexts, ctx[k].st = "got",
           NEW p \in Pipes, p = ctx[k].msg.pipe, Known(p),
           NEW m, m = clients[p], Dispatch(k, m, mgr[m]),
           UNCHANGED <<clients, reported, cl>>
    PROVE  IInv'
<1>0. m \in Managers /\ PipeOf(m) = p /\ mgr[m].pc # "unborn" /\ RecordOk(mgr[m])
  BY DEF IInv, KnownInv, MgrInv, Known
<1>1. CASE ctx' = Released({k}) /\ mgr' = [mgr EXCEPT ![m] = mgr[m]] /\ WireInv'
  <2>1. DOMAIN mgr' = Managers /\ \A n \in Managers : mgr'[n] = mgr[n]
    BY <1>0, <1>1 DEF IInv, MgrInv
  <2> QED BY <1>1, <2>1, KeepStep
<1>2. CASE /\ mgr[m].running /\ ~DoubleMessage(mgr[m])
           /\ mgr' = [mgr EXCEPT ![m] = [mgr[m] EXCEPT !.inbox = Append(@, k)]]
           /\ ctx' = [ctx EXCEPT ![k].st = "wait"]
           /\ UNCHANGED <<link, wire>>
  <2>1. mgr[m].running /\ mgr[m].inbox = <<>> /\ mgr[m].cur = NoCtx
    BY <1>2 DEF DoubleMessage
  <2>2. k \notin HeldIn(mgr[m])
    BY <1>0 DEF IInv, SlotInv
  <2>3. OthersSame(m) /\ mgr'[m] = [mgr[m] EXCEPT !.inbox = <<k>>]
    <3>1. Append(mgr[m].inbox, k) = <<k>>
      <4>1. Append(<<>>, k) = <<k>>
        OBVIOUS
      <4> QED BY <2>1, <4>1
    <3>2. mgr' = [mgr EXCEPT ![m] = [mgr[m] EXCEPT !.inbox = Append(mgr[m].inbox, k)]]
      BY <1>2
    <3>3. mgr' = [mgr EXCEPT ![m] = [mgr[m] EXCEPT !.inbox = <<k>>]]
      BY <3>1, <3>2
    <3> QED BY <1>0, <3>3 DEF IInv, MgrInv, OthersSame
  <2>9. /\ DOMAIN mgr'[m] = Fields
        /\ mgr'[m].pc = mgr[m].pc /\ mgr'[m].running = mgr[m].running /\ mgr'[m].inbox = <<k>>
        /\ mgr'[m].cur = mgr[m].cur /\ mgr'[m].snd = mgr[m].snd
    BY <1>0, <2>3 DEF RecordOk, Fields
  <2>4. /\ RecordOk(mgr'[m]) /\ mgr'[m].pc = mgr[m].pc /\ mgr'[m].pc \in Live
        /\ Gone \notin Range(mgr'[m].inbox)
        /\ \A j \in Contexts : j \in HeldIn(mgr'[m]) <=> j \in HeldIn(mgr[m]) \/ j = k
    BY <1>0, <2>1, <2>2, <2>9, InboxPut
  <2>5. SlotInv' /\ CtxInv'
    BY <1>0, <1>2, <2>3, <2>4, SlotTake DEF IInv
  <2>6. MgrInv'
    BY <2>3, <2>4 DEF IInv, MgrInv, OthersSame
  <2>7. KnownInv'
    <3>1. \A n \in Managers : mgr'[n].pc = mgr[n].pc
      BY <2>3, <2>4 DEF OthersSame
    <3>2. \A n \in Managers : Gone \in Range(mgr'[n].inbox) => Gone \in Range(mgr[n].inbox)
      BY <2>3, <2>4 DEF OthersSame
    <3> QED BY <3>1, <3>2 DEF IInv, KnownInv
  <2>8. WireInv' /\ ClientInv'
    BY <1>2 DEF IInv, WireInv, ClientInv
  <2> QED BY <2>5, <2>6, <2>7, <2>8 DEF IInv
<1>3. ClosePipe(PipeOf(m)) => WireInv'
  BY ClosePipeKeepsWire DEF IInv
<1>4. UNCHANGED wire => WireInv'
  BY DEF IInv, WireInv
<1> QED BY <1>1, <1>2, <1>3, <1>4 DEF Dispatch

(* _dispatch() to a new manager.                                           *)
LEMMA DispatchNewStep ==
    ASSUME IInv, NEW k \in Contexts, ctx[k].st = "got",
           NEW p \in Pipes, p = ctx[k].msg.pipe, ~Known(p),
           NEW i \in 1..MaxManagers, NEW m, m = <<p, i>>, mgr[m].pc = "unborn",
           Dispatch(k, m, NewManager(NewSession)),
           clients' = [clients EXCEPT ![p] = m], UNCHANGED <<reported, cl>>
    PROVE  IInv'
<1> DEFINE r == NewManager(NewSession)
<1>0. m \in Managers /\ PipeOf(m) = p
  BY DEF Managers, PipeOf
<1>1. /\ r.running /\ r.inbox = <<>> /\ r.cur = NoCtx /\ r.snd = NoCtx /\ r.pc = "ready"
      /\ DOMAIN r = Fields
  BY DEF NewManager, Fields
<1>2. RecordOk(r)
  BY <1>1, RangeEmpty DEF RecordOk, InboxForm, Live
<1>3. \A j \in Contexts : j \notin HeldIn(r)
  BY <1>1, RangeEmpty DEF HeldIn, HeldBy, NoCtx
<1> HIDE DEF r
<1>4. /\ mgr' = [mgr EXCEPT ![m] = [r EXCEPT !.inbox = Append(@, k)]]
      /\ ctx' = [ctx EXCEPT ![k].st = "wait"]
      /\ UNCHANGED <<link, wire>>
  BY <1>1 DEF Dispatch, DoubleMessage, r
<1>5. OthersSame(m) /\ mgr'[m] = [r EXCEPT !.inbox = <<k>>]
  BY <1>0, <1>1, <1>4 DEF IInv, MgrInv, OthersSame
<1>12. /\ DOMAIN mgr'[m] = Fields
       /\ mgr'[m].pc = r.pc /\ mgr'[m].running = r.running /\ mgr'[m].inbox = <<k>>
       /\ mgr'[m].cur = r.cur /\ mgr'[m].snd = r.snd
  BY <1>1, <1>5 DEF Fields
<1>6. /\ RecordOk(mgr'[m]) /\ mgr'[m].pc = r.pc /\ mgr'[m].pc \in Live
      /\ Gone \notin Range(mgr'[m].inbox)
      /\ \A j \in Contexts : j \in HeldIn(mgr'[m]) <=> j \in HeldIn(r) \/ j = k
  BY <1>1, <1>2, <1>3, <1>12, InboxPut
<1>7. \A j \in Contexts : j \notin HeldIn(mgr[m])
  BY <1>0 DEF IInv, SlotInv, Live
<1>8. SlotInv' /\ CtxInv'
  BY <1>0, <1>3, <1>4, <1>5, <1>6, <1>7, SlotTake DEF IInv
<1>9. MgrInv'
  BY <1>5, <1>6 DEF IInv, MgrInv, OthersSame
<1>10. KnownInv'
  <2>1. clients[p] = NoManager
    BY DEF Known
  <2>2. clients' \in [Pipes -> Managers \cup {NoManager}] /\ clients'[p] = m
    BY <1>0 DEF IInv, KnownInv
  <2>3. \A q \in Pipes \ {p} : clients'[q] = clients[q]
    BY DEF IInv, KnownInv
  <2>4. \A q \in Pipes : clients'[q] # NoManager =>
            PipeOf(clients'[q]) = q /\ mgr'[clients'[q]].pc # "unborn"
    <3> SUFFICES ASSUME NEW q \in Pipes, clients'[q] # NoManager
                 PROVE  PipeOf(clients'[q]) = q /\ mgr'[clients'[q]].pc # "unborn"
      OBVIOUS
    <3>1. CASE q = p
      BY <3>1, <1>0, <2>2, <1>6 DEF Live
    <3>2. CASE q # p
      <4>1. clients[q] \in Managers /\ PipeOf(clients[q]) = q /\ mgr[clients[q]].pc # "unborn"
        BY <3>2, <2>3 DEF IInv, KnownInv
      <4>2. clients[q] # m
        BY <3>2, <4>1, <1>0
      <4> QED BY <3>2, <4>1, <4>2, <2>3, <1>5 DEF OthersSame
    <3> QED BY <3>1, <3>2
  <2>5. \A n \in Managers : PipeOf(n) \in Pipes
    BY DEF Managers, PipeOf
  <2>6. \A n \in Managers :
            /\ mgr'[n].pc \notin {"unborn", "over"} /\ PipeOf(n) \notin reported
                  => clients'[PipeOf(n)] = n
            /\ Gone \in Range(mgr'[n].inbox) => PipeOf(n) \in reported
    <3> SUFFICES ASSUME NEW n \in Managers
                 PROVE  /\ mgr'[n].pc \notin {"unborn", "over"} /\ PipeOf(n) \notin reported
                              => clients'[PipeOf(n)] = n
                        /\ Gone \in Range(mgr'[n].inbox) => PipeOf(n) \in reported
      OBVIOUS
    <3>1. CASE n = m
      BY <3>1, <1>0, <1>6, <2>2
    <3>2. CASE n # m
      <4>1. mgr'[n] = mgr[n]
        BY <3>2, <1>5 DEF OthersSame
      <4>2. n # NoManager
        BY NoManagerIsNone
      <4> QED BY <4>1, <4>2, <2>1, <2>3, <2>5 DEF IInv, KnownInv
    <3> QED BY <3>1, <3>2
  <2> QED BY <2>2, <2>4, <2>6 DEF KnownInv, PipeOf
<1>11. WireInv' /\ ClientInv'
  BY <1>4 DEF IInv, WireInv, ClientInv
<1> QED BY <1>8, <1>9, <1>10, <1>11 DEF IInv

(* A round of _recv_dispatch().                                            *)
LEMMA RecvDispatchStep ==
    ASSUME IInv, NEW k \in Contexts, RecvDispatch(k, NewSession), UNCHANGED cl
    PROVE  IInv'
<1>1. ctx[k].st = "got" /\ ctx[k].msg.pipe \in Pipes
  BY DEF RecvDispatch, IInv, CtxInv
<1> DEFINE p == ctx[k].msg.pipe
<1>2. CASE Known(p)
  BY <1>1, <1>2, DispatchKnownStep DEF RecvDispatch
<1>3. CASE ~Known(p)
  <2>1. PICK i \in 1..MaxManagers :
            /\ mgr[<<p, i>>].pc = "unborn"
            /\ Dispatch(k, <<p, i>>, NewManager(NewSession))
            /\ clients' = [clients EXCEPT ![p] = <<p, i>>]
    BY <1>3 DEF RecvDispatch
  <2>2. UNCHANGED reported
    BY DEF RecvDispatch
  <2> QED BY <1>1, <1>3, <2>1, <2>2, DispatchNewStep
<1> QED BY <1>2, <1>3

(* A request whose Pipe has been collected.                                *)
LEMMA RecvDispatchNoPipeStep ==
    ASSUME IInv, NEW k \in Contexts, RecvDispatchNoPipe(k), UNCHANGED cl
    PROVE  IInv'
<1>1. DOMAIN mgr' = Managers /\ \A n \in Managers : mgr'[n] = mgr[n]
  BY DEF RecvDispatchNoPipe, IInv, MgrInv
<1>2. WireInv' /\ ctx[k].st # "wait"
  BY DEF RecvDispatchNoPipe, IInv, WireInv
<1> QED BY <1>1, <1>2, KeepStep DEF RecvDispatchNoPipe

(* nng gives a request to a context.                                       *)
LEMMA ContextReceivesStep ==
    ASSUME IInv, NEW k \in Contexts, NEW p \in Pipes, ContextReceives(k, p), UNCHANGED cl
    PROVE  IInv'
<1>1. Head(wire[p]) \in Requests(Bodies) /\ Tail(wire[p]) \in Seq(Requests(Bodies))
  BY DEF ContextReceives, IInv, WireInv
<1>2. WireInv'
  BY <1>1 DEF ContextReceives, IInv, WireInv
<1>3. /\ DOMAIN ctx' = Contexts
      /\ \A j \in Contexts \ {k} : ctx'[j] = ctx[j]
      /\ DOMAIN ctx'[k] = {"st", "msg"} /\ ctx'[k].st = "got" /\ ctx'[k].msg.pipe \in Pipes
  BY <1>1 DEF ContextReceives, IInv, CtxInv, Requests
<1>4. CtxInv'
  BY <1>3 DEF IInv, CtxInv
<1>5. SlotInv'
  BY <1>3 DEF ContextReceives, IInv, SlotInv
<1>6. MgrInv' /\ KnownInv' /\ ClientInv'
  BY DEF ContextReceives, IInv, MgrInv, KnownInv, ClientInv
<1> QED BY <1>2, <1>4, <1>5, <1>6 DEF IInv

-----------------------------------------------------------------------------
(* Removed pipes and ended tasks.                                          *)

(* Behind what an inbox may hold there is room for one None.               *)
LEMMA InboxAppend ==
    ASSUME NEW q, InboxForm(q), Gone \notin Range(q)
    PROVE  /\ InboxForm(Append(q, Gone))
           /\ Range(Append(q, Gone)) = Range(q) \cup {Gone}
           /\ q \in {<<>>, <<Gone>>} => Append(q, Gone) = <<Gone>>
<1>1. CASE q = <<>>
  <2>1. Append(q, Gone) = <<Gone>>
    BY <1>1
  <2> QED BY <1>1, <2>1, RangeEmpty, RangeOne DEF InboxForm
<1>2. ASSUME NEW k \in Contexts, q = <<k>>
      PROVE  /\ InboxForm(Append(q, Gone))
             /\ Range(Append(q, Gone)) = Range(q) \cup {Gone}
             /\ q # <<>> /\ q # <<Gone>>
  <2>1. Append(q, Gone) = <<k, Gone>>
    BY <1>2, PutSecond
  <2>2. Range(q) = {k} /\ Range(Append(q, Gone)) = {k, Gone}
    BY <1>2, <2>1, RangeOne, RangeTwo
  <2>3. q # <<>> /\ q # <<Gone>>
    BY <2>2, RangeEmpty, RangeOne
  <2> QED BY <2>1, <2>2, <2>3 DEF InboxForm
<1>3. \A k : q # <<Gone>> /\ q # <<k, Gone>>
  BY RangeOne, RangeTwo
<1> QED BY <1>1, <1>2, <1>3 DEF InboxForm

(* _disconnect() leaves a manager what it holds.                           *)
LEMMA DisconnectFacts ==
    ASSUME NEW r, RecordOk(r), r.pc # "unborn", Gone \notin Range(r.inbox)
    PROVE  /\ RecordOk(Disconnect(r)) /\ Disconnect(r).pc = r.pc
           /\ HeldIn(Disconnect(r)) = HeldIn(r)
<1> DEFINE d == Disconnect(r)
           q == IF r.pc \in {"done", "over"} THEN r.inbox ELSE Append(r.inbox, Gone)
<1>1. /\ DOMAIN d = Fields
      /\ d.pc = r.pc /\ d.running = FALSE /\ d.cur = r.cur /\ d.snd = r.snd /\ d.inbox = q
  BY DEF Disconnect, RecordOk, Fields
<1>2. InboxForm(r.inbox)
  BY DEF RecordOk
<1>3. /\ InboxForm(q) /\ Range(q) \subseteq Range(r.inbox) \cup {Gone}
      /\ Range(r.inbox) \subseteq Range(q)
      /\ r.inbox \in {<<>>, <<Gone>>} => q \in {<<>>, <<Gone>>}
  BY <1>2, InboxAppend
<1>4. r.pc \notin Live => q = <<>>
  BY DEF RecordOk, Live
<1>5. r.snd # Gone
  BY DEF RecordOk, NoCtx, Gone
<1> HIDE DEF d, q
<1>6. RecordOk(d)
  BY <1>1, <1>3, <1>4, <1>5 DEF RecordOk
<1>7. HeldIn(d) = HeldIn(r)
  BY <1>1, <1>3 DEF HeldIn, HeldBy
<1> QED BY <1>1, <1>6, <1>7 DEF d

(* _handle_pipe_status_change() of a removed pipe.                         *)
LEMMA PipeStatusStep ==
    ASSUME IInv, NEW p \in Pipes, HandlePipeStatusChange(p), UNCHANGED cl
    PROVE  IInv'
<1> DEFINE m == clients[p]
<1>1. /\ reported' = reported \cup {p} /\ p \notin reported
      /\ clients' = [clients EXCEPT ![p] = NoManager]
      /\ ctx' = ctx /\ wire' = wire
  BY DEF HandlePipeStatusChange
<1>2. /\ DOMAIN mgr' = Managers
      /\ \A n \in Managers :
            /\ RecordOk(mgr'[n]) /\ mgr'[n].pc = mgr[n].pc /\ HeldIn(mgr'[n]) = HeldIn(mgr[n])
            /\ PipeOf(n) # p => mgr'[n] = mgr[n]
  <2>1. CASE m = NoManager
    BY <2>1 DEF HandlePipeStatusChange, IInv, MgrInv
  <2>2. CASE m # NoManager
    <3>1. m \in Managers /\ PipeOf(m) = p /\ RecordOk(mgr[m]) /\ mgr[m].pc # "unborn"
      BY <2>2 DEF IInv, KnownInv, MgrInv
    <3>2. Gone \notin Range(mgr[m].inbox)
      BY <1>1, <3>1 DEF IInv, KnownInv
    <3>3. DOMAIN mgr' = Managers /\ mgr'[m] = Disconnect(mgr[m])
      BY <2>2, <3>1 DEF HandlePipeStatusChange, IInv, MgrInv
    <3>4. \A n \in Managers : n # m => mgr'[n] = mgr[n]
      BY <2>2, <3>1 DEF HandlePipeStatusChange, IInv, MgrInv
    <3>5. RecordOk(mgr'[m]) /\ mgr'[m].pc = mgr[m].pc /\ HeldIn(mgr'[m]) = HeldIn(mgr[m])
      BY <3>1, <3>2, <3>3, DisconnectFacts
    <3> QED BY <3>1, <3>3, <3>4, <3>5 DEF IInv, MgrInv
  <2> QED BY <2>1, <2>2
<1>3. MgrInv'
  BY <1>2 DEF MgrInv
<1>4. KnownInv'
  <2>1. clients' \in [Pipes -> Managers \cup {NoManager}]
    BY <1>1 DEF IInv, KnownInv
  <2>2. \A q \in Pipes : clients'[q] # NoManager => q # p /\ clients'[q] = clients[q]
    BY <1>1 DEF IInv, KnownInv
  <2>3. \A q \in Pipes : clients'[q] # NoManager =>
            PipeOf(clients'[q]) = q /\ mgr'[clients'[q]].pc # "unborn"
    BY <2>2, <1>2 DEF IInv, KnownInv
  <2>4. \A n \in Managers : PipeOf(n) \in Pipes
    BY DEF Managers, PipeOf
  <2>5. \A q \in Pipes \ {p} : clients'[q] = clients[q]
    BY <1>1 DEF IInv, KnownInv
  <2>6. \A n \in Managers : PipeOf(n) \notin reported' => PipeOf(n) # p /\ PipeOf(n) \notin reported
    BY <1>1
  <2>7. \A n \in Managers :
            /\ mgr'[n].pc \notin {"unborn", "over"} /\ PipeOf(n) \notin reported'
                  => clients'[PipeOf(n)] = n
            /\ Gone \in Range(mgr'[n].inbox) => PipeOf(n) \in reported'
    BY <2>4, <2>5, <2>6, <1>2 DEF IInv, KnownInv
  <2> QED BY <2>1, <2>3, <2>7 DEF KnownInv, PipeOf
<1>5. WireInv' /\ CtxInv' /\ ClientInv'
  BY <1>1 DEF IInv, WireInv, CtxInv, ClientInv
<1>6. SlotInv'
  BY <1>1, <1>2 DEF IInv, SlotInv
<1> QED BY <1>3, <1>4, <1>5, <1>6 DEF IInv

(* The done callback.                                                      *)
LEMMA TaskDoneStep ==
    ASSUME IInv, NEW m \in Managers, TaskDone(m), UNCHANGED cl
    PROVE  IInv'
<1> DEFINE p == PipeOf(m)
<1>0. p \in Pipes /\ mgr[m].pc = "done" /\ RecordOk(mgr[m])
  BY DEF Managers, PipeOf, TaskDone, IInv, MgrInv
<1>1. /\ reported' = reported /\ ctx' = ctx /\ wire' = wire
      /\ clients' = [clients EXCEPT ![p] = NoManager]
      /\ DOMAIN mgr' = Managers /\ mgr'[m] = Over(mgr[m])
      /\ \A n \in Managers : n # m => mgr'[n] = mgr[n]
  BY DEF TaskDone, IInv, MgrInv
<1>2. /\ DOMAIN mgr'[m] = Fields
      /\ mgr'[m].pc = "over" /\ mgr'[m].running = FALSE /\ mgr'[m].inbox = <<>>
      /\ mgr'[m].cur = NoCtx /\ mgr'[m].snd = NoCtx
  BY <1>1 DEF Over, Fields
<1>3. RecordOk(mgr'[m])
  BY <1>2, RangeEmpty DEF RecordOk, InboxForm, Live
<1>4. \A k \in Contexts : k \notin HeldIn(mgr'[m]) /\ k \notin HeldIn(mgr[m])
  BY <1>0, <1>2, RangeEmpty DEF HeldIn, HeldBy, RecordOk, Live, NoCtx
<1>5. MgrInv'
  BY <1>1, <1>3 DEF IInv, MgrInv
<1>6. KnownInv'
  <2>1. clients' \in [Pipes -> Managers \cup {NoManager}]
    BY <1>1 DEF IInv, KnownInv
  <2>2. \A q \in Pipes : clients'[q] # NoManager => q # p /\ clients'[q] = clients[q]
    BY <1>1 DEF IInv, KnownInv
  <2>3. \A q \in Pipes : clients'[q] # NoManager =>
            PipeOf(clients'[q]) = q /\ mgr'[clients'[q]].pc # "unborn"
    BY <2>2, <1>1, <1>2 DEF IInv, KnownInv
  <2>4. \A n \in Managers : PipeOf(n) \in Pipes
    BY DEF Managers, PipeOf
  <2>5. \A q \in Pipes \ {p} : clients'[q] = clients[q]
    BY <1>1 DEF IInv, KnownInv
  <2>6. \A n \in Managers \ {m} :
            mgr[n].pc \notin {"unborn", "over"} /\ PipeOf(n) \notin reported => PipeOf(n) # p
    BY <1>0 DEF IInv, KnownInv
  <2>7. \A n \in Managers :
            /\ mgr'[n].pc \notin {"unborn", "over"} /\ PipeOf(n) \notin reported'
                  => clients'[PipeOf(n)] = n
            /\ Gone \in Range(mgr'[n].inbox) => PipeOf(n) \in reported'
    BY <2>4, <2>5, <2>6, <1>1, <1>2, RangeEmpty DEF IInv, KnownInv
  <2> QED BY <2>1, <2>3, <2>7 DEF KnownInv, PipeOf
<1>7. WireInv' /\ CtxInv' /\ ClientInv'
  BY <1>1 DEF IInv, WireInv, CtxInv, ClientInv
<1>8. SlotInv'
  <2>1. \A k \in Contexts : \A n \in Managers : k \in HeldIn(mgr'[n]) <=> k \in HeldIn(mgr[n])
    BY <1>1, <1>4
  <2>2. \A k \in Contexts : \A n \in Managers : k \in HeldIn(mgr'[n]) => mgr'[n].pc = mgr[n].pc
    BY <1>1, <1>4
  <2> QED BY <1>1, <2>1, <2>2 DEF IInv, SlotInv
<1> QED BY <1>5, <1>6, <1>7, <1>8 DEF IInv

-----------------------------------------------------------------------------
(* The clients, whose steps change the wire only.                          *)

(* A step that the server does not see.                                    *)
LEMMA ServerSame ==
    ASSUME IInv, WireInv', ClientInv', UNCHANGED <<reported, ctx, clients, mgr>>
    PROVE  IInv'
BY DEF IInv, MgrInv, CtxInv, KnownInv, SlotInv

(* A request says which pipe it came on.                                   *)
LEMMA RequestTyped ==
    ASSUME ClientInv, NEW c \in Clients, NEW p \in Pipes
    PROVE  /\ [pipe |-> p, id |-> cl[c].step, body |-> Request(c, cl[c].step)] \in Requests(Bodies)
           /\ Pipe(c) \in Pipes
<1>1. cl[c].step \in Nat /\ cl[c].conn \in 1..MaxConns
  BY DEF ClientInv
<1>2. Request(c, cl[c].step) \in Bodies
  <2>1. PICK s \in Scenarios : cl[c].script = s.script[c]
    BY DEF ClientInv
  <2> QED BY <1>1, <2>1 DEF Request, Bodies
<1> QED BY <1>1, <1>2 DEF Requests, Pipe, Pipes

(* A request is put on the wire.                                           *)
LEMMA SendRequestKeepsWire ==
    ASSUME WireInv, ClientInv, NEW c \in Clients, SendRequest(c)
    PROVE  WireInv'
<1> DEFINE p == Pipe(c)
           msg == [pipe |-> p, id |-> cl[c].step, body |-> Request(c, cl[c].step)]
<1>0. p \in Pipes
  BY RequestTyped DEF ClientInv, Pipe, Pipes
<1>1. msg \in Requests(Bodies)
  BY <1>0, RequestTyped
<1>2. wire' = [wire EXCEPT ![p] = Append(wire[p], msg)]
  BY DEF SendRequest
<1> HIDE DEF msg, p
<1>3. Append(wire[p], msg) \in Seq(Requests(Bodies))
  BY <1>0, <1>1 DEF WireInv
<1> QED BY <1>0, <1>2, <1>3 DEF WireInv

(* The dialer connects, REQ repeats its request.                           *)
LEMMA ConnectStep ==
    ASSUME IInv, NEW c \in Clients, Connect(c)
    PROVE  IInv'
<1> DEFINE p == <<c, cl[c].conn + 1>>
           msg == [pipe |-> p, id |-> cl[c].step, body |-> Request(c, cl[c].step)]
<1>1. ClientInv /\ WireInv /\ cl[c].conn \in 1..MaxConns /\ cl[c].conn < MaxConns
  BY DEF IInv, ClientInv, Connect
<1>2. p \in Pipes
  BY <1>1 DEF Pipes
<1>3. msg \in Requests(Bodies)
  BY <1>1, <1>2, RequestTyped
<1>4. wire' = [wire EXCEPT ![p] = IF cl[c].pc = "await" THEN <<msg>> ELSE <<>>]
  BY DEF Connect
<1>5. WireInv'
  <2> HIDE DEF msg, p
  <2>1. <<msg>> \in Seq(Requests(Bodies)) /\ <<>> \in Seq(Requests(Bodies))
    BY <1>3
  <2> QED BY <1>1, <1>2, <1>4, <2>1 DEF WireInv
<1>6. cl' = [cl EXCEPT ![c].conn = cl[c].conn + 1]
  BY DEF Connect
<1>7. cl[c].conn + 1 \in 1..MaxConns
  BY <1>1
<1>8. ClientInv'
  BY <1>1, <1>6, <1>7 DEF ClientInv
<1> QED BY <1>5, <1>8, ServerSame DEF Connect

(* A session sends its next request.                                       *)
LEMMA ClientSendStep ==
    ASSUME IInv, NEW c \in Clients, ClientSend(c)
    PROVE  IInv'
<1>1. WireInv'
  BY SendRequestKeepsWire DEF IInv, ClientSend
<1>2. ClientInv'
  BY DEF IInv, ClientInv, ClientSend
<1> QED BY <1>1, <1>2, ServerSame DEF ClientSend

(* REQ repeats a request.                                                  *)
LEMMA ResendStep ==
    ASSUME IInv, NEW c \in Clients, Resend(c)
    PROVE  IInv'
<1>1. WireInv'
  BY SendRequestKeepsWire DEF IInv, Resend
<1>2. ClientInv'
  BY DEF IInv, ClientInv, Resend
<1> QED BY <1>1, <1>2, ServerSame DEF Resend

(* A session gets an answer.                                               *)
LEMMA ClientRecvStep ==
    ASSUME IInv, NEW c \in Clients, ClientRecv(c)
    PROVE  IInv'
<1>1. WireInv'
  <2>1. ClosePipe(Pipe(c)) \/ wire' = wire
    BY DEF ClientRecv
  <2> QED BY <2>1, ClosePipeKeepsWire DEF IInv, WireInv
<1>2. \/ cl' = cl
      \/ \E pc, answers :
            cl' = [cl EXCEPT ![c].pc = pc, ![c].step = cl[c].step + 1, ![c].answers = answers]
  BY DEF ClientRecv
<1>3. ClientInv'
  <2>1. ASSUME NEW pc, NEW answers,
               cl' = [cl EXCEPT ![c].pc = pc, ![c].step = cl[c].step + 1, ![c].answers = answers]
        PROVE  ClientInv'
    <3>1. ClientInv /\ cl[c].step + 1 \in Nat
      BY DEF IInv, ClientInv
    <3>2. /\ DOMAIN cl' = Clients /\ \A b \in Clients \ {c} : cl'[b] = cl[b]
          /\ DOMAIN cl'[c] = DOMAIN cl[c]
          /\ cl'[c].step = cl[c].step + 1 /\ cl'[c].conn = cl[c].conn
          /\ cl'[c].script = cl[c].script
      BY <2>1, <3>1 DEF ClientInv
    <3>3. \A b \in Clients :
              /\ DOMAIN cl'[b] = DOMAIN cl[b]
              /\ cl'[b].step \in Nat /\ cl'[b].conn = cl[b].conn
              /\ cl'[b].script = cl[b].script
      BY <3>1, <3>2 DEF ClientInv
    <3> QED BY <3>1, <3>2, <3>3 DEF ClientInv
  <2>2. CASE cl' = cl
    BY <2>2 DEF IInv, ClientInv
  <2> QED BY <1>2, <2>1, <2>2
<1> QED BY <1>1, <1>3, ServerSame DEF ClientRecv

(* A connection breaks.                                                    *)
LEMMA DropStep ==
    ASSUME IInv, NEW c \in Clients, Drop(c)
    PROVE  IInv'
<1>1. WireInv' /\ ClientInv'
  BY ClosePipeKeepsWire DEF IInv, ClientInv, Drop
<1> QED BY <1>1, ServerSame DEF Drop

-----------------------------------------------------------------------------
(* serve() starts with contexts that receive and no managers.              *)
LEMMA InitIInv == Init => IInv
<1> SUFFICES ASSUME Init PROVE IInv
  OBVIOUS
<1> USE DEF Init, ServerInit
<1> DEFINE u == Unborn(NewSession)
<1>1. /\ DOMAIN u = Fields
      /\ u.pc = "unborn" /\ u.running = FALSE /\ u.inbox = <<>> /\ u.cur = NoCtx /\ u.snd = NoCtx
  BY DEF Unborn, NewManager, Fields
<1> HIDE DEF u
<1>2. RecordOk(u)
  BY <1>1, RangeEmpty DEF RecordOk, InboxForm, Live
<1>3. DOMAIN mgr = Managers /\ \A m \in Managers : mgr[m] = u
  BY DEF u
<1>4. \A k \in Contexts : \A m \in Managers : k \notin HeldIn(mgr[m])
  BY <1>1, <1>3, RangeEmpty DEF HeldIn, HeldBy, NoCtx
<1>5. MgrInv
  BY <1>2, <1>3 DEF MgrInv
<1>6. WireInv /\ CtxInv /\ ClientInv
  BY DEF WireInv, CtxInv, ClientInv
<1>7. KnownInv
  BY <1>1, <1>3, RangeEmpty DEF KnownInv
<1>8. SlotInv
  BY <1>4 DEF SlotInv
<1> QED BY <1>5, <1>6, <1>7, <1>8 DEF IInv

(* Every step keeps the invariant.                                         *)
LEMMA NextIInv == IInv /\ [Next]_vars => IInv'
<1> SUFFICES ASSUME IInv, [Next]_vars PROVE IInv'
  OBVIOUS
<1>1. CASE ServerStep(NewSession) /\ UNCHANGED <<cl, faults>>
  BY <1>1, ContextReceivesStep, RecvDispatchStep, RecvDispatchNoPipeStep, PipeStatusStep,
     ConnectionResetStep, SendFailedStep, TaskDoneStep DEF ServerStep
<1>2. ASSUME NEW m \in Managers, ManagerStep(m) PROVE IInv'
  BY <1>2, HelloStep, RecvStep, ExecuteStep, SentStep DEF ManagerStep
<1>3. ASSUME NEW c \in Clients, ClientStep(c) \/ Resend(c) \/ Drop(c) PROVE IInv'
  BY <1>3, ConnectStep, ClientSendStep, ClientRecvStep, ResendStep, DropStep DEF ClientStep
<1>4. CASE UNCHANGED vars
  <2>1. UNCHANGED <<wire, reported, ctx, clients, mgr, cl>>
    BY <1>4 DEF vars, serverVars
  <2> QED BY <2>1, ServerSame DEF IInv, WireInv, ClientInv
<1> QED BY <1>1, <1>2, <1>3, <1>4 DEF Next, Running

(* The inductive invariant.                                                *)
LEMMA SpecIInv == Spec => []IInv
BY InitIInv, NextIInv, PTL DEF Spec

(* No context is lost and none is answered twice, whatever the number of   *)
(* clients and contexts and however connections break: a dispatch task     *)
(* that waits for its event has exactly one manager, of the right pipe,    *)
(* whose task will set it.                                                 *)
THEOREM SlotsAreHeld == Spec => []SlotHasOneHolder
<1>1. IInv => SlotHasOneHolder
  <2> SUFFICES ASSUME IInv, NEW k \in Contexts
               PROVE  /\ ctx[k].st = "wait" =>
                            \E m \in Managers :
                               /\ Holders(k) = {m}
                               /\ PipeOf(m) = ctx[k].msg.pipe
                               /\ mgr[m].pc \in {"ready", "work", "send"}
                      /\ ctx[k].st # "wait" => Holders(k) = {}
    BY DEF SlotHasOneHolder
  <2>1. \A m \in Managers : m \in Holders(k) <=> k \in HeldIn(mgr[m])
    BY DEF Holders, HeldIn
  <2>2. Holders(k) \subseteq Managers
    BY DEF Holders
  <2>3. CASE ctx[k].st = "wait"
    <3>1. PICK m \in Managers : k \in HeldIn(mgr[m])
      BY <2>3 DEF IInv, SlotInv
    <3>2. Holders(k) = {m}
      BY <2>1, <2>2, <3>1 DEF IInv, SlotInv
    <3> QED BY <2>3, <3>1, <3>2 DEF IInv, SlotInv, Live
  <2>4. CASE ctx[k].st # "wait"
    BY <2>1, <2>2, <2>4 DEF IInv, SlotInv
  <2> QED BY <2>3, <2>4
<1> QED BY SpecIInv, <1>1, PTL

(* put_nowait(None) of _disconnect() never meets a full Queue.             *)
THEOREM InboxNeverOverflows == Spec => []InboxFits
<1>1. IInv => InboxFits
  <2> SUFFICES ASSUME IInv, NEW m \in Managers
               PROVE  \/ mgr[m].inbox = <<>>
                      \/ Len(mgr[m].inbox) = 1
                      \/ Len(mgr[m].inbox) = 2 /\ mgr[m].inbox[1] # Gone /\ mgr[m].inbox[2] = Gone
    BY DEF InboxFits
  <2>1. InboxForm(mgr[m].inbox)
    BY DEF IInv, MgrInv, RecordOk
  <2>2. \A a : Len(<<a>>) = 1
    OBVIOUS
  <2>3. \A a, b : Len(<<a, b>>) = 2 /\ <<a, b>>[1] = a /\ <<a, b>>[2] = b
    OBVIOUS
  <2>4. \A k \in Contexts : k # Gone
    BY DEF Gone
  <2>5. ASSUME NEW q, InboxForm(q)
        PROVE  q = <<>> \/ Len(q) = 1 \/ (Len(q) = 2 /\ q[1] # Gone /\ q[2] = Gone)
    <3>1. CASE q = <<>>
      BY <3>1
    <3>2. CASE q = <<Gone>>
      BY <3>2, <2>2
    <3>3. ASSUME NEW k \in Contexts, q = <<k>> \/ q = <<k, Gone>>
          PROVE  Len(q) = 1 \/ (Len(q) = 2 /\ q[1] # Gone /\ q[2] = Gone)
      <4>1. CASE q = <<k>>
        BY <4>1, <2>2
      <4>2. CASE q = <<k, Gone>>
        BY <4>2, <2>3, <2>4
      <4> QED BY <3>3, <4>1, <4>2
    <3> QED BY <2>5, <3>1, <3>2, <3>3 DEF InboxForm
  <2> QED BY <2>1, <2>5
<1> QED BY SpecIInv, <1>1, PTL

(* The done callback of an ended conversation never makes the server       *)
(* forget a running one.                                                   *)
THEOREM RunningIsKnown == Spec => []RunningManagerIsKnown
<1>1. IInv => RunningManagerIsKnown
  BY DEF IInv, MgrInv, KnownInv, RecordOk, Live, RunningManagerIsKnown
<1> QED BY SpecIInv, <1>1, PTL

-----------------------------------------------------------------------------
(* The sessions.  A session that reconnects behind its handshake repeats a *)
(* command, never the handshake, so on the new connection nothing but the  *)
(* answer of a failed handshake can come back.  LaterInv follows that from *)
(* the wire to the contexts, the managers and the replies.                 *)

\* A connection its client has not made yet, or made after the handshake.
Later(p) ==
    LET s == cl[Owner(p)]
    IN  p[2] > s.conn \/ (Len(s.answers) > 0 /\ p[2] > s.answers[1].conn)

\* What a request on p says: it came on p, and on a later connection it is
\* not the handshake.
RequestsOn(p) ==
    [pipe : {p}, id : Nat, body : IF Later(p) THEN Bodies \ {Start} ELSE Bodies]

RefusalsOnly == [id : Nat, body : {ExpectedStart}]

SessionOk(s) ==
    /\ s.answers \in Seq(Range(s.answers))
    /\ s.step = Len(s.answers)
    /\ Len(s.answers) > 0 => s.answers[1].conn \in 1..s.conn
    /\ \A i \in 1..Len(s.answers) :
          s.answers[i].body # ExpectedStart => s.answers[i].conn = s.answers[1].conn

AppOk(r, later) ==
    r.pc # "over" =>
        /\ DOMAIN r.app = {"phase", "acc"}
        /\ later => r.app.phase # "loop" /\ r.pc # "work"

SessionInv == \A c \in Clients : SessionOk(cl[c])
LaterWireInv == \A p \in Pipes : wire[p] \in Seq(RequestsOn(p))
LaterCtxInv ==
    \A k \in Contexts, p \in Pipes :
        ctx[k].st \in {"got", "wait"} /\ ctx[k].msg.pipe = p => ctx[k].msg \in RequestsOn(p)
LaterMgrInv == \A m \in Managers : AppOk(mgr[m], Later(PipeOf(m)))
LaterRepliesInv ==
    /\ DOMAIN replies = Pipes
    /\ \A p \in Pipes : Later(p) => replies[p] \in Seq(RefusalsOnly)

LaterInv == SessionInv /\ LaterWireInv /\ LaterCtxInv /\ LaterMgrInv /\ LaterRepliesInv

(* What is in the smaller set is in the larger one.                        *)
LEMMA SeqOfMore ==
    ASSUME NEW S, NEW T, S \subseteq T, NEW q \in Seq(S)
    PROVE  q \in Seq(T)
OBVIOUS

(* Connections are later than the handshake by what the session says.      *)
LEMMA LaterSame ==
    ASSUME UNCHANGED cl, NEW p
    PROVE  /\ Later(p)' <=> Later(p)
           /\ RequestsOn(p)' = RequestsOn(p)
BY DEF Later, RequestsOn

\* What a step of the server does that answers nothing: it drops or keeps
\* requests, releases or keeps contexts, and keeps conversations, ends them
\* or starts new ones.
RequestsDropped == \A p \in Pipes : wire'[p] = wire[p] \/ wire'[p] = <<>>
MessagesKept ==
    \A k \in Contexts :
        ctx'[k].st \in {"got", "wait"} =>
            ctx[k].st \in {"got", "wait"} /\ ctx'[k].msg = ctx[k].msg
AppKept(r, n) ==
    \/ n.pc = "over"
    \/ n.app = r.app /\ r.pc # "over" /\ (n.pc = "work" => r.pc = "work")
    \/ n.app = NewSession /\ n.pc # "work"
AppsKept == \A m \in Managers : AppKept(mgr[m], mgr'[m])

(* A record that keeps its conversation keeps its phase.                   *)
LEMMA AppKeptOk ==
    ASSUME NEW r, NEW n, NEW later, AppOk(r, later), AppKept(r, n)
    PROVE  AppOk(n, later)
BY DEF AppOk, AppKept, NewSession

(* Closing a pipe drops what is on it and nothing else.                    *)
LEMMA ClosePipeDrops ==
    ASSUME WireInv, NEW p, ClosePipe(p)
    PROVE  RequestsDropped
BY DEF WireInv, ClosePipe, RequestsDropped

(* Releasing contexts keeps the messages of the others.                    *)
LEMMA ReleaseKeepsMessages ==
    ASSUME NEW S, ctx' = Released(S)
    PROVE  MessagesKept
BY DEF Released, Receiving, MessagesKept

(* Requests that stay, or are dropped, fit their connections.              *)
LEMMA WireKept ==
    ASSUME LaterWireInv, UNCHANGED cl, RequestsDropped
    PROVE  LaterWireInv'
<1> SUFFICES ASSUME NEW p \in Pipes PROVE wire'[p] \in Seq(RequestsOn(p)')
  BY DEF LaterWireInv
<1>1. RequestsOn(p)' = RequestsOn(p)
  BY LaterSame
<1>2. wire[p] \in Seq(RequestsOn(p)) /\ <<>> \in Seq(RequestsOn(p))
  BY DEF LaterWireInv
<1> QED BY <1>1, <1>2 DEF RequestsDropped

(* Contexts that keep their messages, or are released.                     *)
LEMMA CtxKept ==
    ASSUME LaterCtxInv, UNCHANGED cl, MessagesKept
    PROVE  LaterCtxInv'
<1> SUFFICES ASSUME NEW k \in Contexts, NEW p \in Pipes,
                    ctx'[k].st \in {"got", "wait"}, ctx'[k].msg.pipe = p
             PROVE  ctx'[k].msg \in RequestsOn(p)'
  BY DEF LaterCtxInv
<1>1. ctx[k].st \in {"got", "wait"} /\ ctx'[k].msg = ctx[k].msg
  BY DEF MessagesKept
<1>2. RequestsOn(p)' = RequestsOn(p)
  BY LaterSame
<1> QED BY <1>1, <1>2 DEF LaterCtxInv

(* Conversations that stay, end or start anew.                             *)
LEMMA MgrKept ==
    ASSUME LaterMgrInv, UNCHANGED cl, AppsKept
    PROVE  LaterMgrInv'
<1> SUFFICES ASSUME NEW m \in Managers PROVE AppOk(mgr'[m], Later(PipeOf(m))')
  BY DEF LaterMgrInv
<1>1. Later(PipeOf(m))' <=> Later(PipeOf(m))
  BY LaterSame
<1>2. AppOk(mgr'[m], Later(PipeOf(m)))
  BY AppKeptOk DEF LaterMgrInv, AppsKept
<1> QED BY <1>1, <1>2 DEF AppOk

(* Replies that nobody touches.                                            *)
LEMMA RepliesKept ==
    ASSUME LaterRepliesInv, UNCHANGED <<cl, replies>>
    PROVE  LaterRepliesInv'
BY LaterSame DEF LaterRepliesInv

(* Together: a step of the server that answers nothing keeps LaterInv.     *)
LEMMA ServerKeeps ==
    ASSUME LaterInv, UNCHANGED <<cl, replies>>, RequestsDropped, MessagesKept, AppsKept
    PROVE  LaterInv'
<1>1. SessionInv'
  BY DEF LaterInv, SessionInv
<1> QED BY <1>1, WireKept, CtxKept, MgrKept, RepliesKept DEF LaterInv

(* The dispatch tasks, the callbacks about pipes, and the ends of tasks:   *)
(* they answer nothing.                                                    *)

(* nng gives a request to a context.                                       *)
LEMMA ContextReceivesLater ==
    ASSUME IInv, LaterInv, NEW k \in Contexts, NEW p \in Pipes, ContextReceives(k, p), UNCHANGED cl
    PROVE  LaterInv'
<1>1. wire[p] \in Seq(RequestsOn(p)) /\ wire[p] # <<>>
  BY DEF LaterInv, LaterWireInv, ContextReceives
<1>2. Head(wire[p]) \in RequestsOn(p) /\ Tail(wire[p]) \in Seq(RequestsOn(p))
  BY <1>1
<1>3. \A q \in Pipes : RequestsOn(q)' = RequestsOn(q)
  BY LaterSame
<1>4. LaterWireInv'
  <2> SUFFICES ASSUME NEW q \in Pipes PROVE wire'[q] \in Seq(RequestsOn(q)')
    BY DEF LaterWireInv
  <2>1. wire'[q] = IF q = p THEN Tail(wire[p]) ELSE wire[q]
    BY DEF ContextReceives, IInv, WireInv
  <2>2. wire[q] \in Seq(RequestsOn(q))
    BY DEF LaterInv, LaterWireInv
  <2>3. RequestsOn(q)' = RequestsOn(q)
    BY <1>3
  <2> QED BY <1>2, <2>1, <2>2, <2>3
<1>5. LaterCtxInv'
  <2> SUFFICES ASSUME NEW j \in Contexts, NEW q \in Pipes,
                      ctx'[j].st \in {"got", "wait"}, ctx'[j].msg.pipe = q
               PROVE  ctx'[j].msg \in RequestsOn(q)'
    BY DEF LaterCtxInv
  <2>1. ctx'[j] = IF j = k THEN [st |-> "got", msg |-> Head(wire[p])] ELSE ctx[j]
    BY DEF ContextReceives, IInv, CtxInv
  <2>2. CASE j = k
    <3>1. ctx'[j].msg = Head(wire[p]) /\ ctx'[j].msg.pipe = p
      BY <1>2, <2>1, <2>2 DEF RequestsOn
    <3> QED BY <1>2, <1>3, <3>1
  <2>3. CASE j # k
    BY <2>1, <2>3, <1>3 DEF LaterInv, LaterCtxInv
  <2> QED BY <2>2, <2>3
<1>6. AppsKept
  BY DEF AppsKept, AppKept, ContextReceives, LaterInv, LaterMgrInv, AppOk
<1>7. UNCHANGED replies /\ SessionInv'
  BY DEF ContextReceives, LaterInv, SessionInv
<1> QED BY <1>4, <1>5, <1>6, <1>7, MgrKept, RepliesKept DEF LaterInv

(* Managers that a step does not change keep their conversations.          *)
LEMMA OthersKept ==
    ASSUME NEW m \in Managers, OthersSame(m), AppKept(mgr[m], mgr'[m])
    PROVE  AppsKept
<1> SUFFICES ASSUME NEW n \in Managers PROVE AppKept(mgr[n], mgr'[n])
  BY DEF AppsKept
<1>1. CASE n = m
  BY <1>1
<1>2. CASE n # m
  BY <1>2 DEF OthersSame, AppKept
<1> QED BY <1>1, <1>2

(* _dispatch() gives the manager a context or takes it back.               *)
LEMMA DispatchLater ==
    ASSUME IInv, LaterInv, NEW k \in Contexts, ctx[k].st = "got", NEW m \in Managers, NEW r,
           DOMAIN r = Fields,
           r = mgr[m] \/ (r.app = NewSession /\ r.pc # "work"), Dispatch(k, m, r),
           UNCHANGED <<replies, cl>>
    PROVE  LaterInv'
<1>1. RequestsDropped
  <2>1. ClosePipe(PipeOf(m)) \/ UNCHANGED wire
    BY DEF Dispatch
  <2>2. UNCHANGED wire => RequestsDropped
    BY DEF RequestsDropped
  <2> QED BY <2>1, <2>2, ClosePipeDrops DEF IInv
<1>2. MessagesKept
  <2>1. CASE ctx' = Released({k})
    BY <2>1, ReleaseKeepsMessages
  <2>2. CASE ctx' = [ctx EXCEPT ![k].st = "wait"]
    BY <2>2 DEF MessagesKept, IInv, CtxInv
  <2> QED BY <2>1, <2>2 DEF Dispatch
<1>3. OthersSame(m) /\ mgr'[m].app = r.app /\ mgr'[m].pc = r.pc
  <2>1. CASE mgr' = [mgr EXCEPT ![m] = r]
    BY <2>1 DEF IInv, MgrInv, OthersSame
  <2>2. CASE mgr' = [mgr EXCEPT ![m] = [r EXCEPT !.inbox = Append(@, k)]]
    BY <2>2 DEF IInv, MgrInv, OthersSame, Fields
  <2> QED BY <2>1, <2>2 DEF Dispatch
<1>4. AppsKept
  BY <1>3, OthersKept DEF AppKept
<1> QED BY <1>1, <1>2, <1>4, ServerKeeps

(* A round of _recv_dispatch().                                            *)
LEMMA RecvDispatchLater ==
    ASSUME IInv, LaterInv, NEW k \in Contexts, RecvDispatch(k, NewSession), UNCHANGED cl
    PROVE  LaterInv'
<1> DEFINE p == ctx[k].msg.pipe
<1>1. ctx[k].st = "got" /\ p \in Pipes /\ UNCHANGED replies
  BY DEF RecvDispatch, IInv, CtxInv
<1>2. CASE Known(p)
  <2>1. Dispatch(k, clients[p], mgr[clients[p]])
    BY <1>2 DEF RecvDispatch
  <2>2. clients[p] \in Managers /\ DOMAIN mgr[clients[p]] = Fields
    BY <1>1, <1>2 DEF Known, IInv, KnownInv, MgrInv, RecordOk
  <2> QED BY <1>1, <2>1, <2>2, DispatchLater
<1>3. CASE ~Known(p)
  <2>1. PICK i \in 1..MaxManagers : Dispatch(k, <<p, i>>, NewManager(NewSession))
    BY <1>3 DEF RecvDispatch
  <2> DEFINE r == NewManager(NewSession)
  <2>2. DOMAIN r = Fields /\ r.app = NewSession /\ r.pc # "work"
    BY DEF NewManager, Fields
  <2>3. <<p, i>> \in Managers
    BY <1>1 DEF Managers
  <2> HIDE DEF r
  <2>4. Dispatch(k, <<p, i>>, r)
    BY <2>1 DEF r
  <2> QED BY <1>1, <2>2, <2>3, <2>4, DispatchLater
<1> QED BY <1>2, <1>3

(* A request whose Pipe has been collected.                                *)
LEMMA RecvDispatchNoPipeLater ==
    ASSUME IInv, LaterInv, NEW k \in Contexts, RecvDispatchNoPipe(k), UNCHANGED cl
    PROVE  LaterInv'
<1>1. RequestsDropped /\ UNCHANGED replies
  BY DEF RecvDispatchNoPipe, RequestsDropped
<1>2. MessagesKept
  BY ReleaseKeepsMessages DEF RecvDispatchNoPipe
<1>3. AppsKept
  BY DEF RecvDispatchNoPipe, AppsKept, AppKept
<1> QED BY <1>1, <1>2, <1>3, ServerKeeps

(* _handle_pipe_status_change() of a removed pipe.                         *)
LEMMA PipeStatusLater ==
    ASSUME IInv, LaterInv, NEW p \in Pipes, HandlePipeStatusChange(p), UNCHANGED cl
    PROVE  LaterInv'
<1>1. RequestsDropped /\ MessagesKept /\ UNCHANGED replies
  BY DEF HandlePipeStatusChange, RequestsDropped, MessagesKept
<1>2. AppsKept
  <2>1. CASE clients[p] = NoManager
    BY <2>1 DEF HandlePipeStatusChange, AppsKept, AppKept
  <2>2. CASE clients[p] # NoManager
    <3> DEFINE m == clients[p]
    <3>1. m \in Managers /\ DOMAIN mgr[m] = Fields
      BY <2>2 DEF IInv, KnownInv, MgrInv, RecordOk
    <3>2. mgr' = [mgr EXCEPT ![m] = Disconnect(mgr[m])]
      BY <2>2 DEF HandlePipeStatusChange
    <3>3. OthersSame(m) /\ mgr'[m] = Disconnect(mgr[m])
      BY <3>1, <3>2 DEF IInv, MgrInv, OthersSame
    <3>4. mgr'[m].app = mgr[m].app /\ mgr'[m].pc = mgr[m].pc
      BY <3>1, <3>3 DEF Disconnect, Fields
    <3>5. AppKept(mgr[m], mgr'[m])
      BY <3>4 DEF AppKept
    <3> QED BY <3>1, <3>3, <3>5, OthersKept
  <2> QED BY <2>1, <2>2
<1> QED BY <1>1, <1>2, ServerKeeps

(* _execute()'s finally block ends a conversation.                         *)
LEMMA FinallyLater ==
    ASSUME IInv, LaterInv, NEW m \in Managers, mgr[m].pc \in Live, NEW S, Execute_finally(m, S),
           UNCHANGED <<replies, cl>>
    PROVE  LaterInv'
<1>1. RequestsDropped
  BY ClosePipeDrops DEF Execute_finally, IInv
<1>2. MessagesKept
  BY ReleaseKeepsMessages DEF Execute_finally
<1>3. OthersSame(m) /\ mgr'[m].app = mgr[m].app /\ mgr'[m].pc = "done"
  BY DEF Execute_finally, IInv, MgrInv, RecordOk, OthersSame, Fields
<1>4. AppKept(mgr[m], mgr'[m])
  BY <1>3 DEF AppKept, Live
<1>5. AppsKept
  BY <1>3, <1>4, OthersKept
<1> QED BY <1>1, <1>2, <1>5, ServerKeeps

(* arecv() found None, or asend() failed.                                  *)
LEMMA TaskFailsLater ==
    ASSUME IInv, LaterInv, NEW m \in Managers, ConnectionReset(m) \/ SendFailed(m), UNCHANGED cl
    PROVE  LaterInv'
BY FinallyLater DEF ConnectionReset, SendFailed, HasItem, Live

(* asend() is over.                                                        *)
LEMMA SentLater ==
    ASSUME IInv, LaterInv, NEW m \in Managers, Conversation_sent(m)
    PROVE  LaterInv'
<1>1. mgr[m].pc = "send" /\ UNCHANGED <<replies, cl>>
  BY DEF Conversation_sent, SendDone
<1>2. CASE Execute_finally(m, {mgr[m].snd})
  BY <1>1, <1>2, FinallyLater DEF Live
<1>3. CASE /\ mgr' = [mgr EXCEPT ![m].snd = NoCtx, ![m].pc = "ready"]
           /\ ctx' = Released({mgr[m].snd})
           /\ UNCHANGED <<link, wire>>
  <2>1. RequestsDropped
    BY <1>3 DEF RequestsDropped
  <2>2. MessagesKept
    BY <1>3, ReleaseKeepsMessages
  <2>3. OthersSame(m) /\ mgr'[m].app = mgr[m].app /\ mgr'[m].pc = "ready"
    BY <1>3 DEF IInv, MgrInv, RecordOk, OthersSame, Fields
  <2>4. AppKept(mgr[m], mgr'[m])
    BY <1>1, <2>3 DEF AppKept
  <2>5. AppsKept
    BY <2>3, <2>4, OthersKept
  <2> QED BY <1>1, <2>1, <2>2, <2>5, ServerKeeps
<1> QED BY <1>2, <1>3 DEF Conversation_sent, SendDone

(* The done callback.                                                      *)
LEMMA TaskDoneLater ==
    ASSUME IInv, LaterInv, NEW m \in Managers, TaskDone(m), UNCHANGED cl
    PROVE  LaterInv'
<1>1. RequestsDropped /\ MessagesKept /\ UNCHANGED replies
  BY DEF TaskDone, RequestsDropped, MessagesKept
<1>2. OthersSame(m) /\ mgr'[m].pc = "over"
  BY DEF TaskDone, Over, IInv, MgrInv, OthersSame
<1>3. AppsKept
  BY <1>2, OthersKept DEF AppKept
<1> QED BY <1>1, <1>3, ServerKeeps

(* The conversations.                                                      *)

(* A context that a manager holds has a request of the manager's pipe.     *)
LEMMA HeldRequest ==
    ASSUME IInv, LaterInv, NEW m \in Managers, NEW k \in Contexts, k \in HeldIn(mgr[m])
    PROVE  /\ PipeOf(m) \in Pipes /\ ctx[k].msg.pipe = PipeOf(m)
           /\ ctx[k].msg.id \in Nat
           /\ Later(PipeOf(m)) => ctx[k].msg.body # Start
<1>1. PipeOf(m) \in Pipes
  BY DEF Managers, PipeOf
<1>2. ctx[k].st = "wait" /\ ctx[k].msg.pipe = PipeOf(m)
  BY DEF IInv, SlotInv
<1>3. ctx[k].msg \in RequestsOn(PipeOf(m))
  BY <1>1, <1>2 DEF LaterInv, LaterCtxInv
<1> QED BY <1>1, <1>2, <1>3 DEF RequestsOn

(* A reply goes to the pipe of its request.                                *)
LEMMA ReplyKeeps ==
    ASSUME LaterRepliesInv, UNCHANGED cl, NEW k \in Contexts, NEW p \in Pipes,
           ctx[k].msg.pipe = p, ctx[k].msg.id \in Nat, NEW body, Reply(k, body),
           Later(p) => body = ExpectedStart
    PROVE  LaterRepliesInv'
<1> DEFINE msg == [id |-> ctx[k].msg.id, body |-> body]
<1>1. replies' = replies \/ replies' = [replies EXCEPT ![p] = Append(replies[p], msg)]
  BY DEF Reply
<1>2. CASE replies' = replies
  BY <1>2, RepliesKept
<1>3. CASE replies' = [replies EXCEPT ![p] = Append(replies[p], msg)]
  <2>1. DOMAIN replies' = Pipes
    BY <1>3 DEF LaterRepliesInv
  <2> SUFFICES ASSUME NEW q \in Pipes, Later(q)' PROVE replies'[q] \in Seq(RefusalsOnly)
    BY <2>1 DEF LaterRepliesInv
  <2>2. Later(q) /\ replies[q] \in Seq(RefusalsOnly)
    BY LaterSame DEF LaterRepliesInv
  <2>3. CASE q = p
    <3>1. msg \in RefusalsOnly
      BY <2>2, <2>3 DEF RefusalsOnly
    <3>2. replies'[q] = Append(replies[q], msg)
      BY <1>3, <2>3 DEF LaterRepliesInv
    <3> HIDE DEF msg
    <3> QED BY <2>2, <3>1, <3>2
  <2>4. CASE q # p
    BY <1>3, <2>2, <2>4 DEF LaterRepliesInv
  <2> QED BY <2>3, <2>4
<1> QED BY <1>1, <1>2, <1>3

(* A manager's own step, when its record stays all right.                  *)
LEMMA ConversationKeeps ==
    ASSUME LaterInv, UNCHANGED <<wire, ctx, cl>>, LaterRepliesInv', NEW m \in Managers, OthersSame(m),
           AppOk(mgr'[m], Later(PipeOf(m)))
    PROVE  LaterInv'
<1>1. RequestsDropped /\ MessagesKept /\ SessionInv'
  BY DEF RequestsDropped, MessagesKept, LaterInv, SessionInv
<1>2. LaterMgrInv'
  <2> SUFFICES ASSUME NEW n \in Managers PROVE AppOk(mgr'[n], Later(PipeOf(n))')
    BY DEF LaterMgrInv
  <2>1. Later(PipeOf(n))' <=> Later(PipeOf(n))
    BY LaterSame
  <2>2. AppOk(mgr'[n], Later(PipeOf(n)))
    BY DEF LaterInv, LaterMgrInv, OthersSame
  <2> QED BY <2>1, <2>2 DEF AppOk
<1> QED BY <1>1, <1>2, WireKept, CtxKept DEF LaterInv

(* The first message: on a later connection it is no handshake.            *)
LEMMA HelloLater ==
    ASSUME IInv, LaterInv, NEW m \in Managers, Conversation_hello(m)
    PROVE  LaterInv'
<1> DEFINE r == mgr[m]
           k == Head(r.inbox)
           ok == IsHello(ctx[k].msg.body)
           g == Sending(Received(r))
           ph == IF ok THEN "loop" ELSE "end"
<1>1. RecordOk(r) /\ r.pc = "ready" /\ r.inbox # <<>> /\ k # Gone
  BY DEF IInv, MgrInv, Conversation_hello, HasRequest, HasItem
<1>2. /\ DOMAIN Received(r) = Fields /\ Received(r).cur \in Contexts
      /\ Range(r.inbox) = {Received(r).cur} \cup Range(Received(r).inbox)
      /\ Received(r).pc = r.pc
  BY <1>1, ReceivedFacts
<1>3. Received(r).cur = k /\ Received(r).app = r.app
  BY <1>1 DEF Received, RecordOk, Fields
<1>4. k \in Contexts /\ k \in HeldIn(r)
  BY <1>1, <1>2, <1>3 DEF HeldIn, HeldBy, NoCtx, Gone
<1>5. /\ PipeOf(m) \in Pipes /\ ctx[k].msg.pipe = PipeOf(m) /\ ctx[k].msg.id \in Nat
      /\ Later(PipeOf(m)) => ~ok
  BY <1>4, HeldRequest DEF IsHello
<1>6. Reply(k, IF ok THEN OkAnswer ELSE ExpectedStart) /\ mgr' = Hello(m, ok)
  BY DEF Conversation_hello
<1>7. UNCHANGED <<wire, ctx, cl>>
  BY DEF Conversation_hello
<1>8. LaterRepliesInv'
  BY <1>4, <1>5, <1>6, <1>7, ReplyKeeps DEF LaterInv
<1>9. DOMAIN r.app = {"phase", "acc"}
  BY <1>1 DEF LaterInv, LaterMgrInv, AppOk
<1>10. DOMAIN g = Fields /\ g.app = r.app /\ g.pc = "send"
  BY <1>2, <1>3 DEF Sending, Fields
<1>11. mgr' = [mgr EXCEPT ![m] = [g EXCEPT !.app.phase = ph]]
  BY <1>6 DEF Hello
<1> HIDE DEF g, ph
<1>12. OthersSame(m) /\ mgr'[m] = [g EXCEPT !.app.phase = ph]
  BY <1>11 DEF IInv, MgrInv, OthersSame
<1>13. mgr'[m].pc = "send" /\ DOMAIN mgr'[m].app = {"phase", "acc"} /\ mgr'[m].app.phase = ph
  BY <1>9, <1>10, <1>12 DEF Fields
<1>14. AppOk(mgr'[m], Later(PipeOf(m)))
  BY <1>5, <1>13 DEF AppOk, ph
<1> QED BY <1>7, <1>8, <1>12, <1>14, ConversationKeeps

(* A command is received in the loop, where no later connection gets.      *)
LEMMA RecvLater ==
    ASSUME IInv, LaterInv, NEW m \in Managers, Conversation_recv(m)
    PROVE  LaterInv'
<1> DEFINE g == Received(mgr[m])
<1>1. mgr[m].pc = "ready" /\ mgr[m].app.phase = "loop" /\ DOMAIN mgr[m] = Fields
  BY DEF Conversation_recv, HasRequest, HasItem, IInv, MgrInv, RecordOk
<1>2. ~Later(PipeOf(m)) /\ DOMAIN mgr[m].app = {"phase", "acc"}
  BY <1>1 DEF LaterInv, LaterMgrInv, AppOk
<1>3. DOMAIN g = Fields /\ g.app = mgr[m].app
  BY <1>1 DEF Received, Fields
<1>4. mgr' = [mgr EXCEPT ![m] = [g EXCEPT !.pc = "work"]] /\ UNCHANGED <<wire, ctx, cl, replies>>
  BY DEF Conversation_recv
<1> HIDE DEF g
<1>5. OthersSame(m) /\ mgr'[m].app = mgr[m].app
  BY <1>3, <1>4 DEF IInv, MgrInv, OthersSame, Fields
<1>6. AppOk(mgr'[m], Later(PipeOf(m)))
  BY <1>2, <1>5 DEF AppOk
<1>7. LaterRepliesInv'
  BY <1>4, RepliesKept DEF LaterInv
<1> QED BY <1>4, <1>5, <1>6, <1>7, ConversationKeeps

(* A command is executed.                                                  *)
LEMMA ExecuteLater ==
    ASSUME IInv, LaterInv, NEW m \in Managers, Conversation_execute(m)
    PROVE  LaterInv'
<1> DEFINE r == mgr[m]
           k == mgr[m].cur
           g == Sending(r)
<1>1. r.pc = "work" /\ RecordOk(r) /\ UNCHANGED <<wire, ctx, cl>>
  BY DEF Conversation_execute, IInv, MgrInv
<1>2. k \in Contexts /\ k \in HeldIn(r)
  BY <1>1 DEF RecordOk, HeldIn, HeldBy, NoCtx, Gone
<1>3. ~Later(PipeOf(m)) /\ DOMAIN r.app = {"phase", "acc"}
  BY <1>1 DEF LaterInv, LaterMgrInv, AppOk
<1>4. PipeOf(m) \in Pipes /\ ctx[k].msg.pipe = PipeOf(m) /\ ctx[k].msg.id \in Nat
  BY <1>2, HeldRequest
<1>5. PICK body : Reply(k, body)
  BY DEF Conversation_execute
<1>6. LaterRepliesInv'
  BY <1>1, <1>2, <1>3, <1>4, <1>5, ReplyKeeps DEF LaterInv
<1>7. DOMAIN g = Fields /\ g.app = r.app
  BY <1>1 DEF Sending, RecordOk, Fields
<1>8. \/ mgr' = [mgr EXCEPT ![m] = [g EXCEPT !.app.phase = "end"]]
      \/ \E n : mgr' = [mgr EXCEPT ![m] = [g EXCEPT !.app.acc = n]]
  BY DEF Conversation_execute, Computed
<1> HIDE DEF g
<1>9. OthersSame(m) /\ DOMAIN mgr'[m].app = {"phase", "acc"}
  <2>1. CASE mgr' = [mgr EXCEPT ![m] = [g EXCEPT !.app.phase = "end"]]
    BY <1>3, <1>7, <2>1 DEF IInv, MgrInv, OthersSame, Fields
  <2>2. ASSUME NEW n, mgr' = [mgr EXCEPT ![m] = [g EXCEPT !.app.acc = n]]
        PROVE  OthersSame(m) /\ DOMAIN mgr'[m].app = {"phase", "acc"}
    BY <1>3, <1>7, <2>2 DEF IInv, MgrInv, OthersSame, Fields
  <2> QED BY <1>8, <2>1, <2>2
<1>10. AppOk(mgr'[m], Later(PipeOf(m)))
  BY <1>3, <1>9 DEF AppOk
<1> QED BY <1>1, <1>6, <1>9, <1>10, ConversationKeeps

(* The sessions' own steps.                                                *)

(* Only request 0 of a session is the handshake.                           *)
LEMMA CommandIsNoHandshake ==
    ASSUME ClientInv, NEW c \in Clients, NEW i \in Nat, i > 0
    PROVE  Request(c, i) \in Bodies \ {Start}
<1>1. Start.op = "start" /\ Quit.op = "quit"
  BY DEF Start, Quit, Command
<1>0. PICK s \in Scenarios : cl[c].script = s.script[c]
  BY DEF ClientInv
<1>2. CASE i <= Len(cl[c].script)
  <2>1. i \in 1..Len(s.script[c])
    BY <1>0, <1>2, CalculatorAssumption
  <2>2. s.script[c][i].op # "start"
    BY <2>1, CalculatorAssumption
  <2> QED BY <1>0, <1>1, <1>2, <2>2 DEF Request, Bodies
<1>3. CASE ~(i <= Len(cl[c].script))
  BY <1>1, <1>3 DEF Request, Bodies
<1> QED BY <1>2, <1>3

(* What a session sends fits the connection it is sent on.                 *)
LEMMA SentFits ==
    ASSUME ClientInv, SessionInv, NEW c \in Clients, NEW p, NEW later \in BOOLEAN,
           later => Len(cl[c].answers) > 0
    PROVE  [pipe |-> p, id |-> cl[c].step, body |-> Request(c, cl[c].step)]
              \in [pipe : {p}, id : Nat, body : IF later THEN Bodies \ {Start} ELSE Bodies]
<1>1. cl[c].step \in Nat /\ cl[c].step = Len(cl[c].answers)
  BY DEF ClientInv, SessionInv, SessionOk
<1>2. cl[c].step > 0 => Request(c, cl[c].step) \in Bodies \ {Start}
  BY <1>1, CommandIsNoHandshake
<1>3. cl[c].step = 0 => Request(c, cl[c].step) \in Bodies
  BY DEF Request, Bodies
<1> QED BY <1>1, <1>2, <1>3

(* A connection that is no longer later takes what it took before.         *)
LEMMA FewerLater ==
    ASSUME LaterInv, \A p \in Pipes : Later(p)' => Later(p), UNCHANGED <<ctx, mgr>>
    PROVE  /\ LaterCtxInv' /\ LaterMgrInv'
           /\ \A p \in Pipes : wire[p] \in Seq(RequestsOn(p)')
<1>1. \A p \in Pipes : RequestsOn(p) \subseteq RequestsOn(p)'
  BY DEF RequestsOn
<1>2. LaterCtxInv'
  BY <1>1 DEF LaterInv, LaterCtxInv
<1>3. LaterMgrInv'
  <2> SUFFICES ASSUME NEW m \in Managers PROVE AppOk(mgr[m], Later(PipeOf(m))')
    BY DEF LaterMgrInv
  <2>1. PipeOf(m) \in Pipes
    BY DEF Managers, PipeOf
  <2> QED BY <2>1 DEF LaterInv, LaterMgrInv, AppOk
<1>4. ASSUME NEW p \in Pipes PROVE wire[p] \in Seq(RequestsOn(p)')
  <2>1. wire[p] \in Seq(RequestsOn(p))
    BY DEF LaterInv, LaterWireInv
  <2> QED BY <1>1, <2>1, SeqOfMore
<1> QED BY <1>2, <1>3, <1>4

(* The dialer connects: REQ repeats the handshake only while it has had no *)
(* answer to it.                                                           *)
LEMMA ConnectLater ==
    ASSUME IInv, LaterInv, NEW c \in Clients, Connect(c)
    PROVE  LaterInv'
<1>n. PICK n : n = cl[c].conn + 1
  OBVIOUS
<1>p. PICK p : p = <<c, n>>
  OBVIOUS
<1> DEFINE msg == [pipe |-> p, id |-> cl[c].step, body |-> Request(c, cl[c].step)]
<1>1. /\ ClientInv /\ SessionInv /\ WireInv /\ cl[c].conn \in 1..MaxConns /\ cl[c].conn < MaxConns
      /\ UNCHANGED <<ctx, mgr>>
  BY DEF IInv, ClientInv, Connect, LaterInv
<1>2. p \in Pipes /\ n \in Nat
  BY <1>1, <1>n, <1>p DEF Pipes
<1>3. /\ DOMAIN cl' = Clients
      /\ \A b \in Clients \ {c} : cl'[b] = cl[b]
      /\ cl'[c].conn = n /\ cl'[c].answers = cl[c].answers /\ cl'[c].step = cl[c].step
  BY <1>1, <1>n DEF Connect, ClientInv
<1>4. SessionInv'
  <2>1. SessionOk(cl'[c])
    BY <1>1, <1>n, <1>3 DEF SessionInv, SessionOk
  <2>2. \A b \in Clients \ {c} : SessionOk(cl'[b])
    BY <1>1, <1>3 DEF SessionInv
  <2> QED BY <2>1, <2>2 DEF SessionInv, SessionOk
<1>5. ASSUME NEW q \in Pipes PROVE Later(q)' => Later(q)
  <2>1. Owner(q) \in Clients /\ q[2] \in Nat /\ cl[Owner(q)].conn \in Nat
    BY <1>1 DEF Pipes, Owner, ClientInv
  <2>2. CASE Owner(q) = c
    <3>1. Later(q)' <=> q[2] > n \/ (Len(cl[c].answers) > 0 /\ q[2] > cl[c].answers[1].conn)
      BY <1>3, <2>2 DEF Later, Owner
    <3>2. Later(q) <=> q[2] > cl[c].conn \/ (Len(cl[c].answers) > 0 /\ q[2] > cl[c].answers[1].conn)
      BY <2>2 DEF Later
    <3> QED BY <1>1, <1>n, <2>1, <3>1, <3>2
  <2>3. CASE Owner(q) # c
    BY <1>3, <2>1, <2>3 DEF Later, Owner
  <2> QED BY <2>2, <2>3
<1>6. /\ LaterCtxInv' /\ LaterMgrInv'
      /\ \A q \in Pipes : wire[q] \in Seq(RequestsOn(q)')
  BY <1>1, <1>5, FewerLater
<1>7. wire' = [wire EXCEPT ![p] = IF cl[c].pc = "await" THEN <<msg>> ELSE <<>>]
  BY <1>n, <1>p DEF Connect
<1>8. LaterWireInv'
  <2>1. Later(p)' => Len(cl[c].answers) > 0
    BY <1>p, <1>2, <1>3 DEF Later, Owner
  <2>2. msg \in [pipe : {p}, id : Nat, body : IF Later(p)' THEN Bodies \ {Start} ELSE Bodies]
    <3>1. CASE Later(p)'
      BY <1>1, <2>1, <3>1, SentFits
    <3>2. CASE ~Later(p)'
      BY <1>1, <3>2, SentFits
    <3> QED BY <3>1, <3>2
  <2>3. msg \in RequestsOn(p)'
    BY <2>2 DEF RequestsOn
  <2> HIDE DEF msg
  <2>4. <<msg>> \in Seq(RequestsOn(p)') /\ <<>> \in Seq(RequestsOn(p)')
    BY <2>3
  <2> SUFFICES ASSUME NEW q \in Pipes PROVE wire'[q] \in Seq(RequestsOn(q)')
    BY DEF LaterWireInv
  <2>5. CASE q = p
    <3>1. wire'[p] \in Seq(RequestsOn(p)')
      BY <1>1, <1>2, <1>7, <2>4 DEF WireInv
    <3> QED BY <2>5, <3>1
  <2>6. CASE q # p
    BY <1>1, <1>6, <1>7, <2>6 DEF WireInv
  <2> QED BY <2>5, <2>6
<1>9. LaterRepliesInv'
  <2>1. replies' = [q \in Pipes |-> IF Owner(q) = c THEN <<>> ELSE replies[q]]
    BY DEF Connect
  <2> SUFFICES ASSUME NEW q \in Pipes, Later(q)' PROVE replies'[q] \in Seq(RefusalsOnly)
    BY <2>1 DEF LaterRepliesInv
  <2>2. replies[q] \in Seq(RefusalsOnly)
    BY <1>5 DEF LaterInv, LaterRepliesInv
  <2> QED BY <2>1, <2>2
<1> QED BY <1>4, <1>6, <1>8, <1>9 DEF LaterInv

(* Sessions that keep their connections and answers keep what is later.    *)
LEMMA LaterSameAnswers ==
    ASSUME \A c \in Clients : cl'[c].conn = cl[c].conn /\ cl'[c].answers = cl[c].answers,
           NEW p \in Pipes
    PROVE  Later(p)' <=> Later(p)
<1>1. Owner(p) \in Clients
  BY DEF Pipes, Owner
<1> QED BY <1>1 DEF Later, Owner

(* The next request, or the same one again, is put on the wire.            *)
LEMMA SendLater ==
    ASSUME IInv, LaterInv, NEW c \in Clients, ClientSend(c) \/ Resend(c)
    PROVE  LaterInv'
<1>p. PICK p : p = Pipe(c)
  OBVIOUS
<1> DEFINE msg == [pipe |-> p, id |-> cl[c].step, body |-> Request(c, cl[c].step)]
<1>1. /\ ClientInv /\ SessionInv /\ WireInv /\ SendRequest(c)
      /\ UNCHANGED <<ctx, mgr, replies>>
  BY DEF IInv, ClientSend, Resend, LaterInv
<1>2. p \in Pipes /\ p[1] = c /\ p[2] = cl[c].conn /\ cl[c].conn \in Nat
  BY <1>p, <1>1 DEF Pipe, Pipes, ClientInv
<1>3. \A b \in Clients :
          /\ cl'[b].conn = cl[b].conn /\ cl'[b].answers = cl[b].answers
          /\ cl'[b].step = cl[b].step
  BY <1>1 DEF ClientInv, ClientSend, Resend
<1>4. SessionInv'
  BY <1>1, <1>3 DEF SessionInv, SessionOk
<1>5. \A q \in Pipes : Later(q)' <=> Later(q)
  BY <1>3, LaterSameAnswers
<1>6. /\ LaterCtxInv' /\ LaterMgrInv'
      /\ \A q \in Pipes : wire[q] \in Seq(RequestsOn(q)')
  BY <1>1, <1>5, FewerLater
<1>7. wire' = [wire EXCEPT ![p] = Append(wire[p], msg)]
  BY <1>p, <1>1 DEF SendRequest
<1>8. LaterWireInv'
  <2>1. Later(p)' => Len(cl[c].answers) > 0
    BY <1>2, <1>5 DEF Later, Owner
  <2>2. msg \in [pipe : {p}, id : Nat, body : IF Later(p)' THEN Bodies \ {Start} ELSE Bodies]
    <3>1. CASE Later(p)'
      BY <1>1, <2>1, <3>1, SentFits
    <3>2. CASE ~Later(p)'
      BY <1>1, <3>2, SentFits
    <3> QED BY <3>1, <3>2
  <2>3. msg \in RequestsOn(p)'
    BY <2>2 DEF RequestsOn
  <2> HIDE DEF msg
  <2>4. Append(wire[p], msg) \in Seq(RequestsOn(p)')
    BY <1>2, <1>6, <2>3
  <2> SUFFICES ASSUME NEW q \in Pipes PROVE wire'[q] \in Seq(RequestsOn(q)')
    BY DEF LaterWireInv
  <2>5. CASE q = p
    <3>1. wire'[p] \in Seq(RequestsOn(p)')
      BY <1>1, <1>2, <1>7, <2>4 DEF WireInv
    <3> QED BY <2>5, <3>1
  <2>6. CASE q # p
    BY <1>1, <1>6, <1>7, <2>6 DEF WireInv
  <2> QED BY <2>5, <2>6
<1>9. LaterRepliesInv'
  BY <1>1, <1>5 DEF LaterInv, LaterRepliesInv
<1> QED BY <1>4, <1>6, <1>8, <1>9 DEF LaterInv

(* A session that gets an answer: it is the first, or on the connection    *)
(* of the first, or a refusal.                                             *)
LEMMA AnswerKeepsSession ==
    ASSUME NEW s, SessionOk(s), s.conn \in Nat \ {0}, NEW body,
           Len(s.answers) > 0 /\ s.conn > s.answers[1].conn => body = ExpectedStart,
           NEW t, t.conn = s.conn, t.step = s.step + 1,
           t.answers = Append(s.answers, [conn |-> s.conn, body |-> body])
    PROVE  /\ SessionOk(t)
           /\ Len(t.answers) > 0
           /\ t.answers[1].conn = IF Len(s.answers) > 0 THEN s.answers[1].conn ELSE s.conn
<1> DEFINE e == [conn |-> s.conn, body |-> body]
           n == Len(s.answers)
<1>1. e.conn = s.conn /\ e.body = body
  OBVIOUS
<1>2. s.answers \in Seq(Range(s.answers)) /\ n \in Nat /\ s.step = n
  BY DEF SessionOk
<1> HIDE DEF e
<1>3. t.answers = Append(s.answers, e)
  BY DEF e
<1>4. PICK a, q : a = t.answers /\ q = s.answers
  OBVIOUS
<1>5. /\ t.answers \in Seq(Range(t.answers)) /\ Len(t.answers) = n + 1 /\ t.answers[n + 1] = e
      /\ \A i \in 1..n : t.answers[i] = s.answers[i]
  <2>1. q \in Seq(Range(q)) /\ a = Append(q, e)
    BY <1>2, <1>3, <1>4
  <2>2. PICK S : S = Range(q) \cup {e}
    OBVIOUS
  <2>3. q \in Seq(S) /\ e \in S
    BY <2>1, <2>2, SeqOfMore
  <2>4. /\ a \in Seq(S) /\ Len(a) = Len(q) + 1 /\ Len(q) \in Nat /\ a[Len(q) + 1] = e
        /\ \A i \in 1..Len(q) : a[i] = q[i]
    BY <2>1, <2>3
  <2>5. DOMAIN a = 1..Len(a) /\ Len(a) \in Nat
    BY <2>4
  <2>6. \A i \in 1..Len(a) : a[i] \in Range(a)
    BY <2>5 DEF Range
  <2>7. a \in Seq(Range(a))
    BY <2>4, <2>5, <2>6
  <2> QED BY <1>4, <2>4, <2>7
<1> DEFINE f == t.answers[1].conn
<1>6. f = IF n > 0 THEN s.answers[1].conn ELSE s.conn
  BY <1>1, <1>2, <1>5
<1>7. f \in 1..s.conn
  BY <1>6, <1>2 DEF SessionOk
<1>8. ASSUME NEW i \in 1..Len(t.answers), t.answers[i].body # ExpectedStart
      PROVE  t.answers[i].conn = f
  <2>1. CASE i <= n
    <3>1. i \in 1..n /\ n > 0
      BY <1>2, <1>5, <2>1
    <3>2. s.answers[i].conn = s.answers[1].conn
      BY <1>5, <1>8, <3>1 DEF SessionOk
    <3> QED BY <1>5, <1>6, <3>1, <3>2
  <2>2. CASE i = n + 1
    <3>1. body # ExpectedStart
      BY <1>1, <1>5, <1>8, <2>2
    <3>2. f = s.conn
      BY <1>6, <1>7, <3>1
    <3> QED BY <1>1, <1>5, <2>2, <3>2
  <2> QED BY <1>2, <1>5, <2>1, <2>2
<1> QED BY <1>2, <1>5, <1>6, <1>7, <1>8 DEF SessionOk

(* A session receives.                                                     *)
LEMMA RecvAnswerLater ==
    ASSUME IInv, LaterInv, NEW c \in Clients, ClientRecv(c)
    PROVE  LaterInv'
<1>p. PICK p : p = Pipe(c)
  OBVIOUS
<1> DEFINE s == cl[c]
           reply == Head(replies[p])
<1>1. /\ ClientInv /\ SessionInv /\ WireInv /\ SessionOk(s)
      /\ s.conn \in Nat \ {0} /\ replies[p] # <<>>
      /\ UNCHANGED <<ctx, mgr>>
  BY <1>p DEF IInv, ClientInv, ClientRecv, LaterInv, SessionInv
<1>2. p \in Pipes /\ p[1] = c /\ p[2] = s.conn
  BY <1>p, <1>1 DEF Pipe, Pipes, ClientInv
<1>3. Len(s.answers) > 0 /\ s.conn > s.answers[1].conn => Later(p)
  BY <1>2 DEF Later, Owner
<1>4. Later(p) => reply.body = ExpectedStart /\ Tail(replies[p]) \in Seq(RefusalsOnly)
  <2> SUFFICES ASSUME Later(p) PROVE reply.body = ExpectedStart /\ Tail(replies[p]) \in Seq(RefusalsOnly)
    OBVIOUS
  <2>1. replies[p] \in Seq(RefusalsOnly)
    BY <1>2 DEF LaterInv, LaterRepliesInv
  <2>2. reply \in RefusalsOnly /\ Tail(replies[p]) \in Seq(RefusalsOnly)
    BY <1>1, <2>1
  <2> QED BY <2>2 DEF RefusalsOnly
<1>5. \/ cl' = cl
      \/ /\ DOMAIN cl' = Clients
         /\ \A b \in Clients \ {c} : cl'[b] = cl[b]
         /\ cl'[c].conn = s.conn /\ cl'[c].step = s.step + 1
         /\ cl'[c].answers = Append(s.answers, [conn |-> s.conn, body |-> reply.body])
  <2>1. \/ cl' = cl
        \/ \E pc : cl' = [cl EXCEPT ![c].pc = pc, ![c].step = s.step + 1,
                                    ![c].answers = Append(s.answers, [conn |-> s.conn, body |-> reply.body])]
    BY <1>p DEF ClientRecv
  <2> HIDE DEF reply
  <2>2. ASSUME NEW pc, NEW as, cl' = [cl EXCEPT ![c].pc = pc, ![c].step = s.step + 1, ![c].answers = as]
        PROVE  /\ DOMAIN cl' = Clients
               /\ \A b \in Clients \ {c} : cl'[b] = cl[b]
               /\ cl'[c].conn = s.conn /\ cl'[c].step = s.step + 1
               /\ cl'[c].answers = as
    BY <1>1, <2>2 DEF ClientInv
  <2> QED BY <2>1, <2>2
<1> HIDE DEF reply
<1>6. SessionInv' /\ \A q \in Pipes : Later(q)' => Later(q)
  <2>1. CASE cl' = cl
    BY <1>1, <2>1, LaterSame DEF SessionInv
  <2>2. CASE /\ DOMAIN cl' = Clients
             /\ \A b \in Clients \ {c} : cl'[b] = cl[b]
             /\ cl'[c].conn = s.conn /\ cl'[c].step = s.step + 1
             /\ cl'[c].answers = Append(s.answers, [conn |-> s.conn, body |-> reply.body])
    <3> DEFINE f == cl'[c].answers[1].conn
    <3>1. /\ SessionOk(cl'[c])
          /\ f = IF Len(s.answers) > 0 THEN s.answers[1].conn ELSE s.conn
      BY <1>1, <1>3, <1>4, <2>2, AnswerKeepsSession
    <3>2. SessionInv'
      <4>1. \A b \in Clients : SessionOk(cl'[b])
        BY <1>1, <2>2, <3>1 DEF SessionInv
      <4> QED BY <4>1 DEF SessionInv, SessionOk
    <3>3. ASSUME NEW q \in Pipes PROVE Later(q)' => Later(q)
      <4>1. Owner(q) \in Clients
        BY DEF Pipes, Owner
      <4>2. CASE Owner(q) = c
        <5>1. Later(q)' => q[2] > s.conn \/ q[2] > f
          BY <2>2, <4>2 DEF Later, Owner
        <5>2. Later(q) <=> q[2] > s.conn \/ (Len(s.answers) > 0 /\ q[2] > s.answers[1].conn)
          BY <4>2 DEF Later
        <5> QED BY <3>1, <5>1, <5>2
      <4>3. CASE Owner(q) # c
        BY <2>2, <4>1, <4>3 DEF Later, Owner
      <4> QED BY <4>2, <4>3
    <3> QED BY <3>2, <3>3
  <2> QED BY <1>5, <2>1, <2>2
<1>7. /\ LaterCtxInv' /\ LaterMgrInv'
      /\ \A q \in Pipes : wire[q] \in Seq(RequestsOn(q)')
  BY <1>1, <1>6, FewerLater
<1>8. LaterWireInv'
  <2>1. RequestsDropped
    <3>1. ClosePipe(Pipe(c)) \/ UNCHANGED wire
      BY DEF ClientRecv
    <3>2. UNCHANGED wire => RequestsDropped
      BY DEF RequestsDropped
    <3> QED BY <1>1, <3>1, <3>2, ClosePipeDrops
  <2> SUFFICES ASSUME NEW q \in Pipes PROVE wire'[q] \in Seq(RequestsOn(q)')
    BY DEF LaterWireInv
  <2>2. wire[q] \in Seq(RequestsOn(q)') /\ <<>> \in Seq(RequestsOn(q)')
    BY <1>7
  <2> QED BY <2>1, <2>2 DEF RequestsDropped
<1>9. LaterRepliesInv'
  <2>1. \/ replies' = [replies EXCEPT ![p] = <<>>]
        \/ replies' = [replies EXCEPT ![p] = Tail(replies[p])]
    BY <1>p DEF ClientRecv
  <2>2. DOMAIN replies' = Pipes
    BY <2>1 DEF LaterInv, LaterRepliesInv
  <2> SUFFICES ASSUME NEW q \in Pipes, Later(q)' PROVE replies'[q] \in Seq(RefusalsOnly)
    BY <2>2 DEF LaterRepliesInv
  <2>3. Later(q) /\ replies[q] \in Seq(RefusalsOnly) /\ <<>> \in Seq(RefusalsOnly)
    BY <1>6 DEF LaterInv, LaterRepliesInv
  <2>4. CASE q = p
    <3>1. Later(p)
      BY <2>3, <2>4
    <3>2. replies'[p] \in {<<>>, Tail(replies[p])}
      BY <1>2, <2>1 DEF LaterInv, LaterRepliesInv
    <3> QED BY <1>4, <2>3, <2>4, <3>1, <3>2
  <2>5. CASE q # p
    BY <2>1, <2>3, <2>5 DEF LaterInv, LaterRepliesInv
  <2> QED BY <2>4, <2>5
<1> QED BY <1>6, <1>7, <1>8, <1>9 DEF LaterInv

(* A connection breaks.                                                    *)
LEMMA DropLater ==
    ASSUME IInv, LaterInv, NEW c \in Clients, Drop(c)
    PROVE  LaterInv'
<1>1. RequestsDropped
  BY ClosePipeDrops DEF Drop, IInv
<1>2. MessagesKept /\ AppsKept /\ UNCHANGED <<cl, replies>>
  BY DEF Drop, MessagesKept, AppsKept, AppKept
<1> QED BY <1>1, <1>2, ServerKeeps

-----------------------------------------------------------------------------
(* The sessions start with nothing on the way.                             *)
LEMMA InitLater == Init => LaterInv
<1> SUFFICES ASSUME Init PROVE LaterInv
  OBVIOUS
<1> USE DEF Init, ServerInit
<1>1. SessionInv
  <2> SUFFICES ASSUME NEW c \in Clients PROVE SessionOk(cl[c])
    BY DEF SessionInv
  <2>1. cl[c].answers = <<>> /\ cl[c].step = 0
    OBVIOUS
  <2>2. Len(<<>>) = 0 /\ <<>> \in Seq(Range(<<>>))
    OBVIOUS
  <2>3. cl[c].answers \in Seq(Range(cl[c].answers)) /\ Len(cl[c].answers) = 0
    BY <2>1, <2>2
  <2> QED BY <2>1, <2>3 DEF SessionOk
<1>2. LaterWireInv
  BY DEF LaterWireInv
<1>3. LaterCtxInv
  BY DEF LaterCtxInv
<1>4. LaterMgrInv
  <2> SUFFICES ASSUME NEW m \in Managers PROVE AppOk(mgr[m], Later(PipeOf(m)))
    BY DEF LaterMgrInv
  <2>1. mgr[m].app = NewSession /\ mgr[m].pc = "unborn"
    BY DEF Unborn, NewManager
  <2> QED BY <2>1 DEF AppOk, NewSession
<1>5. LaterRepliesInv
  BY DEF LaterRepliesInv
<1> QED BY <1>1, <1>2, <1>3, <1>4, <1>5 DEF LaterInv

(* Every step keeps LaterInv, given the books of the server.               *)
LEMMA NextLater == IInv /\ LaterInv /\ [Next]_vars => LaterInv'
<1> SUFFICES ASSUME IInv, LaterInv, [Next]_vars PROVE LaterInv'
  OBVIOUS
<1>1. CASE ServerStep(NewSession) /\ UNCHANGED <<cl, faults>>
  BY <1>1, ContextReceivesLater, RecvDispatchLater, RecvDispatchNoPipeLater, PipeStatusLater,
     TaskFailsLater, TaskDoneLater DEF ServerStep
<1>2. ASSUME NEW m \in Managers, ManagerStep(m) PROVE LaterInv'
  BY <1>2, HelloLater, RecvLater, ExecuteLater, SentLater DEF ManagerStep
<1>3. ASSUME NEW c \in Clients, ClientStep(c) \/ Resend(c) \/ Drop(c) PROVE LaterInv'
  BY <1>3, ConnectLater, SendLater, RecvAnswerLater, DropLater DEF ClientStep
<1>4. CASE UNCHANGED vars
  <2>1. UNCHANGED <<wire, replies, ctx, mgr, cl>>
    BY <1>4 DEF vars, serverVars
  <2>2. RequestsDropped /\ MessagesKept /\ AppsKept
    BY <2>1 DEF RequestsDropped, MessagesKept, AppsKept, AppKept
  <2> QED BY <2>1, <2>2, ServerKeeps
<1> QED BY <1>1, <1>2, <1>3, <1>4 DEF Next, Running

(* A session of client.py never mixes two accumulators, however often its  *)
(* connection breaks and its requests are repeated: every answer that is   *)
(* not a refusal came on the connection of the handshake.                  *)
THEOREM OneConversation == Spec => []OneConversationPerSession
<1>1. LaterInv => OneConversationPerSession
  BY DEF LaterInv, SessionInv, SessionOk, OneConversationPerSession
<1>2. Init => IInv /\ LaterInv
  BY InitIInv, InitLater
<1>3. IInv /\ LaterInv /\ [Next]_vars => (IInv /\ LaterInv)'
  BY NextIInv, NextLater
<1> QED BY <1>1, <1>2, <1>3, PTL DEF Spec
=============================================================================
