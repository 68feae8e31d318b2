------------------------- MODULE SubscriptionProofs -------------------------
(* Proofs about Subscription, for every set of clients, contexts, keys and   *)
(* topics and every bound: the conversation is authenticated, the server     *)
(* stops only for a timeout or a late request, a PAIR socket streams to its  *)
(* subscriber, and a stream gets the events of its own topic in order.       *)
(*                                                                           *)
(* One invariant carries all four.  Its first half, ConvInv, follows the     *)
(* requests of a client: at most one request or one answer is under way, it  *)
(* is the one both ends count, and only the first manager of a pipe gets     *)
(* past the hello.  Its second half, PairSide, follows a PAIR socket and its *)
(* stream: what is in each direction is determined by the places of the two  *)
(* ends.  OpenedInv and StartedInv tie them together: a conversation that    *)
(* has answered n requests has opened the first n sockets, and its client    *)
(* has started no stream it has not been answered for.                       *)
EXTENDS Subscription, SequenceTheorems, TLAPS

Fields == {"pc", "running", "inbox", "cur", "snd", "app"}
Alive == {"ready", "send"}

\* The manager that answers the requests of client c: the first of its pipe.
First(c) == <<Pipe(c), 1>>

-----------------------------------------------------------------------------
(* The books of the server: managers, pipes, contexts and who holds them.  *)

InboxForm(q) ==
    \/ q = <<>>
    \/ q = <<Gone>>
    \/ \E k \in Contexts : q = <<k>> \/ q = <<k, Gone>>

\* The phases of _execute() that a manager can be in.
AppOk(r) ==
    /\ DOMAIN r.app = {"phase", "box", "peer", "subs"}
    /\ r.app.subs \in Nat
    /\ r.app.phase # "loop" => r.app.subs = 0
    /\ r.pc = "unborn" => r.app.phase = "hello"
    /\ r.pc = "ready" => r.app.phase \in {"hello", "confirm", "ack", "loop"}
    /\ r.pc = "send" => r.app.phase \in {"confirm", "ack", "end", "loop"}

RecordOk(r) ==
    /\ DOMAIN r = Fields
    /\ r.pc \in Alive \cup {"unborn", "done", "over"}
    /\ r.running \in BOOLEAN
    /\ r.running => r.pc \in Alive
    /\ InboxForm(r.inbox)
    /\ r.pc \notin Alive => r.inbox = <<>>
    /\ r.cur = NoCtx
    /\ r.snd \in Contexts \cup {NoCtx}
    /\ r.snd # NoCtx <=> r.pc = "send"
    /\ r.snd \notin Range(r.inbox)
    /\ r.pc \in Alive \cup {"unborn"} => AppOk(r)

MgrInv == DOMAIN mgr = Managers /\ \A m \in Managers : RecordOk(mgr[m])

KnownInv ==
    /\ clients \in [Pipes -> Managers \cup {NoManager}]
    /\ \A p \in Pipes :
          clients[p] # NoManager => PipeOf(clients[p]) = p /\ mgr[clients[p]].pc # "unborn"
    /\ \A m \in Managers :
          /\ mgr[m].pc \notin {"unborn", "over"} /\ PipeOf(m) \notin reported
                => clients[PipeOf(m)] = m
          /\ Gone \in Range(mgr[m].inbox) => PipeOf(m) \in reported

\* A pipe whose manager has ended, or whose removal is known, is closed; the
\* managers of a pipe are started in order.
LinkInv ==
    /\ DOMAIN link = Pipes
    /\ reported \subseteq Pipes /\ \A p \in reported : ~Open(p)
    /\ \A m \in Managers : mgr[m].pc \in {"done", "over"} => ~Open(PipeOf(m))
    /\ \A m \in Managers : mgr[m].pc # "unborn" => mgr[<<PipeOf(m), 1>>].pc # "unborn"
    /\ \A p \in Pipes : Open(p) => p = Pipe(Owner(p))

\* Request n of client c, 0 being the hello.
BodyOf(c, key, n) ==
    IF n = 0 THEN make_client_hello(c)
    ELSE Encrypt({c, First(c)},
                 IF n = 1 THEN make_client_confirm(First(c), c, key)
                 ELSE SubscribeRequest(Topics[c][n - 1]))

RequestOk(c, key, q) ==
    /\ q.pipe = Pipe(c)
    /\ q.id \in Nat /\ q.id <= Len(Topics[c]) + 1
    /\ q.body = BodyOf(c, key, q.id)

CtxInv ==
    /\ DOMAIN ctx = Contexts
    /\ \A k \in Contexts :
          /\ DOMAIN ctx[k] = {"st", "msg"}
          /\ ctx[k].st \in {"got", "wait"} => \E c \in Clients : RequestOk(c, req[c].key, ctx[k].msg)

HeldIn(r) == Range(r.inbox) \cup {r.snd}
SlotInv ==
    \A k \in Contexts :
        /\ \A m \in Managers :
              k \in HeldIn(mgr[m]) =>
                  ctx[k].st = "wait" /\ PipeOf(m) = ctx[k].msg.pipe /\ mgr[m].pc \in Alive
        /\ \A m, n \in Managers : k \in HeldIn(mgr[m]) /\ k \in HeldIn(mgr[n]) => m = n

-----------------------------------------------------------------------------
(* The exchange of a client with its manager.                              *)

\* How many requests a manager has answered, and a client has sent.
Answered(app) ==
    IF app.phase = "hello" THEN 0 ELSE IF app.phase = "confirm" THEN 1 ELSE app.subs + 2

Sent(r) ==
    IF r.pc = "auth" THEN 1 ELSE IF r.pc = "ack" THEN 2
    ELSE IF r.pc = "ready" THEN r.subs + 2 ELSE r.subs + 3

Waiting == {"auth", "ack", "response"}

\* A client's own record, and what it knows of its manager.
ReqOk(c) ==
    /\ DOMAIN req[c] = {"pc", "box", "subs", "key"}
    /\ req[c].pc \in Waiting \cup {"hello", "ready", "over"}
    /\ req[c].subs \in Nat
    /\ req[c].pc # "over" => req[c].subs < Len(Topics[c])
    /\ req[c].pc \in {"hello", "auth", "ack"} => req[c].subs = 0
    /\ req[c].pc \in {"ack", "ready", "response"} =>
          req[c].box = {c, First(c)} /\ mgr[First(c)].pc # "unborn"
    /\ req[c].pc = "hello" => mgr[First(c)].pc = "unborn"
    /\ req[c].pc = "over" => ~Open(Pipe(c))

\* A request that no manager has answered.
Pending(k) ==
    \/ ctx[k].st = "got"
    \/ \E m \in Managers : k \in Range(mgr[m].inbox)

PendingOn(k, c) == Pending(k) /\ ctx[k].msg.pipe = Pipe(c)

\* What request n, unanswered, says about its two ends.
InSync(c, n) ==
    /\ req[c].pc # "over" => req[c].pc \in Waiting /\ n = Sent(req[c]) - 1
    /\ mgr[First(c)].pc = "unborn" => n = 0
    /\ mgr[First(c)].pc \in Alive => n = Answered(mgr[First(c)].app)

\* The manager has answered all that its client has sent.
Caught(c) == mgr[First(c)].pc \in Alive => Answered(mgr[First(c)].app) = Sent(req[c])

\* One request or one answer at a time, and each where it belongs.
WireOk(c) ==
    wire[Pipe(c)] # <<>> =>
        LET q == Head(wire[Pipe(c)])
        IN  /\ wire[Pipe(c)] = <<q>>
            /\ RequestOk(c, req[c].key, q) /\ InSync(c, q.id)
            /\ q.id = 0 => mgr[First(c)].pc = "unborn"
            /\ \A k \in Contexts : ~PendingOn(k, c)

PendingOk(c) ==
    \A k \in Contexts :
        PendingOn(k, c) =>
            /\ InSync(c, ctx[k].msg.id)
            /\ ctx[k].msg.id = 0 =>
                  mgr[First(c)].pc = "unborn" \/ k \in Range(mgr[First(c)].inbox)
            /\ \A l \in Contexts : PendingOn(l, c) => l = k

ReplyOk(c, body) ==
    /\ req[c].pc \in Waiting
    /\ req[c].pc = "auth" => body = make_server_auth(c, First(c), ServerKey)
    /\ req[c].pc = "response" =>
          body = Encrypt({c, First(c)}, SubscribeResponse(<<First(c), req[c].subs + 1>>))

RepliesOk(c) ==
    replies[Pipe(c)] # <<>> =>
        LET r == Head(replies[Pipe(c)])
        IN  /\ replies[Pipe(c)] = <<r>>
            /\ ReplyOk(c, r.body)
            /\ mgr[First(c)].pc # "unborn" /\ Caught(c)
            /\ wire[Pipe(c)] = <<>>
            /\ \A k \in Contexts : ~PendingOn(k, c)

Exchange(c) ==
    /\ ReqOk(c) /\ WireOk(c) /\ PendingOk(c) /\ RepliesOk(c)
    /\ req[c].pc = "ready" => Caught(c)

ExchangeInv ==
    /\ DOMAIN req = Clients /\ DOMAIN wire = Pipes /\ DOMAIN replies = Pipes
    /\ \A p \in Pipes : p # Pipe(Owner(p)) => wire[p] = <<>>
    /\ \A c \in Clients : Exchange(c)

\* Only the first manager of a connection gets past the hello.
AppInv ==
    \A m \in Managers :
        mgr[m].pc \in Alive /\ mgr[m].app.phase # "hello" =>
            LET c == Owner(PipeOf(m))
            IN  /\ m = First(c)
                /\ mgr[m].app.peer = c
                /\ mgr[m].app.box = {c, m}
                /\ mgr[m].app.phase \in {"ack", "loop"} => req[c].key \in Authorized

DownInv == up \in BOOLEAN /\ down \in {"up", "timeout", "late"}

Books == MgrInv /\ KnownInv /\ LinkInv /\ CtxInv /\ SlotInv
ConvInv == Books /\ ExchangeInv /\ AppInv /\ DownInv

-----------------------------------------------------------------------------
(* The PAIR sockets.  The stream of socket d, the socket of stream s.      *)

SocketOf(s) == <<First(s[1]), s[2]>>
Box(s) == {ClientMaterial(s), ServerMaterial(SocketOf(s))}
HelloMsg(s) == make_client_hello(ClientMaterial(s))
AuthMsg(s) == make_server_auth(ClientMaterial(s), ServerMaterial(SocketOf(s)), ServerKey)
ConfirmMsg(s) ==
    Encrypt(Box(s), make_client_confirm(ServerMaterial(SocketOf(s)), ClientMaterial(s), strm[s].key))
TokenMsg(s) == Encrypt(Box(s), Token(SocketOf(s)))
EventMsg(s, n) == Encrypt(Box(s), Event(Topic(s), n))

PairRecordOk(r) ==
    /\ DOMAIN r = {"pc", "box", "peer", "topic", "seq"}
    /\ r.pc \in {"none", "bound", "hello", "confirm", "token", "stream", "over"}
    /\ r.seq \in Nat
StreamRecordOk(r) ==
    /\ DOMAIN r = {"pc", "box", "addr", "key", "count", "last"}
    /\ r.pc \in {"none", "dial", "auth", "token", "stream", "over"}
    /\ r.count \in Nat

PairTypeInv ==
    /\ DOMAIN pair = PairSockets /\ \A d \in PairSockets : PairRecordOk(pair[d])
    /\ DOMAIN strm = StreamSockets /\ \A s \in StreamSockets : StreamRecordOk(strm[s])
    /\ DOMAIN toServer = StreamSockets /\ DOMAIN toClient = StreamSockets
    /\ \A d \in PairSockets :
          pair[d].pc # "none" => d = SocketOf(<<Owner(PipeOf(d[1])), d[2]>>)

\* P is the server socket of stream s, T the client socket.
DialInv(s, P, T) ==
    /\ T.pc # "none" => T.addr = SocketOf(s)
    /\ P.pc # "none" => P.topic = Topic(s)
    /\ P.pc = "none" => P.peer = NoPeer
    /\ \/ /\ P.peer = NoPeer
          /\ P.pc \in {"none", "bound", "hello", "over"} /\ P.seq = 0
          /\ T.pc \in {"none", "dial", "over"} /\ T.count = 0
          /\ toServer[s] = <<>> /\ toClient[s] = <<>>
       \/ P.peer = s /\ T.pc \in {"auth", "token", "stream", "over"}

\* What is on its way to the server, by the places of both ends.
ToServerInv(s, P, T) ==
    /\ P.pc \in {"bound", "hello"} /\ P.peer = s =>
          P.seq = 0 /\ T.pc \in {"auth", "over"} /\ toServer[s] = <<HelloMsg(s)>>
                    /\ (T.pc = "auth" => toClient[s] = <<>>)
    /\ P.pc = "confirm" =>
          /\ P.seq = 0 /\ P.box = Box(s)
          /\ T.pc = "auth" => toServer[s] = <<>>
          /\ T.pc = "token" => toServer[s] = <<ConfirmMsg(s)>>
          /\ T.pc = "stream" => toServer[s] = <<ConfirmMsg(s), TokenMsg(s)>>
          /\ toServer[s] \in {<<>>, <<ConfirmMsg(s)>>, <<ConfirmMsg(s), TokenMsg(s)>>}
    /\ P.pc = "token" =>
          /\ P.seq = 0 /\ P.box = Box(s) /\ T.key \in Authorized
          /\ T.pc # "auth"
          /\ T.pc = "token" => toServer[s] = <<>>
          /\ T.pc = "stream" => toServer[s] = <<TokenMsg(s)>>
          /\ toServer[s] \in {<<>>, <<TokenMsg(s)>>}
    /\ P.pc = "stream" =>
          /\ P.box = Box(s) /\ T.key \in Authorized
          /\ T.pc \in {"stream", "over"}

\* The events after the c-th up to the n-th, as they are on their way.
OnWay(s, c, n) == [i \in 1..(n - c) |-> EventMsg(s, c + i)]

\* What is on its way to the client.
ToClientInv(s, P, T) ==
    /\ T.pc = "auth" => P.seq = 0 /\ T.count = 0 /\ toClient[s] \in {<<>>, <<AuthMsg(s)>>}
    /\ T.pc \in {"token", "stream"} =>
          /\ T.box = Box(s) /\ T.count <= P.seq
          /\ toClient[s] = OnWay(s, T.count, P.seq)
    /\ T.count > 0 => T.last = Event(Topic(s), T.count)

StreamInv(s) ==
    /\ DialInv(s, pair[SocketOf(s)], strm[s])
    /\ ToServerInv(s, pair[SocketOf(s)], strm[s])
    /\ ToClientInv(s, pair[SocketOf(s)], strm[s])

PairInv == \A s \in StreamSockets : StreamInv(s)

\* Where the conversation stands and which sockets it has opened.
OpenedInv ==
    \A m \in Managers :
        /\ \A d \in PairSockets :
              /\ mgr[m].pc \in Alive \cup {"unborn"} /\ d[1] = m /\ d[2] > mgr[m].app.subs
              => pair[d].pc = "none"
        /\ mgr[m].pc = "send" /\ mgr[m].app.phase = "loop" =>
              /\ <<m, mgr[m].app.subs>> \in PairSockets
              /\ pair[<<m, mgr[m].app.subs>>].pc = "bound"

StartedInv ==
    \A s \in StreamSockets :
        req[s[1]].pc # "over" /\ s[2] > req[s[1]].subs => strm[s].pc = "none"

IInv == ConvInv /\ PairTypeInv /\ PairInv /\ OpenedInv /\ StartedInv

USE RepServerAssumption

-----------------------------------------------------------------------------
(* Names of pipes, managers and sockets.                                   *)

(* A client has one pipe and the pipe one first manager.                   *)
LEMMA Names ==
    /\ \A c \in Clients :
          /\ Pipe(c) \in Pipes /\ Owner(Pipe(c)) = c
          /\ First(c) \in Managers /\ PipeOf(First(c)) = Pipe(c)
    /\ \A m \in Managers : PipeOf(m) \in Pipes /\ <<PipeOf(m), 1>> \in Managers
    /\ \A p \in Pipes : Owner(p) \in Clients
BY DEF Pipe, Pipes, Owner, First, Managers, PipeOf

(* The manager that First names.                                           *)
LEMMA FirstIs == \A c : First(c) = <<Pipe(c), 1>>
BY DEF First

(* "No manager" is no manager.                                             *)
LEMMA NoManagerIsNone == NoManager \notin Managers
BY DEF NoManager, Managers

-----------------------------------------------------------------------------
(* Inboxes and short sequences.                                            *)

(* What short sequences hold.                                              *)
LEMMA RangeEmpty == Range(<<>>) = {}
BY DEF Range

(* Of one item.                                                            *)
LEMMA RangeOne == \A a : Range(<<a>>) = {a}
BY DEF Range

(* Of two.                                                                 *)
LEMMA RangeTwo == \A a, b : Range(<<a, b>>) = {a, b}
<1> TAKE a, b
<1>1. DOMAIN <<a, b>> = {1, 2}
  OBVIOUS
<1>2. <<a, b>>[1] = a /\ <<a, b>>[2] = b
  OBVIOUS
<1> QED BY <1>1, <1>2 DEF Range

(* Taking from and putting into short sequences.                           *)
LEMMA TakeOne == \A a : Head(<<a>>) = a /\ Tail(<<a>>) = <<>> /\ <<a>> # <<>>
OBVIOUS

(* The first of two is taken.                                              *)
LEMMA TakeTwo == \A a, b : Head(<<a, b>>) = a /\ Tail(<<a, b>>) = <<b>> /\ <<a, b>> # <<>>
OBVIOUS

(* One is put into an empty one.                                           *)
LEMMA PutFirst == \A a : Append(<<>>, a) = <<a>>
OBVIOUS

(* Another is put behind one.                                              *)
LEMMA PutSecond == \A a, b : Append(<<a>>, b) = <<a, b>>
<1> TAKE a, b
<1> DEFINE s == Append(<<a>>, b)
<1>1. <<a>> \in Seq({a, b}) /\ <<a, b>> \in Seq({a, b})
  OBVIOUS
<1>2. s \in Seq({a, b}) /\ Len(s) = 2 /\ s[1] = a /\ s[2] = b
  BY <1>1
<1>3. Len(<<a, b>>) = 2 /\ <<a, b>>[1] = a /\ <<a, b>>[2] = b
  OBVIOUS
<1> HIDE DEF s
<1>4. Len(s) = Len(<<a, b>>) /\ \A i \in 1..Len(s) : s[i] = <<a, b>>[i]
  BY <1>2, <1>3
<1>5. s = <<a, b>>
  BY <1>1, <1>2, <1>4, SeqEqual
<1> QED BY <1>5 DEF s

(* An inbox holds contexts and the None of _disconnect().                  *)
LEMMA InboxRange ==
    ASSUME NEW q, InboxForm(q)
    PROVE  Range(q) \subseteq Contexts \cup {Gone}
BY RangeEmpty, RangeOne, RangeTwo DEF InboxForm

(* arecv() takes the context out of the inbox and loses nothing.           *)
LEMMA InboxTake ==
    ASSUME NEW q, InboxForm(q), q # <<>>, Head(q) # Gone
    PROVE  /\ Head(q) \in Contexts
           /\ Tail(q) \in {<<>>, <<Gone>>}
           /\ Range(q) = {Head(q)} \cup Range(Tail(q))
<1>1. PICK k \in Contexts : q = <<k>> \/ q = <<k, Gone>>
  BY TakeOne DEF InboxForm
<1>2. CASE q = <<k>>
  BY <1>2, TakeOne, RangeEmpty, RangeOne
<1>3. CASE q = <<k, Gone>>
  BY <1>3, TakeTwo, RangeOne, RangeTwo
<1> QED BY <1>1, <1>2, <1>3

(* Behind what an inbox may hold there is room for one None.               *)
LEMMA InboxAppend ==
    ASSUME NEW q, InboxForm(q), Gone \notin Range(q)
    PROVE  /\ InboxForm(Append(q, Gone))
           /\ Range(Append(q, Gone)) = Range(q) \cup {Gone}
<1>1. CASE q = <<>>
  BY <1>1, PutFirst, RangeEmpty, RangeOne DEF InboxForm
<1>2. ASSUME NEW k \in Contexts, q = <<k>>
      PROVE  /\ InboxForm(Append(q, Gone))
             /\ Range(Append(q, Gone)) = Range(q) \cup {Gone}
  <2>1. Append(q, Gone) = <<k, Gone>>
    BY <1>2, PutSecond
  <2>2. Range(q) = {k} /\ Range(Append(q, Gone)) = {k, Gone}
    BY <1>2, <2>1, RangeOne, RangeTwo
  <2> QED BY <2>1, <2>2 DEF InboxForm
<1>3. \A k : q # <<Gone>> /\ q # <<k, Gone>>
  BY RangeOne, RangeTwo
<1>4. q = <<>> \/ \E k \in Contexts : q = <<k>>
  BY <1>3 DEF InboxForm
<1> QED BY <1>1, <1>2, <1>4

-----------------------------------------------------------------------------
(* The books, when manager m changes and the others do not.                *)

OthersSame(m) == DOMAIN mgr' = Managers /\ \A n \in Managers \ {m} : mgr'[n] = mgr[n]

\* The contexts in S receive again.
CtxReleased(S) ==
    /\ DOMAIN ctx' = Contexts
    /\ \A k \in Contexts : ctx'[k] = IF k \in S THEN Receiving ELSE ctx[k]

\* Keys are for ever, pipes are never opened again.
KeysSame == \A c \in Clients : req'[c].key = req[c].key
LinksShut == DOMAIN link' = Pipes /\ \A p \in Pipes : link'[p] = "open" => link[p] = "open"

(* Released() is what CtxReleased describes.                               *)
LEMMA ReleasedFacts ==
    ASSUME NEW S, ctx' = Released(S)
    PROVE  CtxReleased(S)
BY DEF Released, CtxReleased

(* A released context has no message.                                      *)
LEMMA ReleaseKeepsCtx ==
    ASSUME CtxInv, NEW S, CtxReleased(S), KeysSame
    PROVE  CtxInv'
BY DEF CtxInv, CtxReleased, Receiving, KeysSame

(* A context has one holder when manager m releases some of its own, or    *)
(* a dispatch task one that nobody holds.                                  *)
LEMMA SlotRelease ==
    ASSUME SlotInv, NEW m \in Managers, OthersSame(m), NEW S, CtxReleased(S),
           \A k \in Contexts \cap S : k \in HeldIn(mgr[m]) \/ ctx[k].st # "wait",
           \A k \in Contexts : k \in HeldIn(mgr'[m]) => k \in HeldIn(mgr[m]) /\ k \notin S,
           \A k \in Contexts : k \in HeldIn(mgr'[m]) => mgr'[m].pc \in Alive
    PROVE  SlotInv'
<1> SUFFICES ASSUME NEW k \in Contexts
             PROVE  /\ \A n \in Managers :
                         k \in HeldIn(mgr'[n]) =>
                             ctx'[k].st = "wait" /\ PipeOf(n) = ctx'[k].msg.pipe /\ mgr'[n].pc \in Alive
                    /\ \A n, o \in Managers : k \in HeldIn(mgr'[n]) /\ k \in HeldIn(mgr'[o]) => n = o
  BY DEF SlotInv, HeldIn, Alive, PipeOf
<1>1. \A n \in Managers : k \in HeldIn(mgr'[n]) => k \in HeldIn(mgr[n]) /\ k \notin S
  BY DEF OthersSame, SlotInv
<1>2. k \notin S => ctx'[k] = ctx[k]
  BY DEF CtxReleased
<1>3. \A n \in Managers : k \in HeldIn(mgr'[n]) => mgr'[n].pc \in Alive
  BY <1>1 DEF OthersSame, SlotInv
<1> QED BY <1>1, <1>2, <1>3 DEF SlotInv

(* A context that a task has just received gets its one holder.            *)
LEMMA SlotTake ==
    ASSUME SlotInv, CtxInv, KeysSame, NEW m \in Managers, OthersSame(m), NEW k \in Contexts,
           ctx[k].st = "got", PipeOf(m) = ctx[k].msg.pipe, ctx' = [ctx EXCEPT ![k].st = "wait"],
           \A j \in Contexts : j \in HeldIn(mgr'[m]) => j \in HeldIn(mgr[m]) \/ j = k,
           mgr'[m].pc \in Alive
    PROVE  SlotInv' /\ CtxInv'
<1>1. /\ DOMAIN ctx' = Contexts
      /\ \A j \in Contexts : DOMAIN ctx'[j] = {"st", "msg"}
      /\ \A j \in Contexts \ {k} : ctx'[j] = ctx[j]
      /\ ctx'[k].st = "wait" /\ ctx'[k].msg = ctx[k].msg
  BY DEF CtxInv
<1>2. CtxInv'
  BY <1>1 DEF CtxInv, KeysSame
<1>3. SlotInv'
  <2> SUFFICES ASSUME NEW j \in Contexts
               PROVE  /\ \A n \in Managers :
                           j \in HeldIn(mgr'[n]) =>
                               ctx'[j].st = "wait" /\ PipeOf(n) = ctx'[j].msg.pipe /\ mgr'[n].pc \in Alive
                      /\ \A n, o \in Managers : j \in HeldIn(mgr'[n]) /\ j \in HeldIn(mgr'[o]) => n = o
    BY DEF SlotInv, HeldIn, Alive, PipeOf
  <2>1. \A n \in Managers : k \notin HeldIn(mgr[n])
    BY DEF SlotInv
  <2>2. CASE j = k
    <3>1. \A n \in Managers : k \in HeldIn(mgr'[n]) => n = m
      BY <2>1 DEF OthersSame
    <3> QED BY <2>2, <3>1, <1>1
  <2>3. CASE j # k
    <3>1. \A n \in Managers : j \in HeldIn(mgr'[n]) => j \in HeldIn(mgr[n])
      BY <2>3 DEF OthersSame
    <3>2. \A n \in Managers : j \in HeldIn(mgr'[n]) => mgr'[n].pc \in Alive
      BY <3>1 DEF OthersSame, SlotInv
    <3> QED BY <2>3, <3>1, <3>2, <1>1 DEF SlotInv
  <2> QED BY <2>2, <2>3
<1> QED BY <1>2, <1>3

(* A step of a manager's own task: it keeps what it holds or releases it.  *)
LEMMA BooksTask ==
    ASSUME Books, NEW m \in Managers, OthersSame(m), NEW S, CtxReleased(S), KeysSame,
           RecordOk(mgr'[m]), mgr[m].pc \in Alive, mgr'[m].pc \in Alive \cup {"done"},
           Gone \in Range(mgr'[m].inbox) => Gone \in Range(mgr[m].inbox),
           \A k \in Contexts \cap S : k \in HeldIn(mgr[m]),
           \A k \in Contexts : k \in HeldIn(mgr'[m]) => k \in HeldIn(mgr[m]) /\ k \notin S,
           LinksShut, mgr'[m].pc = "done" => link'[PipeOf(m)] # "open",
           UNCHANGED <<reported, clients>>
    PROVE  Books'
<1> USE DEF Books
<1>1. MgrInv'
  BY DEF MgrInv, OthersSame
<1>2. CtxInv'
  BY ReleaseKeepsCtx
<1>3. KnownInv'
  BY DEF KnownInv, OthersSame, Alive
<1>4. \A k \in Contexts : k \in HeldIn(mgr'[m]) => mgr'[m].pc \in Alive
  BY RangeEmpty DEF RecordOk, HeldIn, NoCtx
<1>5. SlotInv'
  BY <1>4, SlotRelease
<1>6. LinkInv'
  <2>1. \A n \in Managers : mgr'[n].pc = "unborn" <=> mgr[n].pc = "unborn"
    BY DEF OthersSame, Alive
  <2>2. \A n \in Managers : mgr'[n].pc \in {"done", "over"} => ~Open(PipeOf(n))'
    BY Names DEF LinkInv, OthersSame, LinksShut, Open, Alive
  <2>3. reported' \subseteq Pipes /\ \A p \in reported' : ~Open(p)'
    BY DEF LinkInv, LinksShut, Open
  <2>4. \A n \in Managers : mgr'[n].pc # "unborn" => mgr'[<<PipeOf(n), 1>>].pc # "unborn"
    BY <2>1, Names DEF LinkInv
  <2>5. DOMAIN link' = Pipes /\ \A p \in Pipes : Open(p)' => p = Pipe(Owner(p))
    BY DEF LinkInv, LinksShut, Open
  <2> QED BY <2>2, <2>3, <2>4, <2>5 DEF LinkInv, PipeOf, Pipe, Owner
<1> QED BY <1>1, <1>2, <1>3, <1>5, <1>6

-----------------------------------------------------------------------------
(* The exchange of a client, when nothing happens to it but a loss.        *)

\* The first manager of c ends or goes on without an answer.
ManagerQuiet(c) ==
    /\ mgr'[First(c)].pc = "unborn" <=> mgr[First(c)].pc = "unborn"
    /\ mgr'[First(c)].pc \in Alive =>
          /\ mgr[First(c)].pc \in Alive
          /\ Answered(mgr'[First(c)].app) = Answered(mgr[First(c)].app)

\* No request of c becomes pending.
PendingQuiet(c) ==
    \A k \in Contexts :
        PendingOn(k, c)' =>
            /\ PendingOn(k, c) /\ ctx'[k].msg = ctx[k].msg
            /\ k \in Range(mgr[First(c)].inbox) => k \in Range(mgr'[First(c)].inbox)

\* Requests and replies on their way may be dropped.
Dropped(q, new) == new = q \/ new = <<>>
WireQuiet == DOMAIN wire' = Pipes /\ \A p \in Pipes : Dropped(wire[p], wire'[p])
RepliesQuiet == DOMAIN replies' = Pipes /\ \A p \in Pipes : Dropped(replies[p], replies'[p])

(* Then the exchange is as it was, or cut off.                             *)
LEMMA ExchangeQuiet ==
    ASSUME NEW c \in Clients, Exchange(c), ManagerQuiet(c), PendingQuiet(c),
           req'[c] = req[c], link'[Pipe(c)] = "open" => link[Pipe(c)] = "open",
           Dropped(wire[Pipe(c)], wire'[Pipe(c)]),
           Dropped(replies[Pipe(c)], replies'[Pipe(c)])
    PROVE  Exchange(c)'
<1> USE DEF Exchange
<1>1. ReqOk(c)'
  BY DEF ReqOk, ManagerQuiet, Open
<1>2. \A n : InSync(c, n) => InSync(c, n)'
  BY DEF InSync, ManagerQuiet
<1>3. Caught(c) => Caught(c)'
  BY DEF Caught, ManagerQuiet
<1>4. \A k \in Contexts : PendingOn(k, c)' => PendingOn(k, c) /\ ctx'[k].msg = ctx[k].msg
  BY DEF PendingQuiet
<1>5. WireOk(c)'
  <2> SUFFICES ASSUME wire'[Pipe(c)] # <<>> PROVE WireOk(c)'
    BY DEF WireOk
  <2>1. wire'[Pipe(c)] = wire[Pipe(c)]
    BY DEF Dropped
  <2> QED BY <1>2, <1>4, <2>1 DEF WireOk, ManagerQuiet
<1>6. PendingOk(c)'
  <2> SUFFICES ASSUME NEW k \in Contexts, PendingOn(k, c)'
               PROVE  /\ InSync(c, ctx[k].msg.id)'
                      /\ ctx[k].msg.id = 0 =>
                            mgr'[First(c)].pc = "unborn" \/ k \in Range(mgr'[First(c)].inbox)
                      /\ \A l \in Contexts : PendingOn(l, c)' => l = k
    BY <1>4 DEF PendingOk, InSync
  <2>1. /\ InSync(c, ctx[k].msg.id)
        /\ ctx[k].msg.id = 0 =>
              mgr[First(c)].pc = "unborn" \/ k \in Range(mgr[First(c)].inbox)
        /\ \A l \in Contexts : PendingOn(l, c) => l = k
    BY <1>4 DEF PendingOk
  <2> QED BY <1>4, <2>1 DEF ManagerQuiet, PendingQuiet, InSync
<1>7. RepliesOk(c)'
  <2> SUFFICES ASSUME replies'[Pipe(c)] # <<>> PROVE RepliesOk(c)'
    BY DEF RepliesOk
  <2>1. replies'[Pipe(c)] = replies[Pipe(c)]
    BY DEF Dropped
  <2>2. wire[Pipe(c)] = <<>> => wire'[Pipe(c)] = <<>>
    BY DEF Dropped
  <2>3. \A body : ReplyOk(c, body) => ReplyOk(c, body)'
    BY DEF ReplyOk
  <2> QED BY <1>3, <1>4, <2>1, <2>2, <2>3 DEF RepliesOk, ManagerQuiet
<1> QED BY <1>1, <1>3, <1>5, <1>6, <1>7

(* Which requests are pending, when manager m releases contexts.           *)
LEMMA PendingTask ==
    ASSUME SlotInv, NEW m \in Managers, OthersSame(m), NEW S, CtxReleased(S),
           \A k \in Contexts \cap S : k \in HeldIn(mgr[m]) \/ ctx[k].st # "wait",
           \A k \in Contexts : k \in Range(mgr'[m].inbox) => k \in Range(mgr[m].inbox) /\ k \notin S,
           NEW c \in Clients
    PROVE  PendingQuiet(c)
<1> SUFFICES ASSUME NEW k \in Contexts, PendingOn(k, c)'
             PROVE  /\ PendingOn(k, c) /\ ctx'[k].msg = ctx[k].msg
                    /\ k \in Range(mgr[First(c)].inbox) => k \in Range(mgr'[First(c)].inbox)
  BY DEF PendingQuiet
<1>1. CASE ctx'[k].st = "got"
  <2>1. k \notin S /\ ctx'[k] = ctx[k]
    BY <1>1 DEF CtxReleased, Receiving
  <2>2. \A n \in Managers : k \notin Range(mgr[n].inbox)
    BY <1>1, <2>1 DEF SlotInv, HeldIn
  <2> QED BY <1>1, <2>1, <2>2, Names DEF PendingOn, Pending
<1>2. ASSUME NEW n \in Managers, k \in Range(mgr'[n].inbox)
      PROVE  /\ PendingOn(k, c) /\ ctx'[k].msg = ctx[k].msg
             /\ k \in Range(mgr[First(c)].inbox) => k \in Range(mgr'[First(c)].inbox)
  <2>1. k \in Range(mgr[n].inbox)
    BY <1>2 DEF OthersSame
  <2>2. ctx[k].st = "wait" /\ \A o \in Managers : k \in HeldIn(mgr[o]) => o = n
    BY <2>1 DEF SlotInv, HeldIn
  <2>3. k \notin S
    BY <1>2, <2>2
  <2>4. ctx'[k] = ctx[k]
    BY <2>3 DEF CtxReleased
  <2>5. First(c) \in Managers /\ (k \in Range(mgr[First(c)].inbox) => First(c) = n)
    BY <2>2, Names DEF HeldIn
  <2> QED BY <1>2, <2>1, <2>4, <2>5 DEF PendingOn, Pending
<1> QED BY <1>1, <1>2 DEF PendingOn, Pending

(* The exchanges of all clients, when each is quiet.                       *)
LEMMA ExchangesQuiet ==
    ASSUME ExchangeInv, \A c \in Clients : ManagerQuiet(c) /\ PendingQuiet(c),
           UNCHANGED req, LinksShut, WireQuiet, RepliesQuiet
    PROVE  ExchangeInv'
<1>1. \A c \in Clients : Exchange(c)'
  BY ExchangeQuiet, Names DEF ExchangeInv, LinksShut, WireQuiet, RepliesQuiet
<1>2. \A p \in Pipes : p # Pipe(Owner(p)) => wire'[p] = <<>>
  BY DEF ExchangeInv, WireQuiet, Dropped
<1> QED BY <1>1, <1>2 DEF ExchangeInv, WireQuiet, RepliesQuiet, Pipe, Owner

(* A step of a manager's own task that receives nothing.                   *)
LEMMA TaskStep ==
    ASSUME ConvInv, NEW m \in Managers, OthersSame(m), NEW S, CtxReleased(S),
           RecordOk(mgr'[m]), mgr[m].pc \in Alive, mgr'[m].pc \in {"ready", "done"},
           mgr'[m].app = mgr[m].app,
           Gone \in Range(mgr'[m].inbox) => Gone \in Range(mgr[m].inbox),
           \A k \in Contexts \cap S : k \in HeldIn(mgr[m]),
           \A k \in Contexts : k \in HeldIn(mgr'[m]) => k \in HeldIn(mgr[m]) /\ k \notin S,
           \A k \in Contexts : k \in Range(mgr'[m].inbox) => k \in Range(mgr[m].inbox),
           LinksShut, mgr'[m].pc = "done" => link'[PipeOf(m)] # "open",
           WireQuiet, UNCHANGED <<replies, reported, clients, up, req, down>>
    PROVE  ConvInv'
<1> USE DEF ConvInv
<1>1. KeysSame
  BY DEF KeysSame
<1>2. Books'
  BY <1>1, BooksTask DEF Alive
<1>3. ExchangeInv'
  <2>1. \A c \in Clients : ManagerQuiet(c)
    BY Names DEF ManagerQuiet, OthersSame, Alive
  <2>2. \A k \in Contexts : k \in Range(mgr'[m].inbox) => k \in Range(mgr[m].inbox) /\ k \notin S
    BY DEF HeldIn
  <2>3. \A c \in Clients : PendingQuiet(c)
    BY <2>2, PendingTask DEF Books
  <2>4. RepliesQuiet
    BY DEF RepliesQuiet, Dropped, ExchangeInv
  <2> QED BY <2>1, <2>3, <2>4, ExchangesQuiet
<1>4. AppInv'
  BY DEF AppInv, OthersSame, Alive
<1> QED BY <1>2, <1>3, <1>4 DEF DownInv

-----------------------------------------------------------------------------
(* The steps that RepServer gives a manager's task.                        *)

(* Closing a pipe drops what is on it.                                     *)
LEMMA ClosePipeFacts ==
    ASSUME DOMAIN link = Pipes, DOMAIN wire = Pipes, NEW p \in Pipes, ClosePipe(p)
    PROVE  /\ LinksShut /\ link'[p] # "open"
           /\ WireQuiet /\ wire'[p] = <<>>
           /\ \A q \in Pipes : q # p => link'[q] = link[q] /\ wire'[q] = wire[q]
<1>1. /\ link' = [link EXCEPT ![p] = IF link[p] = "open" THEN "closed" ELSE link[p]]
      /\ wire' = [wire EXCEPT ![p] = <<>>]
  BY DEF ClosePipe
<1> QED BY <1>1 DEF LinksShut, WireQuiet, Dropped

(* Leaving pipes and requests alone.                                       *)
LEMMA NothingClosed ==
    ASSUME DOMAIN link = Pipes, DOMAIN wire = Pipes, UNCHANGED <<link, wire>>
    PROVE  LinksShut /\ WireQuiet
BY DEF LinksShut, WireQuiet, Dropped

(* The domains that every step needs.                                      *)
LEMMA Domains ==
    ASSUME ConvInv
    PROVE  /\ DOMAIN link = Pipes /\ DOMAIN wire = Pipes /\ DOMAIN replies = Pipes
           /\ DOMAIN mgr = Managers /\ DOMAIN ctx = Contexts /\ DOMAIN req = Clients
           /\ \A m \in Managers : RecordOk(mgr[m])
BY DEF ConvInv, Books, LinkInv, ExchangeInv, MgrInv, CtxInv

(* _execute()'s finally block gives back all that the manager holds.       *)
LEMMA FinallyStep ==
    ASSUME ConvInv, NEW m \in Managers, mgr[m].pc \in Alive,
           NEW T, T \subseteq HeldIn(mgr[m]), mgr[m].snd \in T \cup {NoCtx}, Execute_finally(m, T),
           UNCHANGED <<replies, reported, clients, up, req, down>>
    PROVE  ConvInv'
<1> DEFINE S == HeldBy(mgr[m]) \cup T
<1>0. RecordOk(mgr[m]) /\ PipeOf(m) \in Pipes
  BY Domains, Names
<1>1. LinksShut /\ link'[PipeOf(m)] # "open" /\ WireQuiet
  BY <1>0, Domains, ClosePipeFacts DEF Execute_finally
<1>2. CtxReleased(S)
  BY ReleasedFacts DEF Execute_finally
<1>3. mgr' = [mgr EXCEPT ![m] = [mgr[m] EXCEPT !.running = FALSE, !.cur = NoCtx, !.snd = NoCtx,
                                               !.inbox = <<>>, !.pc = "done"]]
  BY DEF Execute_finally
<1>4. OthersSame(m)
  BY <1>3, Domains DEF OthersSame
<1>5. /\ DOMAIN mgr'[m] = Fields
      /\ mgr'[m].pc = "done" /\ mgr'[m].running = FALSE /\ mgr'[m].inbox = <<>>
      /\ mgr'[m].cur = NoCtx /\ mgr'[m].snd = NoCtx /\ mgr'[m].app = mgr[m].app
  BY <1>0, <1>3, Domains DEF RecordOk, Fields
<1>6. RecordOk(mgr'[m])
  BY <1>5, RangeEmpty DEF RecordOk, InboxForm, Alive
<1>7. \A k \in Contexts : k \notin HeldIn(mgr'[m]) /\ k \notin Range(mgr'[m].inbox)
  BY <1>5, RangeEmpty DEF HeldIn, NoCtx
<1>8. \A k \in Contexts \cap S : k \in HeldIn(mgr[m])
  BY <1>0 DEF HeldIn, HeldBy, RecordOk, NoCtx
<1> HIDE DEF S
<1> QED BY <1>1, <1>2, <1>4, <1>5, <1>6, <1>7, <1>8, RangeEmpty, TaskStep

(* arecv() found None.                                                     *)
LEMMA ResetStep ==
    ASSUME ConvInv, NEW m \in Managers, SecureReset(m), UNCHANGED <<req, down>>
    PROVE  ConvInv'
<1>1. mgr[m].pc = "ready" /\ mgr[m].snd = NoCtx
  BY Domains DEF SecureReset, ConnectionReset, HasItem, RecordOk
<1> QED BY <1>1, FinallyStep DEF SecureReset, ConnectionReset, Alive

(* asend() failed.                                                         *)
LEMMA SendFailedStep ==
    ASSUME ConvInv, NEW m \in Managers, SecureSendFailed(m), UNCHANGED <<req, down>>
    PROVE  ConvInv'
<1>1. {mgr[m].snd} \subseteq HeldIn(mgr[m])
  BY DEF HeldIn
<1> QED BY <1>1, FinallyStep DEF SecureSendFailed, SendFailed, Alive

(* asend() is over: the conversation ends, or only its context is freed.   *)
LEMMA SendDoneStep ==
    ASSUME ConvInv, NEW m \in Managers, NEW over,
           over = FALSE => mgr[m].app.phase # "end", over \in BOOLEAN,
           SendDone(m, over), UNCHANGED <<req, down>>
    PROVE  ConvInv'
<1>0. RecordOk(mgr[m]) /\ mgr[m].pc = "send" /\ mgr[m].snd \in Contexts
  BY Domains DEF SendDone, RecordOk
<1>1. CASE over
  <2>1. {mgr[m].snd} \subseteq HeldIn(mgr[m])
    BY DEF HeldIn
  <2> QED BY <1>0, <1>1, <2>1, FinallyStep DEF SendDone, Alive
<1>2. CASE ~over
  <2>1. mgr' = [mgr EXCEPT ![m] = [mgr[m] EXCEPT !.snd = NoCtx, !.pc = "ready"]]
    BY <1>2 DEF SendDone
  <2>2. OthersSame(m)
    BY <2>1, Domains DEF OthersSame
  <2>3. /\ DOMAIN mgr'[m] = Fields
        /\ mgr'[m].pc = "ready" /\ mgr'[m].running = mgr[m].running /\ mgr'[m].inbox = mgr[m].inbox
        /\ mgr'[m].cur = mgr[m].cur /\ mgr'[m].snd = NoCtx /\ mgr'[m].app = mgr[m].app
    BY <1>0, <2>1, Domains DEF RecordOk, Fields
  <2>4. NoCtx \notin Range(mgr[m].inbox)
    BY <1>0, InboxRange DEF RecordOk, NoCtx, Gone
  <2>5. AppOk(mgr[m]) => AppOk(mgr'[m])
    BY <1>0, <1>2, <2>3 DEF AppOk
  <2>6. RecordOk(mgr'[m])
    BY <1>0, <2>3, <2>4, <2>5 DEF RecordOk, Alive
  <2>7. \A k \in Contexts : k \in HeldIn(mgr'[m]) => k \in HeldIn(mgr[m]) /\ k \notin {mgr[m].snd}
    BY <1>0, <2>3 DEF RecordOk, HeldIn, NoCtx
  <2>8. mgr[m].snd \in HeldIn(mgr[m])
    BY DEF HeldIn
  <2>9. CtxReleased({mgr[m].snd}) /\ UNCHANGED <<link, wire>>
    BY <1>2, ReleasedFacts DEF SendDone
  <2>10. LinksShut /\ WireQuiet
    BY <2>9, Domains, NothingClosed
  <2> QED
    BY <1>0, <2>2, <2>3, <2>6, <2>7, <2>8, <2>9, <2>10, TaskStep DEF SendDone, Alive
<1> QED BY <1>1, <1>2

-----------------------------------------------------------------------------
(* Removed pipes and ended tasks.                                          *)

(* A step in which no context and no request moves.                        *)
LEMMA StillStep ==
    ASSUME ConvInv, Books', UNCHANGED <<link, wire, replies, ctx, req, up, down>>,
           \A n \in Managers :
              /\ mgr'[n].pc = "unborn" <=> mgr[n].pc = "unborn"
              /\ mgr'[n].pc \in Alive => mgr[n].pc \in Alive /\ mgr'[n].app = mgr[n].app
              /\ \A k \in Contexts : k \in Range(mgr'[n].inbox) <=> k \in Range(mgr[n].inbox)
    PROVE  ConvInv'
<1> USE DEF ConvInv
<1>1. \A c \in Clients : ManagerQuiet(c)
  BY Names DEF ManagerQuiet
<1>2. \A k \in Contexts, c \in Clients : PendingOn(k, c)' => PendingOn(k, c)
  BY DEF PendingOn, Pending
<1>3. \A c \in Clients : PendingQuiet(c)
  BY <1>2, Names DEF PendingQuiet
<1>4. LinksShut /\ WireQuiet /\ RepliesQuiet
  BY Domains, NothingClosed DEF RepliesQuiet, Dropped
<1>5. ExchangeInv'
  BY <1>1, <1>3, <1>4, ExchangesQuiet
<1>6. AppInv'
  BY DEF AppInv
<1> QED BY <1>5, <1>6 DEF DownInv

(* _disconnect() leaves a manager what it holds.                           *)
LEMMA DisconnectFacts ==
    ASSUME NEW r, RecordOk(r), r.pc # "unborn", Gone \notin Range(r.inbox)
    PROVE  /\ RecordOk(Disconnect(r)) /\ Disconnect(r).pc = r.pc /\ Disconnect(r).app = r.app
           /\ \A k \in Contexts : k \in HeldIn(Disconnect(r)) <=> k \in HeldIn(r)
           /\ \A k \in Contexts : k \in Range(Disconnect(r).inbox) <=> k \in Range(r.inbox)
<1> DEFINE d == Disconnect(r)
           q == IF r.pc \in {"done", "over"} THEN r.inbox ELSE Append(r.inbox, Gone)
<1>1. /\ DOMAIN d = Fields /\ d.pc = r.pc /\ d.running = FALSE /\ d.inbox = q
      /\ d.cur = r.cur /\ d.snd = r.snd /\ d.app = r.app
  BY DEF Disconnect, RecordOk, Fields
<1>2. InboxForm(q) /\ Range(r.inbox) \subseteq Range(q) /\ Range(q) \subseteq Range(r.inbox) \cup {Gone}
  BY InboxAppend DEF RecordOk
<1>3. r.pc \notin Alive => q = <<>>
  BY DEF RecordOk, Alive
<1>4. r.snd # Gone /\ Gone \notin Contexts
  BY DEF RecordOk, NoCtx, Gone
<1> HIDE DEF d, q
<1>5. AppOk(r) => AppOk(d)
  BY <1>1 DEF AppOk
<1>6. RecordOk(d)
  BY <1>1, <1>2, <1>3, <1>4, <1>5 DEF RecordOk
<1> QED BY <1>1, <1>2, <1>4, <1>6 DEF d, HeldIn

(* _handle_pipe_status_change() of a removed pipe.                         *)
LEMMA PipeStatusStep ==
    ASSUME ConvInv, NEW p \in Pipes, SecureHandlePipeStatusChange(p), UNCHANGED <<req, down>>
    PROVE  ConvInv'
<1> USE DEF ConvInv, Books
<1> DEFINE m == clients[p]
<1>1. /\ reported' = reported \cup {p} /\ p \notin reported /\ link[p] = "closed"
      /\ clients' = [clients EXCEPT ![p] = NoManager]
      /\ UNCHANGED <<link, wire, replies, ctx, req, up, down>>
  BY DEF SecureHandlePipeStatusChange, HandlePipeStatusChange
<1>2. /\ DOMAIN mgr' = Managers
      /\ \A n \in Managers :
            /\ RecordOk(mgr'[n]) /\ mgr'[n].pc = mgr[n].pc /\ mgr'[n].app = mgr[n].app
            /\ \A k \in Contexts : k \in HeldIn(mgr'[n]) <=> k \in HeldIn(mgr[n])
            /\ \A k \in Contexts : k \in Range(mgr'[n].inbox) <=> k \in Range(mgr[n].inbox)
            /\ PipeOf(n) # p => mgr'[n] = mgr[n]
  <2>1. CASE m = NoManager
    BY <2>1 DEF SecureHandlePipeStatusChange, HandlePipeStatusChange, MgrInv
  <2>2. CASE m # NoManager
    <3>1. m \in Managers /\ PipeOf(m) = p /\ RecordOk(mgr[m]) /\ mgr[m].pc # "unborn"
      BY <2>2 DEF KnownInv, MgrInv
    <3>2. Gone \notin Range(mgr[m].inbox)
      BY <1>1, <3>1 DEF KnownInv
    <3>3. DOMAIN mgr' = Managers /\ mgr'[m] = Disconnect(mgr[m])
      BY <2>2, <3>1 DEF SecureHandlePipeStatusChange, HandlePipeStatusChange, MgrInv
    <3>4. \A n \in Managers : n # m => mgr'[n] = mgr[n]
      BY <2>2, <3>1 DEF SecureHandlePipeStatusChange, HandlePipeStatusChange, MgrInv
    <3>5. /\ RecordOk(mgr'[m]) /\ mgr'[m].pc = mgr[m].pc /\ mgr'[m].app = mgr[m].app
          /\ \A k \in Contexts : k \in HeldIn(mgr'[m]) <=> k \in HeldIn(mgr[m])
          /\ \A k \in Contexts : k \in Range(mgr'[m].inbox) <=> k \in Range(mgr[m].inbox)
      BY <3>1, <3>2, <3>3, DisconnectFacts
    <3> QED BY <3>1, <3>3, <3>4, <3>5 DEF MgrInv
  <2> QED BY <2>1, <2>2
<1>3. MgrInv'
  BY <1>2 DEF MgrInv
<1>4. KnownInv'
  <2>1. clients' \in [Pipes -> Managers \cup {NoManager}]
    BY <1>1 DEF KnownInv
  <2>2. \A q \in Pipes : clients'[q] # NoManager => q # p /\ clients'[q] = clients[q]
    BY <1>1 DEF KnownInv
  <2>3. \A q \in Pipes : clients'[q] # NoManager =>
            PipeOf(clients'[q]) = q /\ mgr'[clients'[q]].pc # "unborn"
    BY <2>2, <1>2 DEF KnownInv
  <2>5. \A q \in Pipes \ {p} : clients'[q] = clients[q]
    BY <1>1 DEF KnownInv
  <2>6. \A n \in Managers : PipeOf(n) \notin reported' => PipeOf(n) # p /\ PipeOf(n) \notin reported
    BY <1>1
  <2>7. \A n \in Managers :
            mgr'[n].pc \notin {"unborn", "over"} /\ PipeOf(n) \notin reported'
                => clients'[PipeOf(n)] = n
    <3> SUFFICES ASSUME NEW n \in Managers, mgr'[n].pc \notin {"unborn", "over"}, PipeOf(n) \notin reported'
                 PROVE  clients'[PipeOf(n)] = n
      OBVIOUS
    <3>1. PipeOf(n) \in Pipes \ {p} /\ PipeOf(n) \notin reported
      BY <2>6, Names
    <3>2. mgr[n].pc \notin {"unborn", "over"}
      BY <1>2
    <3>3. clients[PipeOf(n)] = n
      BY <3>1, <3>2 DEF KnownInv
    <3> QED BY <2>5, <3>1, <3>3
  <2>8. \A n \in Managers : Gone \in Range(mgr'[n].inbox) => PipeOf(n) \in reported'
    <3> TAKE n \in Managers
    <3>1. CASE PipeOf(n) = p
      BY <3>1, <1>1
    <3>2. CASE PipeOf(n) # p
      <4>1. mgr'[n] = mgr[n]
        BY <3>2, <1>2
      <4> QED BY <4>1, <1>1 DEF KnownInv
    <3> QED BY <3>1, <3>2
  <2> QED BY <2>1, <2>3, <2>7, <2>8 DEF KnownInv, PipeOf
<1>5. LinkInv'
  BY <1>1, <1>2, Names DEF LinkInv, Open, PipeOf, Pipe, Owner
<1>6. CtxInv'
  BY <1>1 DEF CtxInv
<1>7. SlotInv'
  BY <1>1, <1>2 DEF SlotInv
<1> QED BY <1>1, <1>2, <1>3, <1>4, <1>5, <1>6, <1>7, StillStep

(* The done callback.                                                      *)
LEMMA TaskDoneStep ==
    ASSUME ConvInv, NEW m \in Managers, TaskDone(m), UNCHANGED <<req, down>>
    PROVE  ConvInv'
<1> USE DEF ConvInv, Books
<1> DEFINE p == PipeOf(m)
<1>0. p \in Pipes /\ mgr[m].pc = "done" /\ RecordOk(mgr[m])
  BY Names DEF TaskDone, MgrInv
<1>1. /\ clients' = [clients EXCEPT ![p] = NoManager]
      /\ DOMAIN mgr' = Managers /\ mgr'[m] = Over(mgr[m])
      /\ \A n \in Managers : n # m => mgr'[n] = mgr[n]
      /\ UNCHANGED <<link, wire, replies, reported, ctx, req, up, down>>
  BY DEF TaskDone, MgrInv
<1>2. /\ DOMAIN mgr'[m] = Fields
      /\ mgr'[m].pc = "over" /\ mgr'[m].running = FALSE /\ mgr'[m].inbox = <<>>
      /\ mgr'[m].cur = NoCtx /\ mgr'[m].snd = NoCtx
  BY <1>1 DEF Over, Fields
<1>3. RecordOk(mgr'[m])
  BY <1>2, RangeEmpty DEF RecordOk, InboxForm, Alive
<1>4. \A n \in Managers :
         /\ mgr'[n].pc = "unborn" <=> mgr[n].pc = "unborn"
         /\ mgr'[n].pc \in Alive => mgr[n].pc \in Alive /\ mgr'[n].app = mgr[n].app
         /\ \A k \in Contexts : k \in Range(mgr'[n].inbox) <=> k \in Range(mgr[n].inbox)
         /\ \A k \in Contexts : k \in HeldIn(mgr'[n]) => k \in HeldIn(mgr[n]) /\ mgr'[n] = mgr[n]
  <2>1. \A k \in Contexts : k \notin Range(mgr'[m].inbox) /\ k \notin Range(mgr[m].inbox)
                            /\ k \notin HeldIn(mgr'[m])
    BY <1>0, <1>2, RangeEmpty DEF HeldIn, RecordOk, Alive, NoCtx
  <2> QED BY <1>0, <1>1, <1>2, <2>1 DEF Alive
<1>5. MgrInv'
  BY <1>1, <1>3 DEF MgrInv
<1>6. KnownInv'
  <2>1. clients' \in [Pipes -> Managers \cup {NoManager}]
    BY <1>1 DEF KnownInv
  <2>2. \A q \in Pipes : clients'[q] # NoManager => q # p /\ clients'[q] = clients[q]
    BY <1>1 DEF KnownInv
  <2>3. \A q \in Pipes : clients'[q] # NoManager =>
            PipeOf(clients'[q]) = q /\ mgr'[clients'[q]].pc # "unborn"
    BY <2>2, <1>1, <1>2 DEF KnownInv
  <2>5. \A q \in Pipes \ {p} : clients'[q] = clients[q]
    BY <1>1 DEF KnownInv
  <2>6. \A n \in Managers \ {m} :
            mgr[n].pc \notin {"unborn", "over"} /\ PipeOf(n) \notin reported => PipeOf(n) # p
    BY <1>0 DEF KnownInv
  <2>7. \A n \in Managers :
            /\ mgr'[n].pc \notin {"unborn", "over"} /\ PipeOf(n) \notin reported'
                  => clients'[PipeOf(n)] = n
            /\ Gone \in Range(mgr'[n].inbox) => PipeOf(n) \in reported'
    BY <2>5, <2>6, <1>1, <1>2, RangeEmpty, Names DEF KnownInv
  <2> QED BY <2>1, <2>3, <2>7 DEF KnownInv, PipeOf
<1>7. LinkInv'
  <2>1. \A n \in Managers : mgr'[n].pc \in {"done", "over"} => mgr[n].pc \in {"done", "over"}
    BY <1>0, <1>1
  <2> QED BY <1>1, <1>4, <2>1, Names DEF LinkInv, Open, PipeOf, Pipe, Owner
<1>8. CtxInv'
  BY <1>1 DEF CtxInv
<1>9. SlotInv'
  BY <1>1, <1>4 DEF SlotInv
<1> QED BY <1>1, <1>4, <1>5, <1>6, <1>7, <1>8, <1>9, StillStep

-----------------------------------------------------------------------------
(* The dispatch tasks.                                                     *)

(* A received or waiting context has the request of one client.            *)
LEMMA RequestOf ==
    ASSUME ConvInv, NEW k \in Contexts, ctx[k].st \in {"got", "wait"}
    PROVE  \E c \in Clients : RequestOk(c, req[c].key, ctx[k].msg) /\ ctx[k].msg.pipe = Pipe(c)
BY DEF ConvInv, Books, CtxInv, RequestOk

(* Clients do not share pipes.                                             *)
LEMMA PipesDiffer ==
    \A c, d : Pipe(c) = Pipe(d) => c = d
BY DEF Pipe

(* A context receives a request: it is the only one of its client.         *)
LEMMA ContextReceivesStep ==
    ASSUME ConvInv, NEW k \in Contexts, NEW p \in Pipes, ContextReceives(k, p), UNCHANGED <<req, down>>
    PROVE  ConvInv'
<1> USE DEF ConvInv, Books
<1> DEFINE c == Owner(p)
<1>0. PICK q : q = Head(wire[p])
  OBVIOUS
<1>1. /\ ctx[k].st = "recv" /\ wire[p] # <<>>
      /\ ctx' = [ctx EXCEPT ![k] = [st |-> "got", msg |-> q]]
      /\ wire' = [wire EXCEPT ![p] = Tail(wire[p])]
      /\ UNCHANGED <<link, replies, reported, clients, mgr, up, req, down>>
  BY <1>0 DEF ContextReceives
<1>2. c \in Clients /\ p = Pipe(c)
  BY <1>1, Names DEF ExchangeInv
<1>3. Exchange(c) /\ WireOk(c)
  BY <1>2 DEF ExchangeInv, Exchange
<1>4. /\ wire[p] = <<q>> /\ RequestOk(c, req[c].key, q) /\ InSync(c, q.id)
      /\ q.id = 0 => mgr[First(c)].pc = "unborn"
      /\ \A l \in Contexts : ~PendingOn(l, c)
  BY <1>0, <1>1, <1>2, <1>3 DEF WireOk
<1>5. q.pipe = p
  BY <1>2, <1>4 DEF RequestOk
<1>6. /\ DOMAIN ctx' = Contexts
      /\ ctx'[k] = [st |-> "got", msg |-> q]
      /\ \A l \in Contexts \ {k} : ctx'[l] = ctx[l]
  BY <1>1, Domains
<1>7. /\ DOMAIN wire' = Pipes /\ wire'[p] = <<>>
      /\ \A o \in Pipes \ {p} : wire'[o] = wire[o]
  BY <1>1, <1>4, Domains, TakeOne
<1> HIDE DEF c
<1>8. \A m \in Managers : k \notin HeldIn(mgr[m])
  BY <1>1 DEF SlotInv
<1>9. \A l \in Contexts, d \in Clients :
          PendingOn(l, d)' => \/ PendingOn(l, d) /\ l # k /\ ctx'[l] = ctx[l]
                              \/ l = k /\ d = c
  <2> SUFFICES ASSUME NEW l \in Contexts, NEW d \in Clients, PendingOn(l, d)'
               PROVE  \/ PendingOn(l, d) /\ l # k /\ ctx'[l] = ctx[l]
                      \/ l = k /\ d = c
    OBVIOUS
  <2>1. CASE l = k
    <3>1. ctx'[k].msg.pipe = Pipe(c)
      BY <1>2, <1>5, <1>6
    <3>2. Pipe(c) = Pipe(d)
      BY <2>1, <3>1 DEF PendingOn
    <3> QED BY <2>1, <3>2, PipesDiffer
  <2>2. CASE l # k
    BY <2>2, <1>1, <1>6 DEF PendingOn, Pending
  <2> QED BY <2>1, <2>2
<1>10. MgrInv' /\ KnownInv' /\ LinkInv'
  BY <1>1 DEF MgrInv, KnownInv, LinkInv, Open
<1>11. CtxInv'
  <2>1. \A l \in Contexts : DOMAIN ctx'[l] = {"st", "msg"}
    BY <1>6 DEF CtxInv
  <2>2. \A l \in Contexts : ctx'[l].st \in {"got", "wait"} =>
            \E d \in Clients : RequestOk(d, req[d].key, ctx'[l].msg)
    <3> TAKE l \in Contexts
    <3>1. CASE l = k
      BY <3>1, <1>2, <1>4, <1>6
    <3>2. CASE l # k
      BY <3>2, <1>6 DEF CtxInv
    <3> QED BY <3>1, <3>2
  <2> QED BY <1>1, <1>6, <2>1, <2>2 DEF CtxInv
<1>12. SlotInv'
  BY <1>1, <1>6, <1>8 DEF SlotInv
<1>13. \A d \in Clients : Exchange(d)'
  <2> TAKE d \in Clients
  <2>0. Exchange(d)
    BY DEF ExchangeInv
  <2>1. CASE d # c
    <3>1. ManagerQuiet(d)
      BY <1>1, Names DEF ManagerQuiet
    <3>2. PendingQuiet(d)
      BY <1>1, <1>9, <2>1 DEF PendingQuiet
    <3>3. Pipe(d) \in Pipes \ {p}
      BY <1>2, <2>1, Names, PipesDiffer
    <3>4. Dropped(wire[Pipe(d)], wire'[Pipe(d)]) /\ Dropped(replies[Pipe(d)], replies'[Pipe(d)])
      BY <1>1, <1>7, <3>3 DEF Dropped
    <3> QED BY <1>1, <2>0, <3>1, <3>2, <3>4, ExchangeQuiet
  <2>2. CASE d = c
    <3>1. \A l \in Contexts : PendingOn(l, c)' => l = k
      BY <1>2, <1>4, <1>9
    <3>2. ReqOk(c)'
      BY <1>1, <2>0, <2>2 DEF Exchange, ReqOk, Open
    <3>3. WireOk(c)'
      BY <1>2, <1>7 DEF WireOk
    <3>4. InSync(c, q.id)'
      BY <1>1, <1>4 DEF InSync
    <3>5. PendingOk(c)'
      <4>1. ctx'[k].msg.id = q.id
        BY <1>6
      <4> SUFFICES ASSUME NEW l \in Contexts, PendingOn(l, c)'
                   PROVE  /\ InSync(c, ctx[l].msg.id)'
                          /\ ctx'[l].msg.id = 0 =>
                                mgr'[First(c)].pc = "unborn" \/ l \in Range(mgr'[First(c)].inbox)
                          /\ \A o \in Contexts : PendingOn(o, c)' => o = l
        BY DEF PendingOk
      <4>2. l = k
        BY <3>1
      <4> QED BY <1>1, <1>4, <3>1, <3>4, <4>1, <4>2
    <3>6. replies[p] = <<>>
      BY <1>1, <1>2, <2>0, <2>2 DEF Exchange, RepliesOk
    <3>7. RepliesOk(c)'
      BY <1>1, <1>2, <3>6 DEF RepliesOk
    <3>8. req[c].pc # "ready"
      BY <1>4 DEF InSync, Waiting
    <3> QED BY <1>1, <2>2, <3>2, <3>3, <3>5, <3>7, <3>8 DEF Exchange
  <2> QED BY <2>1, <2>2
<1>14. ExchangeInv'
  BY <1>1, <1>2, <1>7, <1>13 DEF ExchangeInv
<1>15. AppInv' /\ DownInv'
  BY <1>1 DEF AppInv, DownInv
<1> QED BY <1>10, <1>11, <1>12, <1>14, <1>15

(* A request that goes to nobody.                                          *)
LEMMA DropStep ==
    ASSUME ConvInv, NEW k \in Contexts, ctx[k].st = "got", ctx' = Released({k}),
           LinksShut, WireQuiet, DOMAIN mgr' = Managers, \A n \in Managers : mgr'[n] = mgr[n],
           UNCHANGED <<replies, reported, clients, up, req, down>>
    PROVE  ConvInv'
<1> USE DEF ConvInv, Books
<1>1. PICK c \in Clients : RequestOk(c, req[c].key, ctx[k].msg)
  BY RequestOf
<1> DEFINE m == First(c)
<1>2. m \in Managers /\ OthersSame(m) /\ CtxReleased({k}) /\ KeysSame
  BY Names, ReleasedFacts, Domains DEF OthersSame, KeysSame
<1> HIDE DEF m
<1>3. \A n \in Managers : k \notin HeldIn(mgr[n])
  BY DEF SlotInv
<1>4. SlotInv'
  <2>1. mgr'[m] = mgr[m]
    BY <1>2
  <2>2. \A l \in Contexts : l \in HeldIn(mgr'[m]) =>
            l \in HeldIn(mgr[m]) /\ l \notin {k} /\ mgr'[m].pc \in Alive
    BY <1>2, <1>3, <2>1 DEF SlotInv
  <2> QED BY <1>2, <2>2, SlotRelease
<1>5. CtxInv'
  BY <1>2, ReleaseKeepsCtx
<1>6. MgrInv' /\ KnownInv'
  <2>1. MgrInv'
    BY DEF MgrInv
  <2>2. \A p \in Pipes : clients'[p] # NoManager =>
            PipeOf(clients'[p]) = p /\ mgr'[clients'[p]].pc # "unborn"
    BY DEF KnownInv
  <2> QED BY <2>1, <2>2 DEF KnownInv, PipeOf
<1>7. LinkInv'
  <2>1. reported' \subseteq Pipes /\ \A p \in reported' : ~Open(p)'
    BY DEF LinkInv, LinksShut, Open
  <2>2. \A n \in Managers : mgr'[n].pc \in {"done", "over"} => ~Open(PipeOf(n))'
    BY Names DEF LinkInv, LinksShut, Open
  <2>3. \A p \in Pipes : Open(p)' => p = Pipe(Owner(p))
    BY DEF LinkInv, LinksShut, Open
  <2>4. \A n \in Managers : mgr'[n].pc # "unborn" => mgr'[<<PipeOf(n), 1>>].pc # "unborn"
    BY Names DEF LinkInv
  <2> QED BY <2>1, <2>2, <2>3, <2>4 DEF LinkInv, LinksShut, PipeOf, Pipe, Owner
<1>8. \A d \in Clients : ManagerQuiet(d) /\ PendingQuiet(d)
  <2>1. \A l \in Contexts : l \in Range(mgr'[m].inbox) => l \in Range(mgr[m].inbox) /\ l \notin {k}
    BY <1>2, <1>3 DEF HeldIn
  <2>2. \A l \in Contexts \cap {k} : l \in HeldIn(mgr[m]) \/ ctx[l].st # "wait"
    OBVIOUS
  <2>3. \A d \in Clients : PendingQuiet(d)
    BY <1>2, <2>1, <2>2, PendingTask
  <2> QED BY <2>3, Names DEF ManagerQuiet
<1>9. RepliesQuiet
  BY Domains DEF RepliesQuiet, Dropped
<1>10. ExchangeInv'
  BY <1>8, <1>9, ExchangesQuiet
<1>11. AppInv' /\ DownInv'
  BY DEF AppInv, DownInv
<1> QED BY <1>4, <1>5, <1>6, <1>7, <1>10, <1>11


(* A fresh manager's record is in order.                                   *)
LEMMA NewRecordOk == RecordOk(NewManager(NewHandshake)) /\ NewManager(NewHandshake).pc = "ready"
                     /\ NewManager(NewHandshake).app.phase = "hello"
<1> DEFINE r == NewManager(NewHandshake)
<1>1. /\ DOMAIN r = Fields /\ r.pc = "ready" /\ r.running = TRUE /\ r.inbox = <<>>
      /\ r.cur = NoCtx /\ r.snd = NoCtx /\ r.app = NewHandshake
  BY DEF NewManager, Fields
<1>2. /\ DOMAIN NewHandshake = {"phase", "box", "peer", "subs"}
      /\ NewHandshake.phase = "hello" /\ NewHandshake.subs = 0
  BY DEF NewHandshake
<1> HIDE DEF r
<1>3. AppOk(r)
  BY <1>1, <1>2 DEF AppOk
<1>4. RecordOk(r)
  BY <1>1, <1>3, RangeEmpty DEF RecordOk, InboxForm, Alive, NoCtx
<1> QED BY <1>1, <1>2, <1>4 DEF r

(* A request goes into the empty inbox of its pipe's manager.  Were it the *)
(* hello, no manager of the pipe was started before.                       *)
LEMMA PutStep ==
    ASSUME ConvInv, NEW k \in Contexts, ctx[k].st = "got",
           NEW m \in Managers, PipeOf(m) = ctx[k].msg.pipe, NEW r,
           \/ r = mgr[m] /\ clients[PipeOf(m)] = m
           \/ /\ r = NewManager(NewHandshake)
              /\ mgr[m].pc = "unborn" /\ clients[PipeOf(m)] = NoManager
              /\ m = <<PipeOf(m), 1>> \/ mgr[<<PipeOf(m), 1>>].pc # "unborn",
           r.running = TRUE, r.inbox = <<>>,
           mgr' = [mgr EXCEPT ![m] = [r EXCEPT !.inbox = Append(r.inbox, k)]],
           ctx' = [ctx EXCEPT ![k].st = "wait"], clients' = [clients EXCEPT ![PipeOf(m)] = m],
           UNCHANGED <<link, wire, replies, reported, up, req, down>>
    PROVE  ConvInv'
<1> USE DEF ConvInv, Books
<1>1. PICK c \in Clients : RequestOk(c, req[c].key, ctx[k].msg) /\ PipeOf(m) = Pipe(c)
  BY RequestOf
<1> DEFINE M == First(c)
<1>2. RecordOk(r) /\ r.pc \in Alive /\ Gone \notin Range(r.inbox)
  BY NewRecordOk, RangeEmpty DEF MgrInv, RecordOk
<1>3. \A n \in Managers : k \notin HeldIn(mgr[n])
  BY DEF SlotInv
<1>4. r.snd # k
  BY <1>3 DEF HeldIn, NewManager, NoCtx
<1>5. /\ OthersSame(m)
      /\ DOMAIN mgr'[m] = Fields /\ mgr'[m].pc = r.pc /\ mgr'[m].running = r.running
      /\ mgr'[m].inbox = <<k>> /\ mgr'[m].cur = r.cur /\ mgr'[m].snd = r.snd /\ mgr'[m].app = r.app
  BY <1>2, PutFirst, Domains DEF OthersSame, RecordOk, Fields
<1>6. Range(mgr'[m].inbox) = {k}
  BY <1>5, RangeOne
<1>7. RecordOk(mgr'[m])
  <2>1. AppOk(mgr'[m])
    BY <1>2, <1>5 DEF RecordOk, AppOk
  <2>2. InboxForm(mgr'[m].inbox)
    BY <1>5 DEF InboxForm
  <2> QED BY <1>2, <1>4, <1>5, <1>6, <2>1, <2>2 DEF RecordOk
<1>8. mgr'[m].pc \in Alive /\ KeysSame
  BY <1>2, <1>5 DEF KeysSame
<1>9. MgrInv'
  BY <1>5, <1>7 DEF MgrInv, OthersSame
<1>10. \A j \in Contexts : j \in HeldIn(mgr'[m]) => j \in HeldIn(mgr[m]) \/ j = k
  BY <1>5, <1>6 DEF HeldIn, NewManager, NoCtx
<1>11. SlotInv' /\ CtxInv'
  BY <1>5, <1>8, <1>10, SlotTake
<1>12. /\ PipeOf(m) \in Pipes /\ clients'[PipeOf(m)] = m
       /\ clients' \in [Pipes -> Managers \cup {NoManager}]
       /\ \A q \in Pipes \ {PipeOf(m)} : clients'[q] = clients[q]
  BY Names DEF KnownInv
<1>13. KnownInv'
  <2>1. \A q \in Pipes : clients'[q] # NoManager =>
            PipeOf(clients'[q]) = q /\ mgr'[clients'[q]].pc # "unborn"
    <3> SUFFICES ASSUME NEW q \in Pipes, clients'[q] # NoManager
                 PROVE  PipeOf(clients'[q]) = q /\ mgr'[clients'[q]].pc # "unborn"
      OBVIOUS
    <3>1. CASE q = PipeOf(m)
      BY <3>1, <1>8, <1>12 DEF Alive
    <3>2. CASE q # PipeOf(m)
      <4>1. clients'[q] = clients[q] /\ clients[q] \in Managers /\ PipeOf(clients[q]) = q
            /\ mgr[clients[q]].pc # "unborn"
        BY <3>2, <1>12 DEF KnownInv
      <4> QED BY <3>2, <4>1, <1>5 DEF OthersSame
    <3> QED BY <3>1, <3>2
  <2>2. \A n \in Managers : mgr'[n].pc \notin {"unborn", "over"} /\ PipeOf(n) \notin reported'
                              => clients'[PipeOf(n)] = n
    <3> SUFFICES ASSUME NEW n \in Managers, mgr'[n].pc \notin {"unborn", "over"},
                        PipeOf(n) \notin reported'
                 PROVE  clients'[PipeOf(n)] = n
      OBVIOUS
    <3>1. CASE n = m
      BY <3>1, <1>12
    <3>2. CASE n # m
      <4>1. clients[PipeOf(n)] = n
        BY <3>2, <1>5 DEF KnownInv, OthersSame
      <4>2. PipeOf(n) # PipeOf(m)
        BY <3>2, <4>1, NoManagerIsNone
      <4> QED BY <4>1, <4>2, <1>12, Names
    <3> QED BY <3>1, <3>2
  <2>3. \A n \in Managers : Gone \in Range(mgr'[n].inbox) => PipeOf(n) \in reported'
    BY <1>5, <1>6 DEF KnownInv, OthersSame, Gone
  <2> QED BY <1>12, <2>1, <2>2, <2>3 DEF KnownInv, PipeOf
<1>14. \A n \in Managers : mgr[n].pc # "unborn" => mgr'[n].pc # "unborn"
  BY <1>5, <1>8 DEF OthersSame, Alive
<1>15. mgr'[<<PipeOf(m), 1>>].pc # "unborn"
  <2>1. mgr[m].pc # "unborn" => mgr[<<PipeOf(m), 1>>].pc # "unborn"
    BY DEF LinkInv
  <2>2. m = <<PipeOf(m), 1>> \/ mgr[<<PipeOf(m), 1>>].pc # "unborn"
    BY <1>2, <2>1 DEF Alive
  <2> QED BY <1>8, <1>14, <2>2, Names DEF Alive
<1>16. LinkInv'
  <2>1. \A n \in Managers : mgr'[n].pc \in {"done", "over"} => ~Open(PipeOf(n))
    BY <1>5, <1>8 DEF LinkInv, OthersSame, Alive
  <2>2. \A n \in Managers : mgr'[n].pc # "unborn" => mgr'[<<PipeOf(n), 1>>].pc # "unborn"
    <3> TAKE n \in Managers
    <3>1. CASE n = m
      BY <3>1, <1>15
    <3>2. CASE n # m
      BY <3>2, <1>5, <1>14, Names DEF LinkInv, OthersSame
    <3> QED BY <3>1, <3>2
  <2> QED BY <2>1, <2>2 DEF LinkInv, Open, PipeOf
<1>17. /\ DOMAIN ctx' = Contexts /\ ctx'[k].st = "wait" /\ ctx'[k].msg = ctx[k].msg
       /\ \A l \in Contexts \ {k} : ctx'[l] = ctx[l]
  BY DEF CtxInv
<1>18. \A l \in Contexts, d \in Clients :
           PendingOn(l, d)' => PendingOn(l, d) /\ ctx'[l].msg = ctx[l].msg
  <2> SUFFICES ASSUME NEW l \in Contexts, NEW d \in Clients, PendingOn(l, d)'
               PROVE  PendingOn(l, d) /\ ctx'[l].msg = ctx[l].msg
    OBVIOUS
  <2>1. CASE l = k
    BY <2>1, <1>17 DEF PendingOn, Pending
  <2>2. CASE l # k
    <3>1. \A n \in Managers : l \in Range(mgr'[n].inbox) => l \in Range(mgr[n].inbox)
      BY <2>2, <1>5, <1>6 DEF OthersSame
    <3> QED BY <2>2, <3>1, <1>17 DEF PendingOn, Pending
  <2> QED BY <2>1, <2>2
<1>19. PendingOn(k, c)
  BY <1>1 DEF PendingOn, Pending
<1>20. ASSUME NEW d \in Clients, d # c PROVE Exchange(d)'
  <2>1. First(d) \in Managers \ {m}
    BY <1>1, <1>20, Names, PipesDiffer
  <2>2. mgr'[First(d)] = mgr[First(d)]
    BY <2>1, <1>5 DEF OthersSame
  <2>3. ManagerQuiet(d) /\ PendingQuiet(d)
    BY <2>2, <1>18 DEF ManagerQuiet, PendingQuiet
  <2> QED BY <2>3, ExchangeQuiet DEF ExchangeInv, Dropped
<1>21. Exchange(c)'
  <2>1. /\ InSync(c, ctx[k].msg.id)
        /\ ctx[k].msg.id = 0 => mgr[M].pc = "unborn" \/ k \in Range(mgr[M].inbox)
        /\ \A l \in Contexts : PendingOn(l, c) => l = k
    BY <1>19 DEF ExchangeInv, Exchange, PendingOk
  <2>2. req[c].pc \in Waiting \cup {"over"}
    BY <2>1 DEF InSync
  <2>3. wire[Pipe(c)] = <<>> /\ replies[Pipe(c)] = <<>>
    BY <1>19 DEF ExchangeInv, Exchange, WireOk, RepliesOk
  <2>4. M \in Managers /\ PipeOf(M) = PipeOf(m) /\ M = <<PipeOf(m), 1>>
    BY <1>1, Names DEF First
  <2>5. ReqOk(c)'
    BY <1>14, <2>2, <2>4 DEF ExchangeInv, Exchange, ReqOk, Waiting, Open
  <2>6. WireOk(c)' /\ RepliesOk(c)'
    BY <2>3 DEF WireOk, RepliesOk
  <2>7. mgr[M].pc = "unborn" => m = M /\ r = NewManager(NewHandshake) /\ ctx[k].msg.id = 0
    <3> SUFFICES ASSUME mgr[M].pc = "unborn"
                 PROVE  m = M /\ r = NewManager(NewHandshake) /\ ctx[k].msg.id = 0
      OBVIOUS
    <3>1. mgr[m].pc = "unborn"
      BY <2>4 DEF LinkInv
    <3>2. r # mgr[m]
      BY <1>2, <3>1 DEF Alive
    <3> QED BY <2>1, <2>4, <3>2 DEF InSync
  <2>8. mgr'[M].pc \in Alive =>
            \/ mgr[M].pc \in Alive /\ mgr'[M].app = mgr[M].app
            \/ mgr[M].pc = "unborn" /\ mgr'[M].app.phase = "hello"
    BY <1>5, <2>4, <2>7, NewRecordOk, <1>2 DEF OthersSame
  <2>9. InSync(c, ctx[k].msg.id)'
    <3>1. mgr'[M].pc # "unborn"
      BY <1>15, <2>4
    <3>2. mgr'[M].pc \in Alive => ctx[k].msg.id = Answered(mgr'[M].app)
      BY <2>1, <2>7, <2>8 DEF InSync, Answered
    <3> QED BY <1>17, <2>1, <3>1, <3>2 DEF InSync
  <2>10. ctx[k].msg.id = 0 => k \in Range(mgr'[M].inbox)
    <3>1. k \notin Range(mgr[M].inbox)
      BY <1>3, <2>4 DEF HeldIn
    <3> QED BY <2>1, <2>7, <3>1, <1>6
  <2>11. PendingOk(c)'
    <3> SUFFICES ASSUME NEW l \in Contexts, PendingOn(l, c)'
                 PROVE  /\ InSync(c, ctx[l].msg.id)'
                        /\ ctx'[l].msg.id = 0 =>
                              mgr'[First(c)].pc = "unborn" \/ l \in Range(mgr'[First(c)].inbox)
                        /\ \A o \in Contexts : PendingOn(o, c)' => o = l
      BY DEF PendingOk
    <3>1. \A o \in Contexts : PendingOn(o, c)' => o = k
      BY <1>18, <2>1
    <3>2. l = k
      BY <3>1
    <3> QED BY <3>1, <3>2, <2>9, <2>10, <1>17
  <2>12. req'[c].pc # "ready"
    BY <2>2 DEF Waiting
  <2> QED BY <2>5, <2>6, <2>11, <2>12 DEF Exchange
<1>22. ExchangeInv'
  BY <1>20, <1>21 DEF ExchangeInv
<1>23. AppInv'
  <2>1. mgr'[m].app.phase = "hello" \/ (mgr'[m].app = mgr[m].app /\ mgr[m].pc \in Alive)
    <3>1. CASE r = mgr[m]
      BY <3>1, <1>2, <1>5
    <3>2. CASE r = NewManager(NewHandshake)
      <4>1. r.app.phase = "hello"
        BY <3>2, NewRecordOk
      <4>2. mgr'[m].app = r.app
        BY <1>5
      <4> QED BY <4>1, <4>2
    <3> QED BY <3>1, <3>2
  <2>2. \A n \in Managers : mgr'[n].pc \in Alive /\ mgr'[n].app.phase # "hello" =>
            mgr[n].pc \in Alive /\ mgr'[n].app = mgr[n].app
    <3> TAKE n \in Managers
    <3>1. CASE n = m
      BY <3>1, <2>1
    <3>2. CASE n # m
      BY <3>2, <1>5 DEF OthersSame
    <3> QED BY <3>1, <3>2
  <2> QED BY <2>2 DEF AppInv
<1> QED BY <1>9, <1>11, <1>13, <1>16, <1>22, <1>23 DEF DownInv


(* A round of _recv_dispatch().                                            *)
LEMMA RecvDispatchStep ==
    ASSUME ConvInv, NEW k \in Contexts, SecureRecvDispatch(k), UNCHANGED <<req, down>>
    PROVE  ConvInv'
<1> DEFINE p == ctx[k].msg.pipe
           new == NewManager(NewHandshake)
<1>0. ctx[k].st = "got"
  BY DEF SecureRecvDispatch, RecvDispatch, RecvDispatchNoPipe
<1>1. p \in Pipes
  BY <1>0, RequestOf, Names
<1>2. /\ new.running = TRUE /\ new.inbox = <<>> /\ new.cur = NoCtx
      /\ ~DoubleMessage(new)
  BY DEF NewManager, DoubleMessage
<1>3. clients \in [Pipes -> Managers \cup {NoManager}]
      /\ \A q \in Pipes : clients[q] # NoManager => PipeOf(clients[q]) = q
  BY DEF ConvInv, Books, KnownInv
<1>4. CASE RecvDispatchNoPipe(k)
  BY <1>0, <1>4, Domains, NothingClosed, DropStep DEF RecvDispatchNoPipe
<1>5. CASE RecvDispatch(k, NewHandshake) /\ Known(p)
  <2> DEFINE m == clients[p]
  <2>1. m \in Managers /\ PipeOf(m) = p /\ RecordOk(mgr[m])
    BY <1>1, <1>3, <1>5, Domains DEF Known
  <2>2. Dispatch(k, m, mgr[m]) /\ UNCHANGED <<clients, replies, reported, up>>
    BY <1>5 DEF RecvDispatch
  <2>3. \A f : f = [mgr EXCEPT ![m] = mgr[m]] =>
                    DOMAIN f = Managers /\ \A n \in Managers : f[n] = mgr[n]
    BY <2>1, Domains
  <2>4. CASE ~mgr[m].running
    <3>1. /\ ctx' = Released({k}) /\ UNCHANGED <<link, wire>>
          /\ DOMAIN mgr' = Managers /\ \A n \in Managers : mgr'[n] = mgr[n]
      BY <2>2, <2>3, <2>4 DEF Dispatch
    <3> QED BY <1>0, <2>2, <3>1, Domains, NothingClosed, DropStep
  <2>5. CASE mgr[m].running /\ DoubleMessage(mgr[m])
    <3>1. /\ ctx' = Released({k}) /\ ClosePipe(PipeOf(m))
          /\ DOMAIN mgr' = Managers /\ \A n \in Managers : mgr'[n] = mgr[n]
      BY <2>2, <2>3, <2>5 DEF Dispatch
    <3>2. LinksShut /\ WireQuiet
      BY <1>1, <2>1, <3>1, Domains, ClosePipeFacts
    <3> QED BY <1>0, <2>2, <3>1, <3>2, DropStep
  <2>6. CASE mgr[m].running /\ ~DoubleMessage(mgr[m])
    <3>1. /\ mgr' = [mgr EXCEPT ![m] = [mgr[m] EXCEPT !.inbox = Append(mgr[m].inbox, k)]]
          /\ ctx' = [ctx EXCEPT ![k].st = "wait"] /\ UNCHANGED <<link, wire>>
      BY <2>2, <2>6 DEF Dispatch
    <3>2. mgr[m].inbox = <<>> /\ mgr[m].running = TRUE
      BY <2>1, <2>6 DEF DoubleMessage, RecordOk
    <3>3. clients' = [clients EXCEPT ![PipeOf(m)] = m] /\ clients[PipeOf(m)] = m
      BY <1>1, <1>3, <2>1, <2>2
    <3> HIDE DEF m
    <3> QED BY <1>0, <2>1, <2>2, <3>1, <3>2, <3>3, PutStep
  <2> QED BY <2>4, <2>5, <2>6
<1>6. CASE RecvDispatch(k, NewHandshake) /\ ~Known(p)
  <2>1. PICK i \in 1..MaxManagers :
            /\ mgr[<<p, i>>].pc = "unborn"
            /\ \A j \in 1..(i - 1) : mgr[<<p, j>>].pc # "unborn"
            /\ Dispatch(k, <<p, i>>, new)
            /\ clients' = [clients EXCEPT ![p] = <<p, i>>]
            /\ UNCHANGED <<replies, reported, up>>
    BY <1>6 DEF RecvDispatch
  <2> DEFINE m == <<p, i>>
  <2>2. m \in Managers /\ PipeOf(m) = p
    BY <1>1 DEF Managers, PipeOf
  <2>3. m = <<PipeOf(m), 1>> \/ mgr[<<PipeOf(m), 1>>].pc # "unborn"
    <3>1. i = 1 \/ 1 \in 1..(i - 1)
      OBVIOUS
    <3> QED BY <2>1, <2>2, <3>1
  <2>4. /\ mgr' = [mgr EXCEPT ![m] = [new EXCEPT !.inbox = Append(new.inbox, k)]]
        /\ ctx' = [ctx EXCEPT ![k].st = "wait"] /\ UNCHANGED <<link, wire>>
    BY <1>2, <2>1 DEF Dispatch
  <2>5. clients[PipeOf(m)] = NoManager /\ mgr[m].pc = "unborn"
        /\ clients' = [clients EXCEPT ![PipeOf(m)] = m]
    BY <1>6, <2>1, <2>2 DEF Known
  <2> HIDE DEF m, new
  <2> QED BY <1>0, <1>2, <2>1, <2>2, <2>3, <2>4, <2>5, PutStep DEF new
<1> QED BY <1>4, <1>5, <1>6 DEF SecureRecvDispatch

-----------------------------------------------------------------------------
(* The TaskGroup ends: nobody holds anything any more.                     *)
LEMMA EndsStep ==
    ASSUME ConvInv, TaskGroupEnds, UNCHANGED req, down' \in {"timeout", "late"}
    PROVE  ConvInv' /\ up' = FALSE
<1> USE DEF ConvInv, Books
<1>1. /\ up' = FALSE /\ reported' = reported
      /\ link' = [p \in Pipes |-> IF link[p] = "open" THEN "closed" ELSE link[p]]
      /\ wire' = [p \in Pipes |-> <<>>]
      /\ ctx' = [k \in Contexts |-> [st |-> "ended", msg |-> NoMsg]]
      /\ mgr' = [m \in Managers |-> IF mgr[m].pc = "unborn" THEN mgr[m] ELSE Over(mgr[m])]
      /\ clients' = [p \in Pipes |-> NoManager]
      /\ replies' = [p \in Pipes |-> <<>>]
  BY DEF TaskGroupEnds, Open
<1>2. /\ DOMAIN mgr' = Managers
      /\ \A m \in Managers : mgr'[m] = IF mgr[m].pc = "unborn" THEN mgr[m] ELSE Over(mgr[m])
  BY <1>1
<1>3. \A m \in Managers :
         /\ DOMAIN mgr'[m] = Fields /\ mgr'[m].pc \in {"unborn", "over"}
         /\ mgr'[m].pc = "unborn" <=> mgr[m].pc = "unborn"
         /\ mgr'[m].inbox = <<>> /\ mgr'[m].snd = NoCtx
         /\ RecordOk(mgr'[m])
  <2> TAKE m \in Managers
  <2>1. CASE mgr[m].pc = "unborn"
    BY <1>2, <2>1, Domains DEF RecordOk, Alive
  <2>2. CASE mgr[m].pc # "unborn"
    <3>1. /\ DOMAIN mgr'[m] = Fields /\ mgr'[m].pc = "over" /\ mgr'[m].running = FALSE
          /\ mgr'[m].inbox = <<>> /\ mgr'[m].cur = NoCtx /\ mgr'[m].snd = NoCtx
      BY <1>2, <2>2 DEF Over, Fields
    <3> QED BY <2>2, <3>1, RangeEmpty DEF RecordOk, InboxForm, Alive
  <2> QED BY <2>1, <2>2
<1>4. \A k \in Contexts, m \in Managers : k \notin HeldIn(mgr'[m]) /\ k \notin Range(mgr'[m].inbox)
  BY <1>3, RangeEmpty DEF HeldIn, NoCtx
<1>5. MgrInv'
  BY <1>2, <1>3 DEF MgrInv
<1>6. KnownInv'
  <2>1. \A m \in Managers : Gone \notin Range(mgr'[m].inbox)
    BY <1>3, RangeEmpty
  <2>2. clients' \in [Pipes -> Managers \cup {NoManager}] /\ \A p \in Pipes : clients'[p] = NoManager
    BY <1>1
  <2> QED BY <1>3, <2>1, <2>2 DEF KnownInv, PipeOf
<1>7. DOMAIN link' = Pipes /\ \A p \in Pipes : link'[p] # "open"
  BY <1>1
<1>8. LinkInv'
  <2>1. \A m \in Managers : mgr'[m].pc # "unborn" => mgr'[<<PipeOf(m), 1>>].pc # "unborn"
    BY <1>3, Names DEF LinkInv
  <2>2. reported' \subseteq Pipes
    BY <1>1 DEF LinkInv
  <2> QED BY <1>7, <2>1, <2>2, Names DEF LinkInv, Open, PipeOf
<1>9. DOMAIN ctx' = Contexts /\ \A k \in Contexts : ctx'[k] = [st |-> "ended", msg |-> NoMsg]
  BY <1>1
<1>10. CtxInv' /\ SlotInv'
  BY <1>4, <1>9 DEF CtxInv, SlotInv
<1>11. \A c \in Clients : ManagerQuiet(c)
  BY <1>3, Names DEF ManagerQuiet, Alive
<1>12. \A c \in Clients : PendingQuiet(c)
  BY <1>4, <1>9 DEF PendingQuiet, PendingOn, Pending
<1>13. LinksShut /\ WireQuiet /\ RepliesQuiet
  BY <1>1, <1>7 DEF LinksShut, WireQuiet, RepliesQuiet, Dropped
<1>14. ExchangeInv'
  BY <1>11, <1>12, <1>13, ExchangesQuiet
<1>15. AppInv'
  BY <1>3 DEF AppInv, Alive
<1>16. DownInv'
  BY <1>1 DEF DownInv
<1> QED BY <1>1, <1>5, <1>6, <1>8, <1>10, <1>14, <1>15, <1>16


-----------------------------------------------------------------------------
(* The answers of a manager's task.                                        *)

(* What a manager finds at the head of its inbox: the unanswered request   *)
(* of the client its pipe belongs to.  A hello comes to a first manager.   *)
LEMMA RequestHeld ==
    ASSUME ConvInv, NEW m \in Managers, HasRequest(m), NEW k, k = Head(mgr[m].inbox)
    PROVE  \E c \in Clients :
              /\ k \in Contexts /\ c = Owner(PipeOf(m)) /\ PipeOf(m) = Pipe(c)
              /\ RequestOk(c, req[c].key, ctx[k].msg)
              /\ PendingOn(k, c) /\ InSync(c, ctx[k].msg.id)
              /\ ctx[k].msg.id = 0 => m = First(c)
<1> USE DEF ConvInv, Books
<1>1. /\ mgr[m].pc = "ready" /\ mgr[m].inbox # <<>> /\ k # Gone /\ RecordOk(mgr[m])
  BY Domains DEF HasRequest, HasItem
<1>2. k \in Contexts /\ k \in Range(mgr[m].inbox)
  BY <1>1, InboxTake DEF RecordOk
<1>3. /\ ctx[k].st = "wait" /\ PipeOf(m) = ctx[k].msg.pipe
      /\ \A n \in Managers : k \in HeldIn(mgr[n]) => n = m
  BY <1>2 DEF SlotInv, HeldIn
<1>4. PICK c \in Clients : RequestOk(c, req[c].key, ctx[k].msg) /\ ctx[k].msg.pipe = Pipe(c)
  BY <1>2, <1>3, RequestOf
<1>5. c = Owner(PipeOf(m)) /\ PipeOf(m) = Pipe(c)
  BY <1>3, <1>4, Names
<1>6. PendingOn(k, c)
  BY <1>2, <1>4 DEF PendingOn, Pending
<1>7. /\ InSync(c, ctx[k].msg.id)
      /\ ctx[k].msg.id = 0 => mgr[First(c)].pc = "unborn" \/ k \in Range(mgr[First(c)].inbox)
  BY <1>2, <1>6 DEF ExchangeInv, Exchange, PendingOk
<1>8. mgr[First(c)].pc # "unborn"
  BY <1>1, <1>5 DEF LinkInv, First
<1>9. ctx[k].msg.id = 0 => m = First(c)
  BY <1>3, <1>7, <1>8, Names DEF HeldIn
<1> QED BY <1>2, <1>4, <1>5, <1>6, <1>7, <1>9

\* Manager m has taken the request and is sending the answer.
Answers(m, app) ==
    /\ OthersSame(m)
    /\ DOMAIN mgr'[m] = Fields
    /\ mgr'[m].pc = "send" /\ mgr'[m].running = mgr[m].running
    /\ mgr'[m].inbox = Tail(mgr[m].inbox)
    /\ mgr'[m].cur = NoCtx /\ mgr'[m].snd = Head(mgr[m].inbox)
    /\ mgr'[m].app = app

\* No conversation opens a socket in the step, or starts to answer for one.
SubsKept ==
    \A m \in Managers :
        /\ mgr'[m].pc \in Alive \cup {"unborn"} =>
              mgr[m].pc \in Alive \cup {"unborn"} /\ mgr'[m].app.subs = mgr[m].app.subs
        /\ mgr'[m].pc = "send" /\ mgr'[m].app.phase = "loop" =>
              mgr[m].pc = "send" /\ mgr[m].app.phase = "loop"

(* An answer of the handshake opens none.                                  *)
LEMMA AnswersSubs ==
    ASSUME NEW m \in Managers, mgr[m].pc = "ready", NEW app, Answers(m, app),
           app.subs = mgr[m].app.subs, app.phase # "loop"
    PROVE  SubsKept
BY DEF Answers, OthersSame, SubsKept, Alive

(* Nor does the end of the TaskGroup.                                      *)
LEMMA EndsSubs ==
    ASSUME TaskGroupEnds
    PROVE  SubsKept /\ up' = FALSE /\ \A m \in Managers : mgr'[m].pc \in {"unborn", "over"}
BY DEF TaskGroupEnds, Over, SubsKept, Alive

(* A first manager answers the request it was in step with.                *)
LEMMA AnswerStep ==
    ASSUME ConvInv, NEW c \in Clients, NEW m, m = First(c), HasRequest(m),
           NEW k, k = Head(mgr[m].inbox), NEW app, Answers(m, app),
           DOMAIN app = {"phase", "box", "peer", "subs"}, app.subs \in Nat,
           app.phase \in {"confirm", "ack", "end", "loop"}, app.phase # "loop" => app.subs = 0,
           Answered(app) = Answered(mgr[m].app) + 1, app.peer = c, app.box = {c, m},
           app.phase \in {"ack", "loop"} => req[c].key \in Authorized,
           NEW body, Reply(k, body), Open(Pipe(c)) => ReplyOk(c, body),
           UNCHANGED <<link, wire, reported, ctx, clients, up, req, down>>
    PROVE  ConvInv'
<1> USE DEF ConvInv, Books
<1>1. /\ m \in Managers /\ PipeOf(m) = Pipe(c) /\ Pipe(c) \in Pipes
      /\ mgr[m].pc = "ready" /\ mgr[m].inbox # <<>> /\ k # Gone /\ RecordOk(mgr[m])
  BY Names, Domains DEF HasRequest, HasItem
<1>2. /\ k \in Contexts /\ RequestOk(c, req[c].key, ctx[k].msg)
      /\ PendingOn(k, c) /\ InSync(c, ctx[k].msg.id)
  BY <1>1, RequestHeld, PipesDiffer
<1>3. /\ Tail(mgr[m].inbox) \in {<<>>, <<Gone>>}
      /\ Range(mgr[m].inbox) = {k} \cup Range(Tail(mgr[m].inbox))
  BY <1>1, InboxTake DEF RecordOk
<1>4. /\ \A l \in Contexts : l \notin Range(mgr'[m].inbox)
      /\ Gone \in Range(mgr'[m].inbox) => Gone \in Range(mgr[m].inbox)
  <2>1. mgr'[m].inbox \in {<<>>, <<Gone>>}
    BY <1>3 DEF Answers
  <2>2. Range(mgr'[m].inbox) \subseteq {Gone} /\ Gone \notin Contexts
    BY <2>1, RangeEmpty, RangeOne DEF Gone
  <2>3. Range(mgr'[m].inbox) \subseteq Range(mgr[m].inbox)
    BY <1>3 DEF Answers
  <2> QED BY <2>2, <2>3
<1>5. RecordOk(mgr'[m])
  <2>1. AppOk(mgr'[m])
    BY DEF AppOk, Answers
  <2>2. InboxForm(mgr'[m].inbox)
    BY <1>3 DEF InboxForm, Answers
  <2> QED BY <1>1, <1>2, <1>4, <2>1, <2>2 DEF RecordOk, Answers, Alive, NoCtx
<1>6. CtxReleased({}) /\ LinksShut /\ KeysSame /\ OthersSame(m)
  BY Domains, NothingClosed DEF CtxReleased, KeysSame, Answers
<1>7. \A l \in Contexts : l \in HeldIn(mgr'[m]) => l \in HeldIn(mgr[m])
  BY <1>3, <1>4 DEF HeldIn, Answers
<1>8. mgr'[m].pc = "send"
  BY DEF Answers
<1>9. Books'
  BY <1>1, <1>4, <1>5, <1>6, <1>7, <1>8, BooksTask DEF Alive
<1>10. \A d \in Clients : PendingQuiet(d)
  <2>1. \A l \in Contexts : l \in Range(mgr'[m].inbox) => l \in Range(mgr[m].inbox) /\ l \notin {}
    BY <1>4
  <2> QED BY <1>1, <1>6, <2>1, PendingTask
<1>11. \A l \in Contexts : ~PendingOn(l, c)'
  <2> SUFFICES ASSUME NEW l \in Contexts, PendingOn(l, c)' PROVE FALSE
    OBVIOUS
  <2>1. PendingOn(l, c)
    BY <1>10 DEF PendingQuiet
  <2>2. l = k
    BY <1>2, <2>1 DEF ExchangeInv, Exchange, PendingOk
  <2>3. k \in HeldIn(mgr[m]) /\ ctx[k].st = "wait" /\ \A n \in Managers : k \in HeldIn(mgr[n]) => n = m
    BY <1>1, <1>2, <1>3 DEF SlotInv, HeldIn
  <2>4. PICK n \in Managers : k \in Range(mgr'[n].inbox)
    BY <2>2, <2>3 DEF PendingOn, Pending
  <2>5. n # m
    BY <1>2, <1>4, <2>4
  <2>6. k \in HeldIn(mgr[n])
    BY <1>6, <2>4, <2>5 DEF OthersSame, HeldIn
  <2> QED BY <2>3, <2>5, <2>6
<1>12. \A p \in Pipes \ {Pipe(c)} : replies'[p] = replies[p]
  BY <1>2, Domains DEF Reply, RequestOk
<1>13. DOMAIN replies' = Pipes
  BY Domains DEF Reply
<1>14. ASSUME NEW d \in Clients, d # c PROVE Exchange(d)'
  <2>1. First(d) \in Managers \ {m} /\ Pipe(d) \in Pipes \ {Pipe(c)}
    BY <1>1, <1>14, Names, PipesDiffer
  <2>2. mgr'[First(d)] = mgr[First(d)]
    BY <2>1, <1>6 DEF OthersSame
  <2>3. ManagerQuiet(d) /\ PendingQuiet(d)
    BY <2>2, <1>10 DEF ManagerQuiet
  <2> QED BY <2>1, <2>3, <1>12, ExchangeQuiet DEF ExchangeInv, Dropped
<1>15. Exchange(c)'
  <2>1. wire[Pipe(c)] = <<>> /\ replies[Pipe(c)] = <<>>
    BY <1>2 DEF ExchangeInv, Exchange, WireOk, RepliesOk
  <2>2. ReqOk(c)'
    BY <1>1, <1>8 DEF ExchangeInv, Exchange, ReqOk, Open
  <2>3. WireOk(c)' /\ PendingOk(c)'
    BY <1>11, <2>1 DEF WireOk, PendingOk
  <2>4. CASE ~Open(Pipe(c))
    <3>1. replies'[Pipe(c)] = <<>>
      BY <1>2, <2>1, <2>4 DEF Reply, RequestOk
    <3>2. RepliesOk(c)'
      BY <3>1 DEF RepliesOk
    <3>3. req[c].pc # "ready"
      BY <1>2 DEF InSync, Waiting
    <3> QED BY <2>2, <2>3, <3>2, <3>3 DEF Exchange
  <2>5. CASE Open(Pipe(c))
    <3>1. PICK r : r = [id |-> ctx[k].msg.id, body |-> body]
      OBVIOUS
    <3>2. replies'[Pipe(c)] = <<r>>
      <4>1. ctx[k].msg.pipe = Pipe(c) /\ Pipe(c) \in Pipes /\ DOMAIN replies = Pipes
        BY <1>1, <1>2, Domains, Names DEF RequestOk
      <4>2. replies' = [replies EXCEPT ![Pipe(c)] = Append(replies[Pipe(c)], r)]
        BY <2>5, <3>1, <4>1 DEF Reply
      <4>3. replies[Pipe(c)] = <<>>
        BY <2>1
      <4> QED BY <4>1, <4>2, <4>3, PutFirst
    <3>3. req[c].pc \in Waiting /\ ctx[k].msg.id = Sent(req[c]) - 1
      BY <1>2, <2>5 DEF ExchangeInv, Exchange, ReqOk, InSync
    <3>4. ctx[k].msg.id = Answered(mgr[m].app)
      BY <1>1, <1>2 DEF InSync, Alive
    <3>5. Sent(req[c]) \in Nat
      BY DEF Sent, ExchangeInv, Exchange, ReqOk
    <3>6. Caught(c)'
      BY <3>3, <3>4, <3>5, <1>8 DEF Caught, Answers
    <3>7. ReplyOk(c, body)'
      BY <2>5 DEF ReplyOk
    <3>8. RepliesOk(c)'
      <4>1. Head(replies'[Pipe(c)]) = r /\ r.body = body
        BY <3>1, <3>2, TakeOne
      <4> QED BY <1>8, <1>11, <2>1, <3>2, <3>6, <3>7, <4>1 DEF RepliesOk
    <3>9. req[c].pc # "ready"
      BY <3>3 DEF Waiting
    <3> QED BY <2>2, <2>3, <3>8, <3>9 DEF Exchange
  <2> QED BY <2>4, <2>5
<1>16. ExchangeInv'
  BY <1>13, <1>14, <1>15 DEF ExchangeInv
<1>17. AppInv'
  <2> SUFFICES ASSUME NEW n \in Managers, mgr'[n].pc \in Alive, mgr'[n].app.phase # "hello"
               PROVE  /\ n = First(Owner(PipeOf(n)))
                      /\ mgr'[n].app.peer = Owner(PipeOf(n))
                      /\ mgr'[n].app.box = {Owner(PipeOf(n)), n}
                      /\ mgr'[n].app.phase \in {"ack", "loop"} => req'[Owner(PipeOf(n))].key \in Authorized
    BY DEF AppInv, PipeOf, Owner
  <2>1. CASE n = m
    <3>1. Owner(PipeOf(m)) = c /\ mgr'[m].app = app
      BY <1>1, Names DEF Answers
    <3> QED BY <2>1, <3>1
  <2>2. CASE n # m
    <3>1. mgr'[n] = mgr[n]
      BY <1>6, <2>2 DEF OthersSame
    <3> QED BY <3>1 DEF AppInv
  <2> QED BY <2>1, <2>2
<1> QED BY <1>9, <1>16, <1>17 DEF DownInv


(* The record of a manager that has received and is sending.               *)
LEMMA SendingFacts ==
    ASSUME ConvInv, NEW m \in Managers, NEW app,
           NEW r, DOMAIN r = Fields,
           r.pc = Sending(Received(mgr[m])).pc, r.running = Sending(Received(mgr[m])).running,
           r.inbox = Sending(Received(mgr[m])).inbox, r.cur = Sending(Received(mgr[m])).cur,
           r.snd = Sending(Received(mgr[m])).snd, r.app = app,
           mgr' = [mgr EXCEPT ![m] = r]
    PROVE  Answers(m, app)
<1>1. DOMAIN mgr[m] = Fields /\ DOMAIN mgr = Managers
  BY Domains DEF RecordOk
<1>2. /\ Sending(Received(mgr[m])).pc = "send"
      /\ Sending(Received(mgr[m])).running = mgr[m].running
      /\ Sending(Received(mgr[m])).inbox = Tail(mgr[m].inbox)
      /\ Sending(Received(mgr[m])).cur = NoCtx
      /\ Sending(Received(mgr[m])).snd = Head(mgr[m].inbox)
  BY <1>1 DEF Sending, Received, Fields
<1>3. mgr'[m] = r /\ OthersSame(m)
  BY <1>1 DEF OthersSame
<1> QED BY <1>2, <1>3 DEF Answers

(* ClientHello, or what a late request finds instead.                      *)
LEMMA HelloStep ==
    ASSUME ConvInv, NEW m \in Managers, Execute_hello(m)
    PROVE  ConvInv' /\ SubsKept
<1> DEFINE k == Head(mgr[m].inbox)
           hello == ctx[k].msg.body
           app == [mgr[m].app EXCEPT !.phase = "confirm", !.peer = hello.material,
                                     !.box = make_session_box(m, hello.material)]
<1>0. UNCHANGED req /\ HasRequest(m) /\ mgr[m].app.phase = "hello" /\ mgr[m].pc = "ready"
      /\ RecordOk(mgr[m]) /\ up
  BY Domains DEF Execute_hello, HasRequest, HasItem
<1>1. PICK c \in Clients :
         /\ k \in Contexts /\ c = Owner(PipeOf(m)) /\ PipeOf(m) = Pipe(c)
         /\ RequestOk(c, req[c].key, ctx[k].msg)
         /\ PendingOn(k, c) /\ InSync(c, ctx[k].msg.id)
         /\ ctx[k].msg.id = 0 => m = First(c)
  BY <1>0, RequestHeld
<1>2. /\ ctx[k].msg.id \in Nat /\ hello = BodyOf(c, req[c].key, ctx[k].msg.id)
      /\ ctx[k].msg.pipe = Pipe(c)
  BY <1>1 DEF RequestOk
<1>3. CASE hello.type = "hello"
  <2>1. ctx[k].msg.id = 0 /\ hello.material = c
    <3>1. ctx[k].msg.id = 0
      <4> SUFFICES ASSUME ctx[k].msg.id # 0 PROVE FALSE
        OBVIOUS
      <4>1. PICK box, body : hello = Encrypt(box, body)
        BY <1>2 DEF BodyOf
      <4>2. hello.type = "cipher"
        BY <4>1 DEF Encrypt
      <4> QED BY <1>3, <4>2
    <3>2. hello = make_client_hello(c)
      BY <1>2, <3>1 DEF BodyOf
    <3> QED BY <3>1, <3>2 DEF make_client_hello
  <2>2. m = First(c)
    BY <1>1, <2>1
  <2>3. /\ Reply(k, make_server_auth(hello.material, m, ServerKey))
        /\ mgr' = [mgr EXCEPT ![m] = [Sending(Received(mgr[m])) EXCEPT
                     !.app.phase = "confirm", !.app.peer = hello.material,
                     !.app.box = make_session_box(m, hello.material)]]
        /\ UNCHANGED <<link, wire, reported, ctx, clients, up, req, down>>
    BY <1>3 DEF Execute_hello
  <2>4. /\ DOMAIN mgr[m].app = {"phase", "box", "peer", "subs"} /\ mgr[m].app.subs = 0
        /\ DOMAIN mgr[m] = Fields
    BY <1>0 DEF RecordOk, AppOk, Alive
  <2>5. /\ DOMAIN app = {"phase", "box", "peer", "subs"} /\ app.subs = 0
        /\ app.phase = "confirm" /\ app.peer = c /\ app.box = {c, m}
    BY <2>1, <2>4 DEF make_session_box
  <2>6. Answers(m, app)
    <3>1. DOMAIN Sending(Received(mgr[m])) = Fields /\ Sending(Received(mgr[m])).app = mgr[m].app
      BY <2>4 DEF Sending, Received, Fields
    <3>2. PICK s : s = Sending(Received(mgr[m]))
      OBVIOUS
    <3>3. PICK r : r = [s EXCEPT
                     !.app.phase = "confirm", !.app.peer = hello.material,
                     !.app.box = make_session_box(m, hello.material)]
      OBVIOUS
    <3>4. /\ DOMAIN r = Fields /\ r.pc = s.pc /\ r.running = s.running /\ r.inbox = s.inbox
          /\ r.cur = s.cur /\ r.snd = s.snd /\ r.app = app
      BY <2>4, <3>1, <3>2, <3>3 DEF Fields
    <3>5. mgr' = [mgr EXCEPT ![m] = r]
      BY <2>3, <3>2, <3>3
    <3> HIDE DEF app
    <3> QED BY <3>2, <3>4, <3>5, SendingFacts
  <2>7. Answered(app) = Answered(mgr[m].app) + 1
    BY <1>0, <2>5 DEF Answered
  <2>8. Open(Pipe(c)) => ReplyOk(c, make_server_auth(hello.material, m, ServerKey))
    <3> SUFFICES ASSUME Open(Pipe(c)) PROVE ReplyOk(c, make_server_auth(hello.material, m, ServerKey))
      OBVIOUS
    <3>1. req[c].pc \in Waiting /\ 0 = Sent(req[c]) - 1 /\ req[c].subs \in Nat
      BY <1>1, <2>1 DEF ConvInv, ExchangeInv, Exchange, ReqOk, InSync
    <3>2. req[c].pc = "auth"
      BY <3>1 DEF Sent, Waiting
    <3> QED BY <2>1, <2>2, <3>1, <3>2 DEF ReplyOk
  <2> HIDE DEF app, k, hello
  <2>9. ConvInv'
    BY <1>0, <2>2, <2>3, <2>5, <2>6, <2>7, <2>8, AnswerStep DEF k
  <2> QED BY <1>0, <2>4, <2>5, <2>6, <2>9, AnswersSubs
<1>4. CASE hello.type # "hello"
  <2>1. TaskGroupEnds /\ down' = IF Open(PipeOf(m)) THEN "malformed" ELSE "late"
    BY <1>4 DEF Execute_hello, Raise
  <2>2. ~Open(PipeOf(m))
    <3> SUFFICES ASSUME Open(PipeOf(m)) PROVE FALSE
      OBVIOUS
    <3>1. First(c) \in Managers /\ PipeOf(First(c)) = PipeOf(m) /\ First(c) = <<PipeOf(m), 1>>
      BY <1>1, Names DEF First
    <3>2. mgr[First(c)].pc \notin {"unborn", "done", "over"} /\ PipeOf(m) \notin reported
      BY <1>0, <3>1 DEF ConvInv, Books, LinkInv
    <3>3. mgr[First(c)].pc \in Alive /\ clients[PipeOf(m)] = First(c)
      BY <3>1, <3>2, Domains DEF ConvInv, Books, KnownInv, RecordOk
    <3>4. clients[PipeOf(m)] = m
      BY <1>0, <3>2 DEF ConvInv, Books, KnownInv
    <3>5. ctx[k].msg.id = 0
      BY <1>0, <1>1, <3>3, <3>4 DEF InSync, Answered
    <3> QED BY <1>2, <1>4, <3>5 DEF BodyOf, make_client_hello
  <2> QED BY <1>0, <2>1, <2>2, EndsStep, EndsSubs
<1> QED BY <1>3, <1>4

(* A request in step with a manager past its hello.                        *)
LEMMA InStep ==
    ASSUME ConvInv, NEW m \in Managers, HasRequest(m), mgr[m].app.phase # "hello",
           NEW k, k = Head(mgr[m].inbox)
    PROVE  \E c \in Clients :
              /\ k \in Contexts /\ c = Owner(PipeOf(m)) /\ m = First(c) /\ PipeOf(m) = Pipe(c)
              /\ mgr[m].app.peer = c /\ mgr[m].app.box = {c, m}
              /\ ctx[k].msg.body = BodyOf(c, req[c].key, Answered(mgr[m].app))
              /\ Answered(mgr[m].app) \in Nat /\ Answered(mgr[m].app) <= Len(Topics[c]) + 1
              /\ Open(Pipe(c)) => req[c].pc \in Waiting /\ Answered(mgr[m].app) = Sent(req[c]) - 1
              /\ req[c].subs \in Nat
              /\ mgr[m].app.phase \in {"ack", "loop"} => req[c].key \in Authorized
<1>1. mgr[m].pc = "ready" /\ mgr[m].pc \in Alive
  BY DEF HasRequest, HasItem, Alive
<1>2. PICK c \in Clients :
         /\ k \in Contexts /\ c = Owner(PipeOf(m)) /\ PipeOf(m) = Pipe(c)
         /\ RequestOk(c, req[c].key, ctx[k].msg)
         /\ PendingOn(k, c) /\ InSync(c, ctx[k].msg.id)
  BY RequestHeld
<1>3. /\ m = First(c) /\ mgr[m].app.peer = c /\ mgr[m].app.box = {c, m}
      /\ mgr[m].app.phase \in {"ack", "loop"} => req[c].key \in Authorized
  BY <1>1, <1>2 DEF ConvInv, AppInv
<1>4. ctx[k].msg.id = Answered(mgr[m].app)
  BY <1>1, <1>2, <1>3 DEF InSync
<1>5. /\ ctx[k].msg.body = BodyOf(c, req[c].key, Answered(mgr[m].app))
      /\ Answered(mgr[m].app) \in Nat /\ Answered(mgr[m].app) <= Len(Topics[c]) + 1
  BY <1>2, <1>4 DEF RequestOk
<1>6. ReqOk(c)
  BY DEF ConvInv, ExchangeInv, Exchange
<1>7. Open(Pipe(c)) => req[c].pc \in Waiting /\ Answered(mgr[m].app) = Sent(req[c]) - 1
  BY <1>2, <1>4, <1>6 DEF ReqOk, InSync
<1>8. req[c].subs \in Nat
  BY <1>6 DEF ReqOk
<1> QED BY <1>2, <1>3, <1>5, <1>7, <1>8


(* ClientConfirm: it decrypts, it parses, and its signature is checked.    *)
LEMMA ConfirmStep ==
    ASSUME ConvInv, NEW m \in Managers, Execute_confirm(m)
    PROVE  ConvInv' /\ SubsKept
<1> DEFINE k == Head(mgr[m].inbox)
           raw == ctx[k].msg.body
           ok == verify_client_confirm(raw.body, Authorized, m, mgr[m].app.peer)
           app == [mgr[m].app EXCEPT !.phase = IF ok THEN "ack" ELSE "end"]
           body == IF ok THEN Ack ELSE ErrorResponse
<1>0. UNCHANGED req /\ HasRequest(m) /\ mgr[m].app.phase = "confirm" /\ mgr[m].pc = "ready"
      /\ RecordOk(mgr[m]) /\ up
  BY Domains DEF Execute_confirm, HasRequest, HasItem
<1>1. PICK c \in Clients :
         /\ m = First(c) /\ PipeOf(m) = Pipe(c)
         /\ mgr[m].app.peer = c /\ mgr[m].app.box = {c, m}
         /\ raw = BodyOf(c, req[c].key, Answered(mgr[m].app))
         /\ Open(Pipe(c)) => req[c].pc \in Waiting /\ Answered(mgr[m].app) = Sent(req[c]) - 1
         /\ req[c].subs \in Nat
  BY <1>0, InStep
<1>2. Answered(mgr[m].app) = 1
  BY <1>0 DEF Answered
<1>3. raw = Encrypt({c, m}, make_client_confirm(m, c, req[c].key))
  BY <1>1, <1>2 DEF BodyOf
<1>4. Decrypts(mgr[m].app.box, raw) /\ raw.body = make_client_confirm(m, c, req[c].key)
  BY <1>1, <1>3 DEF Encrypt, Decrypts
<1>5. raw.body.type = "confirm" /\ raw.body.signer = req[c].key
  BY <1>4 DEF make_client_confirm
<1>6. ok => req[c].key \in Authorized
  BY <1>5 DEF verify_client_confirm
<1>7. /\ Reply(k, body)
      /\ mgr' = [mgr EXCEPT ![m] = [Sending(Received(mgr[m])) EXCEPT
                                       !.app.phase = IF ok THEN "ack" ELSE "end"]]
      /\ UNCHANGED <<link, wire, reported, ctx, clients, up, req, down>>
  BY <1>4, <1>5 DEF Execute_confirm
<1>8. /\ DOMAIN mgr[m].app = {"phase", "box", "peer", "subs"} /\ mgr[m].app.subs = 0
      /\ DOMAIN mgr[m] = Fields
  BY <1>0 DEF RecordOk, AppOk, Alive
<1>9. /\ DOMAIN app = {"phase", "box", "peer", "subs"} /\ app.subs = 0
      /\ app.phase = (IF ok THEN "ack" ELSE "end") /\ app.peer = c /\ app.box = {c, m}
  BY <1>1, <1>8
<1>10. Answers(m, app)
  <2>1. DOMAIN Sending(Received(mgr[m])) = Fields /\ Sending(Received(mgr[m])).app = mgr[m].app
    BY <1>8 DEF Sending, Received, Fields
  <2>2. PICK s : s = Sending(Received(mgr[m]))
    OBVIOUS
  <2>3. PICK ph : ph = IF ok THEN "ack" ELSE "end"
    OBVIOUS
  <2>4. PICK r : r = [s EXCEPT !.app.phase = ph]
    OBVIOUS
  <2>5. app = [mgr[m].app EXCEPT !.phase = ph]
    BY <2>3
  <2>6. mgr' = [mgr EXCEPT ![m] = r]
    BY <1>7, <2>2, <2>3, <2>4
  <2> HIDE DEF app
  <2>7. /\ DOMAIN r = Fields /\ r.pc = s.pc /\ r.running = s.running /\ r.inbox = s.inbox
        /\ r.cur = s.cur /\ r.snd = s.snd /\ r.app = app
    BY <1>8, <2>1, <2>2, <2>4, <2>5 DEF Fields
  <2> QED BY <2>2, <2>6, <2>7, SendingFacts
<1>11. Answered(app) = Answered(mgr[m].app) + 1
  BY <1>2, <1>9 DEF Answered
<1>12. Open(Pipe(c)) => ReplyOk(c, body)
  <2> SUFFICES ASSUME Open(Pipe(c)) PROVE ReplyOk(c, body)
    OBVIOUS
  <2>1. req[c].pc \in Waiting /\ 1 = Sent(req[c]) - 1 /\ req[c].subs \in Nat
    BY <1>1, <1>2
  <2>2. req[c].pc = "ack"
    BY <2>1 DEF Sent, Waiting
  <2> QED BY <2>1, <2>2 DEF ReplyOk
<1>13. app.phase \in {"confirm", "ack", "end", "loop"} /\ (app.phase \in {"ack", "loop"} => req[c].key \in Authorized)
       /\ app.phase # "loop"
  BY <1>6, <1>9
<1> HIDE DEF app, k, body, ok, raw
<1>14. ConvInv'
  BY <1>0, <1>1, <1>7, <1>9, <1>10, <1>11, <1>12, <1>13, AnswerStep DEF k
<1> QED BY <1>0, <1>8, <1>9, <1>10, <1>13, <1>14, AnswersSubs

(* The handshake times out.                                                *)
LEMMA TimeoutStep ==
    ASSUME ConvInv, NEW m \in Managers, Execute_timeout(m)
    PROVE  ConvInv'
BY EndsStep DEF Execute_timeout, Raise

(* The answer of the handshake is sent.                                    *)
LEMMA SentStep ==
    ASSUME ConvInv, NEW m \in Managers, Execute_sent(m)
    PROVE  ConvInv'
<1>1. PICK over \in BOOLEAN : over = (mgr[m].app.phase = "end")
  OBVIOUS
<1> QED BY <1>1, SendDoneStep DEF Execute_sent

(* A request of the conversation decrypts, parses, and names the topic the *)
(* manager has come to.                                                    *)
LEMMA RequestInStep ==
    ASSUME ConvInv, NEW m \in Managers, ConversationReceives(m)
    PROVE  \E c \in Clients :
              /\ m = First(c) /\ PipeOf(m) = Pipe(c) /\ c = Owner(PipeOf(m))
              /\ mgr[m].app.peer = c /\ mgr[m].app.box = {c, m} /\ req[c].key \in Authorized
              /\ Decrypts(mgr[m].app.box, ConversationBody(m))
              /\ ConversationBody(m).body = SubscribeRequest(Topics[c][mgr[m].app.subs + 1])
              /\ mgr[m].app.subs \in Nat /\ mgr[m].app.subs < Len(Topics[c])
              /\ Answered(mgr[m].app) = mgr[m].app.subs + 2
              /\ Open(Pipe(c)) => req[c].pc = "response" /\ req[c].subs = mgr[m].app.subs
<1>0. /\ mgr[m].app.phase \in {"ack", "loop"} /\ HasRequest(m) /\ mgr[m].pc = "ready"
      /\ RecordOk(mgr[m])
  BY Domains DEF ConversationReceives, InConversation
<1>1. PICK k : k = Head(mgr[m].inbox)
  OBVIOUS
<1>2. PICK c \in Clients :
         /\ m = First(c) /\ PipeOf(m) = Pipe(c) /\ c = Owner(PipeOf(m))
         /\ mgr[m].app.peer = c /\ mgr[m].app.box = {c, m}
         /\ ctx[k].msg.body = BodyOf(c, req[c].key, Answered(mgr[m].app))
         /\ Answered(mgr[m].app) \in Nat /\ Answered(mgr[m].app) <= Len(Topics[c]) + 1
         /\ Open(Pipe(c)) => req[c].pc \in Waiting /\ Answered(mgr[m].app) = Sent(req[c]) - 1
         /\ req[c].subs \in Nat
         /\ mgr[m].app.phase \in {"ack", "loop"} => req[c].key \in Authorized
  BY <1>0, <1>1, InStep
<1>3. mgr[m].app.subs \in Nat /\ Answered(mgr[m].app) = mgr[m].app.subs + 2
  BY <1>0 DEF RecordOk, AppOk, Answered, Alive
<1>4. Len(Topics[c]) \in Nat
  BY SubscriptionAssumption
<1>5. mgr[m].app.subs < Len(Topics[c])
  BY <1>2, <1>3, <1>4
<1>6. ConversationBody(m) = Encrypt({c, m}, SubscribeRequest(Topics[c][mgr[m].app.subs + 1]))
  <2>1. (mgr[m].app.subs + 2) - 1 = mgr[m].app.subs + 1 /\ mgr[m].app.subs + 2 # 0 /\ mgr[m].app.subs + 2 # 1
    BY <1>3
  <2> QED BY <1>1, <1>2, <1>3, <2>1 DEF BodyOf, ConversationBody
<1>7. /\ Decrypts(mgr[m].app.box, ConversationBody(m))
      /\ ConversationBody(m).body = SubscribeRequest(Topics[c][mgr[m].app.subs + 1])
  <2>1. PICK b : b = SubscribeRequest(Topics[c][mgr[m].app.subs + 1])
    OBVIOUS
  <2>2. ConversationBody(m) = Encrypt({c, m}, b)
    BY <1>6, <2>1
  <2>3. Decrypts({c, m}, Encrypt({c, m}, b)) /\ Encrypt({c, m}, b).body = b
    BY DEF Encrypt, Decrypts
  <2> QED BY <1>2, <2>1, <2>2, <2>3
<1>8. Open(Pipe(c)) => req[c].pc = "response" /\ req[c].subs = mgr[m].app.subs
  <2> SUFFICES ASSUME Open(Pipe(c)) PROVE req[c].pc = "response" /\ req[c].subs = mgr[m].app.subs
    OBVIOUS
  <2>1. req[c].pc \in Waiting /\ mgr[m].app.subs + 2 = Sent(req[c]) - 1 /\ req[c].subs \in Nat
    BY <1>2, <1>3
  <2> QED BY <1>3, <2>1 DEF Sent, Waiting
<1> QED BY <1>0, <1>2, <1>3, <1>5, <1>7, <1>8

(* So the conversation never raises.                                       *)
LEMMA NeverRaises ==
    ASSUME ConvInv, NEW m \in Managers
    PROVE  ~ConversationRaises(m)
<1> SUFFICES ASSUME ConversationRaises(m) PROVE FALSE
  OBVIOUS
<1>1. /\ Decrypts(mgr[m].app.box, ConversationBody(m))
      /\ \E t : ConversationBody(m).body = SubscribeRequest(t)
  <2>1. ConversationReceives(m)
    BY DEF ConversationRaises
  <2>2. PICK c \in Clients : /\ Decrypts(mgr[m].app.box, ConversationBody(m))
                             /\ ConversationBody(m).body = SubscribeRequest(Topics[c][mgr[m].app.subs + 1])
    BY <2>1, RequestInStep
  <2> QED BY <2>2
<1> QED BY <1>1 DEF ConversationRaises, SubscribeRequest

(* The answer of the conversation.                                         *)
LEMMA ConversationAnswers ==
    ASSUME ConvInv, NEW m \in Managers, Conversation(m)
    PROVE  /\ ConvInv' /\ Answers(m, mgr'[m].app)
           /\ mgr'[m].app.subs = mgr[m].app.subs + 1
           /\ mgr'[m].app.phase = "loop"
<1> DEFINE k == Head(mgr[m].inbox)
           d == <<m, mgr[m].app.subs + 1>>
           app == [mgr[m].app EXCEPT !.phase = "loop", !.subs = mgr[m].app.subs + 1]
           body == Encrypt(mgr[m].app.box, SubscribeResponse(d))
<1>0. ConversationReceives(m) /\ HasRequest(m) /\ mgr[m].pc = "ready" /\ RecordOk(mgr[m])
  BY Domains DEF Conversation, ConversationReceives
<1>1. PICK c \in Clients :
         /\ m = First(c) /\ PipeOf(m) = Pipe(c)
         /\ mgr[m].app.peer = c /\ mgr[m].app.box = {c, m} /\ req[c].key \in Authorized
         /\ mgr[m].app.subs \in Nat
         /\ Answered(mgr[m].app) = mgr[m].app.subs + 2
         /\ Open(Pipe(c)) => req[c].pc = "response" /\ req[c].subs = mgr[m].app.subs
  BY <1>0, RequestInStep
<1>2. /\ Reply(k, body)
      /\ mgr' = [mgr EXCEPT ![m] = [Sending(Received(mgr[m])) EXCEPT
                                       !.app.phase = "loop", !.app.subs = d[2]]]
      /\ UNCHANGED <<link, wire, reported, ctx, clients, up, req, down>>
  <2>1. Reply(k, body)
    BY DEF Conversation, ConversationReply, Response_for
  <2>2. UNCHANGED <<link, wire, reported, ctx, clients, up, req, down>>
    BY DEF Conversation
  <2>3. mgr' = [mgr EXCEPT ![m] = [Sending(Received(mgr[m])) EXCEPT
                                       !.app.phase = "loop", !.app.subs = d[2]]]
    BY DEF Conversation
  <2> QED BY <2>1, <2>2, <2>3
<1>3. /\ DOMAIN mgr[m].app = {"phase", "box", "peer", "subs"} /\ DOMAIN mgr[m] = Fields
  BY <1>0 DEF RecordOk, AppOk, Alive
<1>4. /\ DOMAIN app = {"phase", "box", "peer", "subs"} /\ app.subs = mgr[m].app.subs + 1
      /\ app.phase = "loop" /\ app.peer = c /\ app.box = {c, m}
  BY <1>1, <1>3
<1>5. Answers(m, app)
  <2>1. DOMAIN Sending(Received(mgr[m])) = Fields /\ Sending(Received(mgr[m])).app = mgr[m].app
    BY <1>3 DEF Sending, Received, Fields
  <2>2. PICK s : s = Sending(Received(mgr[m]))
    OBVIOUS
  <2>3. PICK r : r = [s EXCEPT !.app.phase = "loop", !.app.subs = d[2]]
    OBVIOUS
  <2>4. mgr' = [mgr EXCEPT ![m] = r]
    BY <1>2, <2>2, <2>3
  <2>5. /\ DOMAIN r = Fields /\ r.pc = s.pc /\ r.running = s.running /\ r.inbox = s.inbox
        /\ r.cur = s.cur /\ r.snd = s.snd /\ r.app = app
    BY <1>3, <2>1, <2>2, <2>3 DEF Fields
  <2> HIDE DEF app
  <2> QED BY <2>2, <2>4, <2>5, SendingFacts
<1>6. Answered(app) = Answered(mgr[m].app) + 1
  BY <1>1, <1>4 DEF Answered
<1>7. Open(Pipe(c)) => ReplyOk(c, body)
  <2> SUFFICES ASSUME Open(Pipe(c)) PROVE ReplyOk(c, body)
    OBVIOUS
  <2>1. body = Encrypt({c, First(c)}, SubscribeResponse(<<First(c), req[c].subs + 1>>))
    BY <1>1
  <2>2. req[c].pc = "response"
    BY <1>1
  <2> HIDE DEF body
  <2> QED BY <2>1, <2>2 DEF ReplyOk, Waiting
<1>8. mgr'[m].app = app
  BY <1>5 DEF Answers
<1> HIDE DEF app, k, body
<1>9. ConvInv'
  BY <1>0, <1>1, <1>2, <1>4, <1>5, <1>6, <1>7, AnswerStep DEF k
<1> QED BY <1>4, <1>5, <1>8, <1>9

(* The answer of the conversation is sent.                                 *)
LEMMA ConversationSentStep ==
    ASSUME ConvInv, NEW m \in Managers, Conversation_sent(m)
    PROVE  ConvInv'
<1>1. FALSE \in BOOLEAN
  OBVIOUS
<1> QED BY <1>1, SendDoneStep DEF Conversation_sent


-----------------------------------------------------------------------------
(* The steps of a client.                                                  *)

\* Client c changes its record, and what is on its own pipe.
OneClient(c) ==
    /\ DOMAIN req' = Clients /\ DOMAIN wire' = Pipes /\ DOMAIN replies' = Pipes
    /\ \A d \in Clients \ {c} : req'[d] = req[d]
    /\ req'[c].key = req[c].key
    /\ \A p \in Pipes \ {Pipe(c)} : wire'[p] = wire[p] /\ replies'[p] = replies[p]

(* The server and the other clients do not notice.                         *)
LEMMA OneClientStep ==
    ASSUME ConvInv, NEW c \in Clients, OneClient(c), LinksShut, Exchange(c)',
           UNCHANGED <<reported, ctx, clients, mgr, up, down>>
    PROVE  ConvInv'
<1> USE DEF ConvInv, Books
<1>1. KeysSame
  BY DEF KeysSame, OneClient
<1>2. MgrInv' /\ KnownInv' /\ SlotInv'
  BY DEF MgrInv, KnownInv, SlotInv
<1>3. CtxInv'
  BY <1>1 DEF CtxInv, KeysSame
<1>4. LinkInv'
  <2>1. reported' \subseteq Pipes /\ \A p \in reported' : ~Open(p)'
    BY DEF LinkInv, LinksShut, Open
  <2>2. \A n \in Managers : mgr'[n].pc \in {"done", "over"} => ~Open(PipeOf(n))'
    BY Names DEF LinkInv, LinksShut, Open
  <2>3. \A p \in Pipes : Open(p)' => p = Pipe(Owner(p))
    BY DEF LinkInv, LinksShut, Open
  <2> QED BY <2>1, <2>2, <2>3 DEF LinkInv, LinksShut, PipeOf, Pipe, Owner
<1>5. ASSUME NEW d \in Clients, d # c PROVE Exchange(d)'
  <2>1. Pipe(d) \in Pipes \ {Pipe(c)} /\ req'[d] = req[d]
    BY <1>5, Names, PipesDiffer DEF OneClient
  <2>2. ManagerQuiet(d)
    BY DEF ManagerQuiet
  <2>3. PendingQuiet(d)
    BY DEF PendingQuiet, PendingOn, Pending
  <2>4. Dropped(wire[Pipe(d)], wire'[Pipe(d)]) /\ Dropped(replies[Pipe(d)], replies'[Pipe(d)])
    BY <2>1 DEF OneClient, Dropped
  <2>5. link'[Pipe(d)] = "open" => link[Pipe(d)] = "open"
    BY <2>1 DEF LinksShut
  <2>6. Exchange(d)
    BY DEF ExchangeInv
  <2> QED BY <2>1, <2>2, <2>3, <2>4, <2>5, <2>6, ExchangeQuiet
<1>6. \A p \in Pipes : p # Pipe(Owner(p)) => wire'[p] = <<>>
  <2> SUFFICES ASSUME NEW p \in Pipes, p # Pipe(Owner(p)) PROVE wire'[p] = <<>>
    OBVIOUS
  <2>1. p # Pipe(c)
    BY Names
  <2> QED BY <2>1 DEF OneClient, ExchangeInv
<1>7. ExchangeInv'
  BY <1>5, <1>6 DEF ExchangeInv, OneClient, Pipe, Owner
<1>8. AppInv'
  <2>1. \A m \in Managers : req'[Owner(PipeOf(m))].key = req[Owner(PipeOf(m))].key
    BY <1>1, Names DEF KeysSame
  <2> QED BY <2>1 DEF AppInv, PipeOf, Owner
<1> QED BY <1>2, <1>3, <1>4, <1>7, <1>8 DEF DownInv

(* Between requests nothing of the client is on its way.                   *)
LEMMA NothingPending ==
    ASSUME ConvInv, NEW c \in Clients, req[c].pc \in {"hello", "ready"}
    PROVE  /\ wire[Pipe(c)] = <<>> /\ replies[Pipe(c)] = <<>>
           /\ \A k \in Contexts : ~PendingOn(k, c)
<1>1. WireOk(c) /\ RepliesOk(c) /\ PendingOk(c)
  BY DEF ConvInv, ExchangeInv, Exchange
<1>2. req[c].pc \notin Waiting /\ req[c].pc # "over"
  BY DEF Waiting
<1> QED BY <1>1, <1>2 DEF WireOk, RepliesOk, PendingOk, InSync, ReplyOk

(* A client that has no request on its way sends the next.                 *)
LEMMA SendStep ==
    ASSUME ConvInv, NEW c \in Clients, NEW n \in Nat, n <= Len(Topics[c]) + 1,
           wire[Pipe(c)] = <<>>, \A k \in Contexts : ~PendingOn(k, c),
           Request(c, n, BodyOf(c, req[c].key, n)),
           ReqOk(c)', OneClient(c), req'[c].pc \in Waiting, n = Sent(req'[c]) - 1,
           mgr[First(c)].pc = "unborn" <=> n = 0,
           mgr[First(c)].pc \in Alive => n = Answered(mgr[First(c)].app),
           replies'[Pipe(c)] = <<>>,
           UNCHANGED <<link, reported, ctx, clients, mgr, up, down>>
    PROVE  ConvInv'
<1>1. PICK q : q = [pipe |-> Pipe(c), id |-> n, body |-> BodyOf(c, req[c].key, n)]
  OBVIOUS
<1>2. q.pipe = Pipe(c) /\ q.id = n /\ q.body = BodyOf(c, req[c].key, n)
  BY <1>1
<1>3. wire'[Pipe(c)] = <<q>>
  BY <1>1, PutFirst, Domains, Names DEF Request
<1>4. RequestOk(c, req'[c].key, q)
  BY <1>2 DEF RequestOk, OneClient
<1>5. InSync(c, n)'
  BY DEF InSync
<1>6. \A k \in Contexts : ~PendingOn(k, c)'
  BY DEF PendingOn, Pending
<1>7. WireOk(c)'
  <2>1. Head(wire'[Pipe(c)]) = q
    BY <1>3, TakeOne
  <2> QED BY <1>2, <1>3, <1>4, <1>5, <1>6, <2>1 DEF WireOk, RequestOk
<1>8. PendingOk(c)' /\ RepliesOk(c)'
  BY <1>6 DEF PendingOk, RepliesOk
<1>9. req'[c].pc # "ready"
  BY DEF Waiting
<1>10. Exchange(c)'
  BY <1>7, <1>8, <1>9 DEF Exchange
<1> QED BY <1>10, Domains, OneClientStep DEF LinksShut

(* ClientHello.                                                            *)
LEMMA ReqHelloStep ==
    ASSUME ConvInv, NEW c \in Clients, Req_hello(c)
    PROVE  ConvInv'
<1>1. /\ req[c].pc = "hello" /\ req' = [req EXCEPT ![c].pc = "auth"]
      /\ Request(c, 0, make_client_hello(c))
      /\ UNCHANGED <<link, replies, reported, ctx, clients, mgr, up, down>>
  BY DEF Req_hello
<1>2. ReqOk(c)
  BY DEF ConvInv, ExchangeInv, Exchange
<1>3. /\ req'[c].pc = "auth" /\ req'[c].subs = req[c].subs /\ req'[c].key = req[c].key
      /\ DOMAIN req'[c] = {"pc", "box", "subs", "key"}
      /\ DOMAIN req' = Clients /\ \A d \in Clients \ {c} : req'[d] = req[d]
  BY <1>1, <1>2, Domains DEF ReqOk
<1>4. /\ wire[Pipe(c)] = <<>> /\ replies[Pipe(c)] = <<>>
      /\ \A k \in Contexts : ~PendingOn(k, c)
  BY <1>1, NothingPending
<1>5. OneClient(c)
  BY <1>1, <1>3, Domains DEF OneClient, Request
<1>6. mgr[First(c)].pc = "unborn" /\ req[c].subs = 0 /\ req[c].subs < Len(Topics[c])
  BY <1>1, <1>2 DEF ReqOk
<1>7. ReqOk(c)'
  BY <1>1, <1>3, <1>6 DEF ReqOk, Waiting, Open
<1>8. 0 \in Nat /\ 0 <= Len(Topics[c]) + 1 /\ 0 = Sent(req'[c]) - 1 /\ BodyOf(c, req[c].key, 0) = make_client_hello(c)
  BY <1>3, SubscriptionAssumption DEF Sent, BodyOf
<1> QED BY <1>1, <1>3, <1>4, <1>5, <1>6, <1>7, <1>8, SendStep DEF Waiting, Alive

(* What a client finds when it takes a reply.                              *)
LEMMA ReplyTaken ==
    ASSUME ConvInv, NEW c \in Clients, HasReply(c)
    PROVE  /\ replies[Pipe(c)] = <<Head(replies[Pipe(c)])>> /\ Tail(replies[Pipe(c)]) = <<>>
           /\ ReplyOk(c, ReplyBody(c))
           /\ mgr[First(c)].pc # "unborn" /\ Caught(c) /\ ReqOk(c)
           /\ wire[Pipe(c)] = <<>>
           /\ \A k \in Contexts : ~PendingOn(k, c)
<1>1. RepliesOk(c) /\ ReqOk(c)
  BY DEF ConvInv, ExchangeInv, Exchange
<1>2. replies[Pipe(c)] = <<Head(replies[Pipe(c)])>>
  BY <1>1 DEF RepliesOk, HasReply
<1>3. Tail(replies[Pipe(c)]) = <<>>
  BY <1>2, TakeOne
<1> QED BY <1>1, <1>2, <1>3 DEF RepliesOk, HasReply, ReplyBody

(* ServerAuth is verified and confirmed.                                   *)
LEMMA ReqAuthStep ==
    ASSUME ConvInv, NEW c \in Clients, Req_auth(c)
    PROVE  ConvInv'
<1>1. PICK box : box = req_session_box(c, ReplyBody(c).material)
  OBVIOUS
<1>2. /\ req[c].pc = "auth" /\ HasReply(c) /\ TakeReply(c)
      /\ req' = [req EXCEPT ![c].pc = "ack", ![c].box = box]
      /\ Request(c, 1, Encrypt(box, make_client_confirm(ReplyBody(c).material, c, req[c].key)))
      /\ UNCHANGED <<link, reported, ctx, clients, mgr, up, down>>
  BY <1>1 DEF Req_auth
<1>3. /\ Tail(replies[Pipe(c)]) = <<>> /\ ReplyOk(c, ReplyBody(c))
      /\ mgr[First(c)].pc # "unborn" /\ Caught(c) /\ ReqOk(c) /\ wire[Pipe(c)] = <<>>
      /\ \A k \in Contexts : ~PendingOn(k, c)
  BY <1>2, ReplyTaken
<1>4. ReplyBody(c).material = First(c)
  BY <1>2, <1>3 DEF ReplyOk, make_server_auth
<1>5. box = {c, First(c)}
  BY <1>1, <1>4 DEF req_session_box, make_session_box
<1>6. /\ req'[c].pc = "ack" /\ req'[c].subs = req[c].subs /\ req'[c].key = req[c].key
      /\ req'[c].box = box /\ DOMAIN req'[c] = {"pc", "box", "subs", "key"}
      /\ DOMAIN req' = Clients /\ \A d \in Clients \ {c} : req'[d] = req[d]
  BY <1>2, <1>3, Domains DEF ReqOk
<1>7. OneClient(c) /\ replies'[Pipe(c)] = <<>>
  BY <1>2, <1>3, <1>6, Domains, Names DEF OneClient, Request, TakeReply
<1>8. req[c].subs = 0 /\ req[c].subs < Len(Topics[c])
  BY <1>2, <1>3 DEF ReqOk
<1>9. ReqOk(c)'
  BY <1>2, <1>3, <1>5, <1>6, <1>8 DEF ReqOk, Waiting, Open
<1>10. 1 \in Nat /\ 1 <= Len(Topics[c]) + 1 /\ 1 = Sent(req'[c]) - 1
  BY <1>6, SubscriptionAssumption DEF Sent
<1>11. BodyOf(c, req[c].key, 1) = Encrypt(box, make_client_confirm(ReplyBody(c).material, c, req[c].key))
  BY <1>4, <1>5 DEF BodyOf
<1>12. mgr[First(c)].pc \in Alive => 1 = Answered(mgr[First(c)].app)
  BY <1>2, <1>3 DEF Caught, Sent
<1> QED BY <1>2, <1>3, <1>6, <1>7, <1>9, <1>10, <1>11, <1>12, SendStep DEF Waiting


(* A client that has taken a reply goes on to its next request.            *)
LEMMA TakeStep ==
    ASSUME ConvInv, NEW c \in Clients, HasReply(c), TakeReply(c), ReqOk(c)', OneClient(c),
           req'[c].pc = "ready", Sent(req'[c]) = Sent(req[c]),
           UNCHANGED <<link, wire, reported, ctx, clients, mgr, up, down>>
    PROVE  ConvInv'
<1>1. /\ Tail(replies[Pipe(c)]) = <<>> /\ wire[Pipe(c)] = <<>> /\ Caught(c)
      /\ \A k \in Contexts : ~PendingOn(k, c)
  BY ReplyTaken
<1>2. replies'[Pipe(c)] = <<>>
  BY <1>1, Domains, Names DEF TakeReply
<1>3. \A k \in Contexts : ~PendingOn(k, c)'
  BY <1>1 DEF PendingOn, Pending
<1>4. Caught(c)'
  BY <1>1 DEF Caught
<1>5. WireOk(c)' /\ PendingOk(c)' /\ RepliesOk(c)'
  BY <1>1, <1>2, <1>3 DEF WireOk, PendingOk, RepliesOk
<1>6. Exchange(c)'
  BY <1>4, <1>5 DEF Exchange
<1> QED BY <1>6, Domains, OneClientStep DEF LinksShut

(* The acknowledgement.                                                    *)
LEMMA ReqAckStep ==
    ASSUME ConvInv, NEW c \in Clients, Req_ack(c)
    PROVE  ConvInv'
<1>1. /\ req[c].pc = "ack" /\ HasReply(c) /\ TakeReply(c)
      /\ req' = [req EXCEPT ![c].pc = "ready"]
      /\ UNCHANGED <<link, wire, reported, ctx, clients, mgr, up, down>>
  BY DEF Req_ack
<1>2. ReqOk(c)
  BY DEF ConvInv, ExchangeInv, Exchange
<1>3. /\ req'[c].pc = "ready" /\ req'[c].subs = req[c].subs /\ req'[c].key = req[c].key
      /\ req'[c].box = req[c].box /\ DOMAIN req'[c] = {"pc", "box", "subs", "key"}
      /\ DOMAIN req' = Clients /\ \A d \in Clients \ {c} : req'[d] = req[d]
  BY <1>1, <1>2, Domains DEF ReqOk
<1>4. OneClient(c)
  BY <1>1, <1>3, Domains, Names DEF OneClient, TakeReply
<1>5. ReqOk(c)'
  BY <1>1, <1>2, <1>3 DEF ReqOk, Waiting, Open
<1>6. Sent(req'[c]) = Sent(req[c])
  BY <1>1, <1>2, <1>3 DEF Sent, ReqOk
<1> QED BY <1>1, <1>3, <1>4, <1>5, <1>6, TakeStep

(* The next topic is asked for.                                            *)
LEMMA SubscribeStep ==
    ASSUME ConvInv, NEW c \in Clients, Subscribe(c)
    PROVE  ConvInv' /\ req'[c].subs = req[c].subs /\ \A d \in Clients \ {c} : req'[d] = req[d]
<1> DEFINE n == req[c].subs + 2
<1>1. /\ req[c].pc = "ready" /\ req' = [req EXCEPT ![c].pc = "response"]
      /\ Request(c, n, Encrypt(req[c].box, SubscribeRequest(Topics[c][req[c].subs + 1])))
      /\ UNCHANGED <<link, replies, reported, ctx, clients, mgr, up, down>>
  BY DEF Subscribe, Req_asend, Topic
<1>2. ReqOk(c) /\ Caught(c)
  BY <1>1 DEF ConvInv, ExchangeInv, Exchange
<1>3. /\ req'[c].pc = "response" /\ req'[c].subs = req[c].subs /\ req'[c].key = req[c].key
      /\ req'[c].box = req[c].box /\ DOMAIN req'[c] = {"pc", "box", "subs", "key"}
      /\ DOMAIN req' = Clients /\ \A d \in Clients \ {c} : req'[d] = req[d]
  BY <1>1, <1>2, Domains DEF ReqOk
<1>4. /\ wire[Pipe(c)] = <<>> /\ replies[Pipe(c)] = <<>>
      /\ \A k \in Contexts : ~PendingOn(k, c)
  BY <1>1, NothingPending
<1>5. OneClient(c) /\ replies'[Pipe(c)] = <<>>
  BY <1>1, <1>3, <1>4, Domains DEF OneClient, Request
<1>6. /\ mgr[First(c)].pc # "unborn" /\ req[c].box = {c, First(c)}
      /\ req[c].subs \in Nat /\ req[c].subs < Len(Topics[c])
  BY <1>1, <1>2 DEF ReqOk
<1>7. ReqOk(c)'
  BY <1>1, <1>3, <1>6 DEF ReqOk, Waiting, Open
<1>8. n \in Nat /\ n <= Len(Topics[c]) + 1 /\ n = Sent(req'[c]) - 1 /\ n # 0 /\ n # 1
      /\ n - 1 = req[c].subs + 1
  <2>1. Sent(req'[c]) = req[c].subs + 3
    BY <1>3 DEF Sent
  <2>2. Len(Topics[c]) \in Nat
    BY SubscriptionAssumption
  <2>3. PICK a \in Nat, l \in Nat : a = req[c].subs /\ l = Len(Topics[c]) /\ a < l
    BY <1>6, <2>2
  <2>4. a + 2 \in Nat /\ a + 2 <= l + 1 /\ a + 2 = (a + 3) - 1 /\ a + 2 # 0 /\ a + 2 # 1
        /\ (a + 2) - 1 = a + 1
    BY <2>3
  <2> QED BY <2>1, <2>3, <2>4
<1>9. BodyOf(c, req[c].key, n) = Encrypt(req[c].box, SubscribeRequest(Topics[c][req[c].subs + 1]))
  BY <1>6, <1>8 DEF BodyOf
<1>10. mgr[First(c)].pc \in Alive => n = Answered(mgr[First(c)].app)
  BY <1>1, <1>2 DEF Caught, Sent
<1> HIDE DEF n
<1>11. ConvInv'
  BY <1>1, <1>3, <1>4, <1>5, <1>6, <1>7, <1>8, <1>9, <1>10, SendStep DEF Waiting
<1> QED BY <1>3, <1>11

(* A client closes its REQ socket: its requests on their way are lost, the *)
(* server's side is not.                                                   *)
LEMMA ClosedStep ==
    ASSUME ConvInv, NEW c \in Clients, ClosePipe(Pipe(c)), req' = Req_over(c),
           DOMAIN replies' = Pipes, replies'[Pipe(c)] = <<>>,
           \A p \in Pipes \ {Pipe(c)} : replies'[p] = replies[p],
           UNCHANGED <<reported, ctx, clients, mgr, up, down>>
    PROVE  ConvInv' /\ req'[c].pc = "over" /\ \A d \in Clients \ {c} : req'[d] = req[d]
<1>1. Exchange(c) /\ ReqOk(c) /\ PendingOk(c)
  BY DEF ConvInv, ExchangeInv, Exchange
<1>2. /\ req'[c].pc = "over" /\ req'[c].subs = 0 /\ req'[c].key = req[c].key
      /\ DOMAIN req'[c] = {"pc", "box", "subs", "key"}
      /\ DOMAIN req' = Clients /\ \A d \in Clients \ {c} : req'[d] = req[d]
  BY <1>1, Domains DEF ReqOk, Req_over
<1>3. /\ LinksShut /\ link'[Pipe(c)] # "open" /\ DOMAIN wire' = Pipes /\ wire'[Pipe(c)] = <<>>
      /\ \A q \in Pipes : q # Pipe(c) => wire'[q] = wire[q]
  BY Domains, Names, ClosePipeFacts DEF WireQuiet
<1>4. OneClient(c)
  BY <1>2, <1>3 DEF OneClient
<1>5. ReqOk(c)'
  BY <1>2, <1>3 DEF ReqOk, Open
<1>6. WireOk(c)' /\ RepliesOk(c)'
  BY <1>3 DEF WireOk, RepliesOk
<1>7. PendingOk(c)'
  <2>1. \A k \in Contexts : PendingOn(k, c)' <=> PendingOn(k, c)
    BY DEF PendingOn, Pending
  <2>2. \A n : InSync(c, n) => InSync(c, n)'
    BY <1>2 DEF InSync
  <2> SUFFICES ASSUME NEW k \in Contexts, PendingOn(k, c)'
               PROVE  /\ InSync(c, ctx[k].msg.id)'
                      /\ ctx'[k].msg.id = 0 =>
                            mgr'[First(c)].pc = "unborn" \/ k \in Range(mgr'[First(c)].inbox)
                      /\ \A l \in Contexts : PendingOn(l, c)' => l = k
    BY DEF PendingOk
  <2>3. /\ InSync(c, ctx[k].msg.id)
        /\ ctx[k].msg.id = 0 => mgr[First(c)].pc = "unborn" \/ k \in Range(mgr[First(c)].inbox)
        /\ \A l \in Contexts : PendingOn(l, c) => l = k
    BY <1>1, <2>1 DEF PendingOk
  <2>4. InSync(c, ctx[k].msg.id)'
    BY <1>2, <2>3 DEF InSync
  <2> QED BY <2>1, <2>3, <2>4
<1>8. Exchange(c)'
  BY <1>2, <1>5, <1>6, <1>7 DEF Exchange
<1>9. ConvInv'
  BY <1>3, <1>4, <1>8, OneClientStep
<1> QED BY <1>2, <1>9

(* A response names the socket the client's own manager opened for it.     *)
LEMMA ResponseStep ==
    ASSUME ConvInv, NEW c \in Clients, Response(c)
    PROVE  /\ ConvInv'
           /\ ReplyBody(c).body.addr = <<First(c), req[c].subs + 1>>
           /\ req[c].subs \in Nat /\ req[c].subs < Len(Topics[c]) /\ req[c].pc # "over"
           /\ req'[c].pc = "over" \/ req'[c].subs = req[c].subs + 1
           /\ \A d \in Clients \ {c} : req'[d] = req[d]
<1> DEFINE n == req[c].subs + 1
<1>1. /\ req[c].pc = "response" /\ HasReply(c) /\ TakeReply(c)
      /\ UNCHANGED <<reported, ctx, clients, mgr, up, down>>
  BY DEF Response
<1>2. /\ Tail(replies[Pipe(c)]) = <<>> /\ ReplyOk(c, ReplyBody(c)) /\ ReqOk(c)
  BY <1>1, ReplyTaken
<1>3. ReplyBody(c).body.addr = <<First(c), req[c].subs + 1>>
  <2>1. PICK d : d = <<First(c), req[c].subs + 1>>
    OBVIOUS
  <2>2. ReplyBody(c) = Encrypt({c, First(c)}, SubscribeResponse(d))
    BY <1>1, <1>2, <2>1 DEF ReplyOk
  <2>3. Encrypt({c, First(c)}, SubscribeResponse(d)).body.addr = d
    BY DEF Encrypt, SubscribeResponse
  <2> QED BY <2>1, <2>2, <2>3
<1>4. /\ DOMAIN replies' = Pipes /\ replies'[Pipe(c)] = <<>>
      /\ \A p \in Pipes \ {Pipe(c)} : replies'[p] = replies[p]
  BY <1>1, <1>2, Domains, Names DEF TakeReply
<1>5. req[c].subs \in Nat /\ req[c].subs < Len(Topics[c]) /\ req[c].pc # "over"
  BY <1>1, <1>2 DEF ReqOk
<1>6. CASE n = Len(Topics[c])
  <2>1. ClosePipe(Pipe(c)) /\ req' = Req_over(c)
    BY <1>6 DEF Response
  <2> QED BY <1>1, <1>3, <1>4, <1>5, <2>1, ClosedStep
<1>7. CASE n # Len(Topics[c])
  <2>1. /\ UNCHANGED <<link, wire>>
        /\ req' = [req EXCEPT ![c].pc = "ready", ![c].subs = n]
    BY <1>7 DEF Response
  <2>2. /\ req'[c].pc = "ready" /\ req'[c].subs = n /\ req'[c].key = req[c].key
        /\ req'[c].box = req[c].box /\ DOMAIN req'[c] = {"pc", "box", "subs", "key"}
        /\ DOMAIN req' = Clients /\ \A d \in Clients \ {c} : req'[d] = req[d]
    BY <1>2, <2>1, Domains DEF ReqOk
  <2>3. OneClient(c)
    BY <1>4, <2>1, <2>2, Domains DEF OneClient
  <2>4. n \in Nat /\ n < Len(Topics[c])
    BY <1>5, <1>7, SubscriptionAssumption
  <2>5. ReqOk(c)'
    BY <1>1, <1>2, <2>1, <2>2, <2>4 DEF ReqOk, Waiting, Open
  <2>6. Sent(req'[c]) = Sent(req[c])
    BY <1>1, <1>5, <2>2 DEF Sent
  <2>7. ConvInv'
    BY <1>1, <2>1, <2>2, <2>3, <2>5, <2>6, TakeStep
  <2> QED BY <1>3, <1>5, <2>2, <2>7
<1> QED BY <1>6, <1>7

(* The client program ends.                                                *)
LEMMA ClientEndsStep ==
    ASSUME ConvInv, NEW c \in Clients, ClientEnds(c)
    PROVE  ConvInv' /\ req'[c].pc = "over" /\ \A d \in Clients \ {c} : req'[d] = req[d]
<1>1. /\ DOMAIN replies' = Pipes /\ replies'[Pipe(c)] = <<>>
      /\ \A p \in Pipes \ {Pipe(c)} : replies'[p] = replies[p]
  BY Domains, Names DEF ClientEnds
<1> QED BY <1>1, ClosedStep DEF ClientEnds


-----------------------------------------------------------------------------
(* Names of sockets and streams.                                           *)

(* A stream has one socket, and no other stream has it.                    *)
LEMMA SocketNames ==
    /\ \A s \in StreamSockets :
          /\ s[1] \in Clients /\ s[2] \in DOMAIN Topics[s[1]] /\ s = <<s[1], s[2]>> /\ s # NoPeer
          /\ SocketOf(s) \in PairSockets
    /\ \A s, t \in StreamSockets : SocketOf(s) = SocketOf(t) => s = t
<1>1. \A s \in StreamSockets : s[1] \in Clients /\ s[2] \in DOMAIN Topics[s[1]] /\ s = <<s[1], s[2]>>
  BY DEF StreamSockets
<1>2. \A s \in StreamSockets : s # NoPeer
  BY <1>1 DEF NoPeer
<1>3. \A s \in StreamSockets : SocketOf(s) \in PairSockets
  <2> TAKE s \in StreamSockets
  <2>1. First(s[1]) \in Managers /\ Owner(PipeOf(First(s[1]))) = s[1]
    BY <1>1, Names
  <2> QED BY <1>1, <2>1 DEF PairSockets, SocketOf
<1>4. \A s, t \in StreamSockets : SocketOf(s) = SocketOf(t) => s = t
  <2> SUFFICES ASSUME NEW s \in StreamSockets, NEW t \in StreamSockets, SocketOf(s) = SocketOf(t)
               PROVE  s = t
    OBVIOUS
  <2>1. First(s[1]) = First(t[1]) /\ s[2] = t[2]
    BY DEF SocketOf
  <2>2. s[1] = t[1]
    BY <2>1 DEF First, Pipe
  <2> QED BY <1>1, <2>1, <2>2
<1> QED BY <1>1, <1>2, <1>3, <1>4

(* A socket that was opened has its stream.                                *)
LEMMA StreamOf ==
    ASSUME PairTypeInv, NEW d \in PairSockets, pair[d].pc # "none"
    PROVE  \E s \in StreamSockets : d = SocketOf(s) /\ s[1] = Owner(PipeOf(d[1]))
<1>1. d = SocketOf(<<Owner(PipeOf(d[1])), d[2]>>)
  BY DEF PairTypeInv
<1>2. d[1] \in Managers /\ d[2] \in DOMAIN Topics[Owner(PipeOf(d[1]))]
  BY DEF PairSockets
<1>3. Owner(PipeOf(d[1])) \in Clients
  BY <1>2, Names
<1>4. <<Owner(PipeOf(d[1])), d[2]>> \in StreamSockets
  BY <1>2, <1>3 DEF StreamSockets
<1> QED BY <1>1, <1>4

\* What a stream and its socket share does not change.
StreamSame(s) ==
    /\ pair'[SocketOf(s)] = pair[SocketOf(s)] /\ strm'[s] = strm[s]
    /\ toServer'[s] = toServer[s] /\ toClient'[s] = toClient[s]

(* Then what holds of them does not either.                                *)
LEMMA StreamFrame ==
    ASSUME NEW s \in StreamSockets, StreamInv(s), StreamSame(s)
    PROVE  StreamInv(s)'
BY DEF StreamInv, StreamSame, DialInv, ToServerInv, ToClientInv, ConfirmMsg

(* The socket is closed.                                                   *)
LEMMA SocketClosed ==
    ASSUME NEW s \in StreamSockets, StreamInv(s), pair[SocketOf(s)].pc # "none",
           pair'[SocketOf(s)].pc = "over", pair'[SocketOf(s)].peer = pair[SocketOf(s)].peer,
           pair'[SocketOf(s)].topic = pair[SocketOf(s)].topic,
           pair'[SocketOf(s)].seq = pair[SocketOf(s)].seq,
           strm'[s] = strm[s], toClient'[s] = toClient[s],
           toServer'[s] = toServer[s] \/ pair[SocketOf(s)].peer = s
    PROVE  StreamInv(s)'
<1>1. DialInv(s, pair[SocketOf(s)], strm[s])'
  BY SocketNames DEF StreamInv, DialInv
<1>2. ToServerInv(s, pair[SocketOf(s)], strm[s])'
  BY DEF ToServerInv
<1>3. ToClientInv(s, pair[SocketOf(s)], strm[s])'
  BY DEF StreamInv, ToClientInv
<1> QED BY <1>1, <1>2, <1>3 DEF StreamInv

(* The stream is closed.                                                   *)
LEMMA StreamClosed ==
    ASSUME NEW s \in StreamSockets, StreamInv(s), strm[s].pc # "none",
           strm'[s].pc = "over", strm'[s].addr = strm[s].addr, strm'[s].key = strm[s].key,
           strm'[s].count = strm[s].count, strm'[s].last = strm[s].last,
           pair'[SocketOf(s)] = pair[SocketOf(s)],
           toServer'[s] = toServer[s], toClient'[s] = toClient[s]
    PROVE  StreamInv(s)'
<1>1. DialInv(s, pair[SocketOf(s)], strm[s])'
  BY SocketNames DEF StreamInv, DialInv
<1>2. ToServerInv(s, pair[SocketOf(s)], strm[s])'
  BY DEF StreamInv, ToServerInv, ConfirmMsg
<1>3. ToClientInv(s, pair[SocketOf(s)], strm[s])'
  BY DEF StreamInv, ToClientInv
<1> QED BY <1>1, <1>2, <1>3 DEF StreamInv

\* Only the stream s and its socket change.
OneStream(s) ==
    /\ DOMAIN pair' = PairSockets /\ DOMAIN strm' = StreamSockets
    /\ DOMAIN toServer' = StreamSockets /\ DOMAIN toClient' = StreamSockets
    /\ \A d \in PairSockets \ {SocketOf(s)} : pair'[d] = pair[d]
    /\ \A t \in StreamSockets \ {s} :
          strm'[t] = strm[t] /\ toServer'[t] = toServer[t] /\ toClient'[t] = toClient[t]

(* Then only these need a look.                                            *)
LEMMA OneStreamStep ==
    ASSUME PairTypeInv, PairInv, NEW s \in StreamSockets, OneStream(s),
           PairRecordOk(pair'[SocketOf(s)]), StreamRecordOk(strm'[s]), StreamInv(s)'
    PROVE  PairTypeInv' /\ PairInv'
<1>1. SocketOf(s) \in PairSockets /\ SocketOf(s) = SocketOf(<<Owner(PipeOf(SocketOf(s)[1])), SocketOf(s)[2]>>)
  <2>1. SocketOf(s)[1] = First(s[1]) /\ SocketOf(s)[2] = s[2] /\ Owner(PipeOf(First(s[1]))) = s[1]
    BY Names, SocketNames DEF SocketOf
  <2> QED BY <2>1, SocketNames
<1>2. PairTypeInv'
  BY <1>1 DEF PairTypeInv, OneStream, PairRecordOk, StreamRecordOk, PipeOf, Owner
<1>3. \A t \in StreamSockets : t # s => StreamSame(t)
  BY SocketNames DEF OneStream, StreamSame
<1>4. PairInv'
  BY <1>3, StreamFrame DEF PairInv
<1> QED BY <1>2, <1>4


-----------------------------------------------------------------------------
(* The steps of a server socket.                                           *)

PairSide == PairTypeInv /\ PairInv

(* What each step starts from.                                             *)
LEMMA SideOf ==
    ASSUME PairSide, NEW s \in StreamSockets
    PROVE  /\ SocketOf(s) \in PairSockets /\ s # NoPeer
           /\ DOMAIN pair = PairSockets /\ DOMAIN strm = StreamSockets
           /\ DOMAIN toServer = StreamSockets /\ DOMAIN toClient = StreamSockets
           /\ PairRecordOk(pair[SocketOf(s)]) /\ StreamRecordOk(strm[s])
           /\ DialInv(s, pair[SocketOf(s)], strm[s])
           /\ ToServerInv(s, pair[SocketOf(s)], strm[s])
           /\ ToClientInv(s, pair[SocketOf(s)], strm[s])
BY SocketNames DEF PairSide, PairTypeInv, PairInv, StreamInv

(* The handshake and token messages are as the protocol has them.          *)
LEMMA PairHelloStep ==
    ASSUME PairSide, NEW s \in StreamSockets, Pair_hello(SocketOf(s))
    PROVE  PairSide' /\ OneStream(s)
<1> DEFINE d == SocketOf(s)
<1>0. /\ d \in PairSockets /\ s # NoPeer
      /\ DOMAIN pair = PairSockets /\ DOMAIN strm = StreamSockets
      /\ DOMAIN toServer = StreamSockets /\ DOMAIN toClient = StreamSockets
      /\ PairRecordOk(pair[d]) /\ StreamRecordOk(strm[s])
      /\ DialInv(s, pair[d], strm[s])
      /\ ToServerInv(s, pair[d], strm[s])
      /\ ToClientInv(s, pair[d], strm[s])
  BY SideOf
<1>1. pair[d].pc = "hello" /\ pair[d].peer = s /\ toServer[s] # <<>>
  BY <1>0 DEF Pair_hello, ServerHas, DialInv
<1>2. /\ pair[d].seq = 0 /\ strm[s].pc \in {"auth", "over"} /\ toServer[s] = <<HelloMsg(s)>>
      /\ strm[s].pc = "auth" => toClient[s] = <<>>
  BY <1>0, <1>1 DEF ToServerInv
<1>3. ServerMsg(d) = HelloMsg(s) /\ ServerMsg(d).material = ClientMaterial(s)
  BY <1>1, <1>2, TakeOne DEF ServerMsg, HelloMsg, make_client_hello
<1>4. PICK box : box = Box(s)
  OBVIOUS
<1>5. box = make_session_box(ServerMaterial(d), ClientMaterial(s))
  BY <1>4 DEF Box, make_session_box
<1>6. /\ pair' = [pair EXCEPT ![d].pc = "confirm", ![d].box = box]
      /\ toClient' = [toClient EXCEPT ![s] = Append(toClient[s], AuthMsg(s))]
      /\ toServer' = [toServer EXCEPT ![s] = <<>>]
      /\ strm' = strm
  BY <1>1, <1>2, <1>3, <1>5, TakeOne DEF Pair_hello, ServerSends, ServerTakes, AuthMsg
<1>7. /\ pair'[d].pc = "confirm" /\ pair'[d].box = box /\ pair'[d].peer = s
      /\ pair'[d].topic = pair[d].topic /\ pair'[d].seq = 0
      /\ DOMAIN pair'[d] = DOMAIN pair[d]
      /\ toServer'[s] = <<>> /\ toClient'[s] = Append(toClient[s], AuthMsg(s)) /\ strm'[s] = strm[s]
  BY <1>0, <1>1, <1>2, <1>6 DEF PairRecordOk
<1>8. OneStream(s)
  BY <1>0, <1>6 DEF OneStream
<1>9. PairRecordOk(pair'[d]) /\ StreamRecordOk(strm'[s])
  BY <1>0, <1>7 DEF PairRecordOk
<1>10. StreamInv(s)'
  <2>1. DialInv(s, pair[SocketOf(s)], strm[s])'
    BY <1>0, <1>1, <1>2, <1>7 DEF DialInv
  <2>2. ToServerInv(s, pair[SocketOf(s)], strm[s])'
    BY <1>2, <1>4, <1>7 DEF ToServerInv
  <2>3. strm[s].pc = "auth" => toClient'[s] = <<AuthMsg(s)>>
    BY <1>2, <1>7, PutFirst
  <2>4. ToClientInv(s, pair[SocketOf(s)], strm[s])'
    BY <1>0, <1>2, <1>7, <2>3 DEF ToClientInv
  <2> QED BY <2>1, <2>2, <2>4 DEF StreamInv
<1> QED BY <1>8, <1>9, <1>10, OneStreamStep DEF PairSide

(* What stands at the head of the queue when a confirm is due.             *)
LEMMA ConfirmDue ==
    ASSUME PairSide, NEW s \in StreamSockets, pair[SocketOf(s)].pc = "confirm", ServerHas(SocketOf(s))
    PROVE  /\ pair[SocketOf(s)].peer = s /\ pair[SocketOf(s)].seq = 0 /\ pair[SocketOf(s)].box = Box(s)
           /\ ServerMsg(SocketOf(s)) = ConfirmMsg(s) /\ strm[s].pc # "auth"
           /\ toServer[s] \in {<<ConfirmMsg(s)>>, <<ConfirmMsg(s), TokenMsg(s)>>}
           /\ Tail(toServer[s]) \in {<<>>, <<TokenMsg(s)>>}
           /\ strm[s].pc = "token" => Tail(toServer[s]) = <<>>
           /\ strm[s].pc = "stream" => Tail(toServer[s]) = <<TokenMsg(s)>>
<1>1. pair[SocketOf(s)].peer = s /\ toServer[s] # <<>>
  BY SideOf DEF ServerHas, DialInv
<1>2. /\ toServer[s] \in {<<>>, <<ConfirmMsg(s)>>, <<ConfirmMsg(s), TokenMsg(s)>>}
      /\ pair[SocketOf(s)].seq = 0 /\ pair[SocketOf(s)].box = Box(s)
      /\ strm[s].pc = "auth" => toServer[s] = <<>>
      /\ strm[s].pc = "token" => toServer[s] = <<ConfirmMsg(s)>>
      /\ strm[s].pc = "stream" => toServer[s] = <<ConfirmMsg(s), TokenMsg(s)>>
  BY SideOf DEF ToServerInv
<1>3. Head(toServer[s]) = ConfirmMsg(s)
  BY <1>1, <1>2, TakeOne, TakeTwo
<1>4. /\ Tail(toServer[s]) \in {<<>>, <<TokenMsg(s)>>}
      /\ strm[s].pc = "token" => Tail(toServer[s]) = <<>>
      /\ strm[s].pc = "stream" => Tail(toServer[s]) = <<TokenMsg(s)>>
  BY <1>1, <1>2, TakeOne, TakeTwo
<1> QED BY <1>1, <1>2, <1>3, <1>4 DEF ServerMsg

(* ... and when the token is due.                                          *)
LEMMA TokenDue ==
    ASSUME PairSide, NEW s \in StreamSockets, pair[SocketOf(s)].pc = "token", ServerHas(SocketOf(s))
    PROVE  /\ pair[SocketOf(s)].peer = s /\ pair[SocketOf(s)].seq = 0 /\ pair[SocketOf(s)].box = Box(s)
           /\ ServerMsg(SocketOf(s)) = TokenMsg(s) /\ strm[s].pc \in {"stream", "over"}
           /\ Tail(toServer[s]) = <<>> /\ strm[s].key \in Authorized
<1>1. pair[SocketOf(s)].peer = s /\ toServer[s] # <<>> /\ strm[s].pc \in {"auth", "token", "stream", "over"}
  BY SideOf DEF ServerHas, DialInv
<1>2. /\ toServer[s] \in {<<>>, <<TokenMsg(s)>>}
      /\ pair[SocketOf(s)].seq = 0 /\ pair[SocketOf(s)].box = Box(s) /\ strm[s].key \in Authorized
      /\ strm[s].pc # "auth"
      /\ strm[s].pc = "token" => toServer[s] = <<>>
  BY SideOf DEF ToServerInv
<1> QED BY <1>1, <1>2, TakeOne DEF ServerMsg

(* serve_client() lets nothing through.                                    *)
LEMMA NoPairRaises ==
    ASSUME PairSide, NEW d \in PairSockets
    PROVE  ~PairRaises(d)
<1> SUFFICES ASSUME PairRaises(d) PROVE FALSE
  OBVIOUS
<1>1. PICK s \in StreamSockets : d = SocketOf(s)
  BY StreamOf DEF PairRaises, PairSide
<1>2. CASE pair[d].pc = "confirm" /\ ~Decrypts(pair[d].box, ServerMsg(d))
  <2>1. pair[d].box = Box(s) /\ ServerMsg(d) = ConfirmMsg(s)
    BY <1>1, <1>2, ConfirmDue DEF PairRaises
  <2> QED BY <1>2, <2>1 DEF ConfirmMsg, Encrypt, Decrypts
<1>3. CASE pair[d].pc = "token" /\ ~TokenMatches(d)
  <2>1. pair[d].box = Box(s) /\ ServerMsg(d) = TokenMsg(s)
    BY <1>1, <1>3, TokenDue DEF PairRaises
  <2>2. PICK b : b = Token(d)
    OBVIOUS
  <2>3. TokenMsg(s) = Encrypt(Box(s), b)
    BY <1>1, <2>2 DEF TokenMsg
  <2>4. Decrypts(Box(s), TokenMsg(s)) /\ TokenMsg(s).body = b
    BY <2>3 DEF Encrypt, Decrypts
  <2> QED BY <1>3, <2>1, <2>2, <2>4 DEF TokenMatches
<1> QED BY <1>2, <1>3 DEF PairRaises


(* The confirm: its signature is the stream's.                             *)
LEMMA PairConfirmStep ==
    ASSUME PairSide, NEW s \in StreamSockets, Pair_confirm(SocketOf(s))
    PROVE  PairSide' /\ OneStream(s)
<1> DEFINE d == SocketOf(s)
           ok == ConfirmVerified(d)
<1>0. /\ d \in PairSockets /\ s # NoPeer
      /\ DOMAIN pair = PairSockets /\ DOMAIN strm = StreamSockets
      /\ DOMAIN toServer = StreamSockets /\ DOMAIN toClient = StreamSockets
      /\ PairRecordOk(pair[d]) /\ StreamRecordOk(strm[s])
      /\ DialInv(s, pair[d], strm[s])
      /\ ToClientInv(s, pair[d], strm[s])
  BY SideOf
<1>1. pair[d].pc = "confirm" /\ ServerHas(d)
  BY DEF Pair_confirm
<1>2. /\ pair[d].peer = s /\ pair[d].seq = 0 /\ pair[d].box = Box(s)
      /\ ServerMsg(d) = ConfirmMsg(s) /\ strm[s].pc # "auth"
      /\ Tail(toServer[s]) \in {<<>>, <<TokenMsg(s)>>}
      /\ strm[s].pc = "token" => Tail(toServer[s]) = <<>>
      /\ strm[s].pc = "stream" => Tail(toServer[s]) = <<TokenMsg(s)>>
  BY <1>1, ConfirmDue
<1>3. ok => strm[s].key \in Authorized
  <2>1. PICK conf : conf = make_client_confirm(ServerMaterial(d), ClientMaterial(s), strm[s].key)
    OBVIOUS
  <2>2. ServerMsg(d).body = conf
    BY <1>2, <2>1 DEF ConfirmMsg, Encrypt
  <2>3. conf.signer = strm[s].key
    BY <2>1 DEF make_client_confirm
  <2> QED BY <2>2, <2>3 DEF ConfirmVerified, verify_client_confirm
<1>4. /\ toServer' = [toServer EXCEPT ![s] = Tail(toServer[s])]
      /\ pair' = IF ok THEN [pair EXCEPT ![d].pc = "token"] ELSE PairOver(d)
      /\ strm' = strm /\ toClient' = toClient
  BY <1>2 DEF Pair_confirm, ServerTakes
<1>5. toServer'[s] = Tail(toServer[s]) /\ strm'[s] = strm[s] /\ toClient'[s] = toClient[s]
  BY <1>0, <1>4
<1>6. CASE ok
  <2>1. /\ pair'[d].pc = "token" /\ pair'[d].box = pair[d].box /\ pair'[d].peer = s
        /\ pair'[d].topic = pair[d].topic /\ pair'[d].seq = 0
        /\ DOMAIN pair'[d] = DOMAIN pair[d]
        /\ \A e \in PairSockets \ {d} : pair'[e] = pair[e]
        /\ DOMAIN pair' = PairSockets
    BY <1>0, <1>2, <1>4, <1>6 DEF PairRecordOk
  <2>2. OneStream(s)
    BY <1>0, <1>4, <2>1 DEF OneStream
  <2>3. PairRecordOk(pair'[d]) /\ StreamRecordOk(strm'[s])
    BY <1>0, <1>5, <2>1 DEF PairRecordOk
  <2>4. DialInv(s, pair[SocketOf(s)], strm[s])'
    BY <1>0, <1>1, <1>2, <1>5, <2>1 DEF DialInv
  <2>5. ToServerInv(s, pair[SocketOf(s)], strm[s])'
    BY <1>2, <1>3, <1>5, <1>6, <2>1 DEF ToServerInv
  <2>6. ToClientInv(s, pair[SocketOf(s)], strm[s])'
    BY <1>0, <1>2, <1>5, <2>1 DEF ToClientInv
  <2> QED BY <2>2, <2>3, <2>4, <2>5, <2>6, OneStreamStep DEF PairSide, StreamInv
<1>7. CASE ~ok
  <2>1. /\ pair'[d].pc = "over" /\ pair'[d].peer = pair[d].peer
        /\ pair'[d].topic = pair[d].topic /\ pair'[d].seq = pair[d].seq
        /\ DOMAIN pair'[d] = DOMAIN pair[d]
        /\ \A e \in PairSockets \ {d} : pair'[e] = pair[e]
        /\ DOMAIN pair' = PairSockets
    BY <1>0, <1>2, <1>4, <1>7 DEF PairRecordOk, PairOver
  <2>2. OneStream(s)
    BY <1>0, <1>4, <2>1 DEF OneStream
  <2>3. PairRecordOk(pair'[d]) /\ StreamRecordOk(strm'[s])
    BY <1>0, <1>5, <2>1 DEF PairRecordOk
  <2>4. StreamInv(s)
    BY DEF PairSide, PairInv
  <2>5. StreamInv(s)'
    BY <1>1, <1>2, <1>5, <2>1, <2>4, SocketClosed
  <2> QED BY <2>2, <2>3, <2>5, OneStreamStep DEF PairSide
<1> QED BY <1>6, <1>7

(* The token.                                                              *)
LEMMA PairTokenStep ==
    ASSUME PairSide, NEW s \in StreamSockets, Pair_token(SocketOf(s))
    PROVE  PairSide' /\ OneStream(s)
<1> DEFINE d == SocketOf(s)
<1>0. /\ d \in PairSockets /\ s # NoPeer
      /\ DOMAIN pair = PairSockets /\ DOMAIN strm = StreamSockets
      /\ DOMAIN toServer = StreamSockets /\ DOMAIN toClient = StreamSockets
      /\ PairRecordOk(pair[d]) /\ StreamRecordOk(strm[s])
      /\ DialInv(s, pair[d], strm[s])
      /\ ToClientInv(s, pair[d], strm[s])
  BY SideOf
<1>1. pair[d].pc = "token" /\ ServerHas(d)
  BY DEF Pair_token
<1>2. /\ pair[d].peer = s /\ pair[d].seq = 0 /\ pair[d].box = Box(s)
      /\ strm[s].pc \in {"stream", "over"} /\ strm[s].key \in Authorized
  BY <1>1, TokenDue
<1>3. /\ toServer' = [toServer EXCEPT ![s] = Tail(toServer[s])]
      /\ pair' = [pair EXCEPT ![d].pc = "stream"]
      /\ strm' = strm /\ toClient' = toClient
  BY <1>2 DEF Pair_token, ServerTakes
<1>4. /\ pair'[d].pc = "stream" /\ pair'[d].box = pair[d].box /\ pair'[d].peer = s
      /\ pair'[d].topic = pair[d].topic /\ pair'[d].seq = 0
      /\ DOMAIN pair'[d] = DOMAIN pair[d] /\ strm'[s] = strm[s] /\ toClient'[s] = toClient[s]
  BY <1>0, <1>2, <1>3 DEF PairRecordOk
<1>5. OneStream(s)
  BY <1>0, <1>3 DEF OneStream
<1>6. PairRecordOk(pair'[d]) /\ StreamRecordOk(strm'[s])
  BY <1>0, <1>4 DEF PairRecordOk
<1>7. DialInv(s, pair[SocketOf(s)], strm[s])'
  BY <1>0, <1>1, <1>2, <1>4 DEF DialInv
<1>8. ToServerInv(s, pair[SocketOf(s)], strm[s])'
  BY <1>2, <1>4 DEF ToServerInv
<1>9. ToClientInv(s, pair[SocketOf(s)], strm[s])'
  BY <1>0, <1>2, <1>4 DEF ToClientInv
<1> QED BY <1>5, <1>6, <1>7, <1>8, <1>9, OneStreamStep DEF PairSide, StreamInv

(* A function on 1..n+1 is its first n values and one more.                *)
LEMMA AppendLast ==
    ASSUME NEW S, NEW n \in Nat, NEW f \in [1..(n + 1) -> S],
           NEW q, q = [i \in 1..n |-> f[i]]
    PROVE  Append(q, f[n + 1]) = f
<1>1. q \in Seq(S) /\ Len(q) = n /\ f[n + 1] \in S
  OBVIOUS
<1>2. f \in Seq(S) /\ Len(f) = n + 1
  OBVIOUS
<1>3. PICK e \in S : e = f[n + 1]
  BY <1>1
<1>4. Append(q, e) \in Seq(S) /\ Len(Append(q, e)) = n + 1
  BY <1>1
<1>5. \A i \in 1..(n + 1) : Append(q, e)[i] = f[i]
  <2> TAKE i \in 1..(n + 1)
  <2>1. CASE i = n + 1
    BY <1>1, <1>3, <2>1
  <2>2. CASE i \in 1..n
    BY <1>1, <2>2
  <2> QED BY <2>1, <2>2
<1>6. Append(q, e) = f
  BY <1>2, <1>4, <1>5, SeqEqual
<1> QED BY <1>3, <1>6

(* ... and, from its second value on, one less.                            *)
LEMMA TailRest ==
    ASSUME NEW S, NEW n \in Nat, NEW f \in [1..(n + 1) -> S],
           NEW r \in [1..n -> S], \A i \in 1..n : r[i] = f[i + 1]
    PROVE  Head(f) = f[1] /\ Tail(f) = r
<1>1. f \in Seq(S) /\ Len(f) = n + 1 /\ f # <<>>
  OBVIOUS
<1>2. Head(f) = f[1]
  BY <1>1
<1>3. r \in Seq(S) /\ Len(r) = n
  OBVIOUS
<1>4. Tail(f) \in Seq(S) /\ Len(Tail(f)) = n /\ \A i \in 1..n : Tail(f)[i] = f[i + 1]
  BY <1>1, HeadTailProperties
<1>5. Tail(f) = r
  BY <1>3, <1>4, SeqEqual
<1> QED BY <1>2, <1>5

(* The next event goes behind those on their way.                          *)
LEMMA EventAppended ==
    ASSUME NEW s, NEW c \in Nat, NEW n \in Nat, c <= n
    PROVE  Append(OnWay(s, c, n), EventMsg(s, n + 1)) = OnWay(s, c, n + 1)
<1>1. PICK k \in Nat : k = n - c /\ k + 1 = (n + 1) - c /\ c + (k + 1) = n + 1
  OBVIOUS
<1>2. PICK f : f = [i \in 1..(k + 1) |-> EventMsg(s, c + i)]
  OBVIOUS
<1>3. PICK S : S = {f[i] : i \in 1..(k + 1)}
  OBVIOUS
<1>4. f \in [1..(k + 1) -> S]
  BY <1>2, <1>3
<1>5. OnWay(s, c, n) = [i \in 1..k |-> f[i]]
  BY <1>1, <1>2 DEF OnWay
<1>6. f[k + 1] = EventMsg(s, n + 1)
  <2>1. k + 1 \in 1..(k + 1)
    OBVIOUS
  <2> QED BY <1>1, <1>2, <2>1
<1>7. OnWay(s, c, n + 1) = f
  BY <1>1, <1>2 DEF OnWay
<1> QED BY <1>4, <1>5, <1>6, <1>7, AppendLast

(* The first of them is the next one to take.                              *)
LEMMA EventTaken ==
    ASSUME NEW s, NEW c \in Nat, NEW n \in Nat, c <= n, OnWay(s, c, n) # <<>>
    PROVE  /\ c + 1 <= n
           /\ Head(OnWay(s, c, n)) = EventMsg(s, c + 1)
           /\ Tail(OnWay(s, c, n)) = OnWay(s, c + 1, n)
<1>1. c # n
  <2> SUFFICES ASSUME c = n PROVE FALSE
    OBVIOUS
  <2>1. 1..(n - c) = {}
    OBVIOUS
  <2> QED BY <2>1 DEF OnWay
<1>2. PICK k \in Nat : k = n - (c + 1) /\ k + 1 = n - c
  BY <1>1
<1>3. PICK f : f = [i \in 1..(k + 1) |-> EventMsg(s, c + i)]
  OBVIOUS
<1>4. PICK S : S = {f[i] : i \in 1..(k + 1)}
  OBVIOUS
<1>5. OnWay(s, c, n) = f
  BY <1>2, <1>3 DEF OnWay
<1>6. f \in [1..(k + 1) -> S]
  BY <1>3, <1>4
<1>7. PICK r : r = OnWay(s, c + 1, n)
  OBVIOUS
<1>8. r = [i \in 1..k |-> EventMsg(s, (c + 1) + i)]
  BY <1>2, <1>7 DEF OnWay
<1>9. \A i \in 1..k : r[i] = f[i + 1] /\ f[i + 1] \in S
  <2> TAKE i \in 1..k
  <2>1. i + 1 \in 1..(k + 1) /\ c + (i + 1) = (c + 1) + i
    OBVIOUS
  <2> QED BY <1>3, <1>6, <1>8, <2>1
<1>10. r \in [1..k -> S]
  BY <1>8, <1>9
<1>11. Head(f) = f[1] /\ Tail(f) = r
  BY <1>6, <1>9, <1>10, TailRest
<1>12. f[1] = EventMsg(s, c + 1)
  <2>1. 1 \in 1..(k + 1)
    OBVIOUS
  <2> QED BY <1>3, <2>1
<1> QED BY <1>1, <1>5, <1>7, <1>11, <1>12

(* generate_events() yields.                                               *)
LEMMA PairEventStep ==
    ASSUME PairSide, NEW s \in StreamSockets, Pair_event(SocketOf(s))
    PROVE  PairSide' /\ OneStream(s)
<1> DEFINE d == SocketOf(s)
<1>0. /\ d \in PairSockets /\ s # NoPeer
      /\ DOMAIN pair = PairSockets /\ DOMAIN strm = StreamSockets
      /\ DOMAIN toServer = StreamSockets /\ DOMAIN toClient = StreamSockets
      /\ PairRecordOk(pair[d]) /\ StreamRecordOk(strm[s])
      /\ DialInv(s, pair[d], strm[s])
      /\ ToServerInv(s, pair[d], strm[s])
      /\ ToClientInv(s, pair[d], strm[s])
  BY SideOf
<1>1. pair[d].pc = "stream"
  BY DEF Pair_event
<1>2. /\ pair[d].peer = s /\ pair[d].box = Box(s) /\ pair[d].topic = Topic(s)
      /\ strm[s].pc \in {"stream", "over"} /\ strm[s].key \in Authorized
  BY <1>0, <1>1 DEF DialInv, ToServerInv
<1>3. PICK n : n = pair[d].seq
  OBVIOUS
<1>4. n \in Nat /\ strm[s].count \in Nat
  BY <1>0, <1>3 DEF PairRecordOk, StreamRecordOk
<1>5. PICK msg : msg = EventMsg(s, n + 1)
  OBVIOUS
<1>6. /\ toClient' = [toClient EXCEPT ![s] = Append(toClient[s], msg)]
      /\ pair' = [pair EXCEPT ![d].seq = n + 1]
      /\ strm' = strm /\ toServer' = toServer
  BY <1>2, <1>3, <1>5 DEF Pair_event, ServerSends, next_seq, EventMsg
<1>7. /\ pair'[d].pc = "stream" /\ pair'[d].box = pair[d].box /\ pair'[d].peer = s
      /\ pair'[d].topic = pair[d].topic /\ pair'[d].seq = n + 1
      /\ DOMAIN pair'[d] = DOMAIN pair[d] /\ strm'[s] = strm[s] /\ toServer'[s] = toServer[s]
      /\ toClient'[s] = Append(toClient[s], msg)
  BY <1>0, <1>1, <1>2, <1>6 DEF PairRecordOk
<1>8. OneStream(s)
  BY <1>0, <1>6 DEF OneStream
<1>9. PairRecordOk(pair'[d]) /\ StreamRecordOk(strm'[s])
  BY <1>0, <1>4, <1>7 DEF PairRecordOk
<1>10. DialInv(s, pair[SocketOf(s)], strm[s])'
  BY <1>0, <1>1, <1>2, <1>7 DEF DialInv
<1>11. ToServerInv(s, pair[SocketOf(s)], strm[s])'
  BY <1>2, <1>7 DEF ToServerInv
<1>12. ToClientInv(s, pair[SocketOf(s)], strm[s])'
  <2>1. CASE strm[s].pc = "stream"
    <3>1. PICK c \in Nat : c = strm[s].count
      BY <1>4
    <3>2. c <= n /\ strm[s].box = Box(s) /\ toClient[s] = OnWay(s, c, n)
      BY <1>0, <1>3, <2>1, <3>1 DEF ToClientInv
    <3>3. toClient'[s] = OnWay(s, c, n + 1)
      BY <1>4, <1>5, <1>7, <3>2, EventAppended
    <3>4. c <= n + 1
      BY <1>4, <3>2
    <3>5. c > 0 => strm[s].last = Event(Topic(s), c)
      BY <1>0, <3>1 DEF ToClientInv
    <3> QED BY <1>7, <2>1, <3>1, <3>2, <3>3, <3>4, <3>5 DEF ToClientInv
  <2>2. CASE strm[s].pc = "over"
    BY <1>0, <1>7, <2>2 DEF ToClientInv
  <2> QED BY <1>2, <2>1, <2>2
<1> QED BY <1>8, <1>9, <1>10, <1>11, <1>12, OneStreamStep DEF PairSide, StreamInv

(* The task ends and its socket is closed.                                 *)
LEMMA PairOverStep ==
    ASSUME PairSide, NEW s \in StreamSockets, pair[SocketOf(s)].pc # "none",
           pair' = PairOver(SocketOf(s)), UNCHANGED <<strm, toServer, toClient>>
    PROVE  PairSide' /\ OneStream(s)
<1> DEFINE d == SocketOf(s)
<1>0. /\ d \in PairSockets /\ DOMAIN pair = PairSockets /\ DOMAIN strm = StreamSockets
      /\ DOMAIN toServer = StreamSockets /\ DOMAIN toClient = StreamSockets
      /\ PairRecordOk(pair[d]) /\ StreamRecordOk(strm[s])
  BY SideOf
<1>1. /\ pair'[d].pc = "over" /\ pair'[d].peer = pair[d].peer
      /\ pair'[d].topic = pair[d].topic /\ pair'[d].seq = pair[d].seq
      /\ DOMAIN pair'[d] = DOMAIN pair[d] /\ DOMAIN pair' = PairSockets
      /\ \A e \in PairSockets \ {d} : pair'[e] = pair[e]
  BY <1>0 DEF PairOver, PairRecordOk
<1>2. OneStream(s)
  BY <1>0, <1>1 DEF OneStream
<1>3. PairRecordOk(pair'[d]) /\ StreamRecordOk(strm'[s])
  BY <1>0, <1>1 DEF PairRecordOk
<1>4. StreamInv(s)
  BY DEF PairSide, PairInv
<1>5. StreamInv(s)'
  BY <1>1, <1>4, SocketClosed
<1> QED BY <1>2, <1>3, <1>5, OneStreamStep DEF PairSide

(* Every step of a server socket.                                          *)
LEMMA PairSteps ==
    ASSUME PairSide, NEW d \in PairSockets, PairStep(d)
    PROVE  /\ PairSide' /\ strm' = strm
           /\ \A e \in PairSockets : pair[e].pc \in {"none", "bound"} => pair'[e].pc = pair[e].pc
<1>1. pair[d].pc \notin {"none", "bound"} /\ strm' = strm
  BY DEF PairStep, Pair_connect, Pair_hello, Pair_confirm, Pair_token, Pair_event, Pair_timeout,
         Pair_closed
<1>2. PICK s \in StreamSockets : d = SocketOf(s)
  BY <1>1, StreamOf DEF PairSide
<1>3. PairSide' /\ OneStream(s)
  <2>1. CASE Pair_hello(d)
    BY <1>2, <2>1, PairHelloStep
  <2>2. CASE Pair_confirm(d)
    BY <1>2, <2>2, PairConfirmStep
  <2>3. CASE Pair_token(d)
    BY <1>2, <2>3, PairTokenStep
  <2>4. CASE Pair_event(d)
    BY <1>2, <2>4, PairEventStep
  <2>5. CASE Pair_timeout(d) \/ Pair_closed(d)
    BY <1>1, <1>2, <2>5, PairOverStep DEF Pair_timeout, Pair_closed
  <2> QED BY <2>1, <2>2, <2>3, <2>4, <2>5 DEF PairStep, Pair_connect
<1> QED BY <1>1, <1>2, <1>3 DEF OneStream


-----------------------------------------------------------------------------
(* The steps of a client socket.                                           *)

(* It dials the socket of its own subscription, and says hello.            *)
LEMMA StreamHelloStep ==
    ASSUME PairSide, NEW s \in StreamSockets, Stream_hello(s)
    PROVE  /\ PairSide' /\ OneStream(s)
           /\ \A d \in PairSockets : pair'[d].pc = pair[d].pc
<1> DEFINE d == SocketOf(s)
<1>0. /\ d \in PairSockets /\ s # NoPeer
      /\ DOMAIN pair = PairSockets /\ DOMAIN strm = StreamSockets
      /\ DOMAIN toServer = StreamSockets /\ DOMAIN toClient = StreamSockets
      /\ PairRecordOk(pair[d]) /\ StreamRecordOk(strm[s])
      /\ DialInv(s, pair[d], strm[s])
      /\ ToClientInv(s, pair[d], strm[s])
  BY SideOf
<1>1. strm[s].pc = "dial" /\ strm[s].addr = d
  BY <1>0 DEF Stream_hello, DialInv
<1>2. pair[d].pc \in {"bound", "hello"} /\ pair[d].peer = NoPeer
  BY <1>1 DEF Stream_hello, Listening
<1>3. pair[d].seq = 0 /\ strm[s].count = 0 /\ toServer[s] = <<>> /\ toClient[s] = <<>>
      /\ pair[d].topic = Topic(s)
  BY <1>0, <1>2 DEF DialInv
<1>4. /\ pair' = [pair EXCEPT ![d].peer = s]
      /\ toServer' = [toServer EXCEPT ![s] = <<HelloMsg(s)>>]
      /\ strm' = [strm EXCEPT ![s].pc = "auth"]
      /\ toClient' = toClient
  BY <1>1, <1>3, PutFirst DEF Stream_hello, StreamSends, HelloMsg
<1>5. /\ pair'[d].pc = pair[d].pc /\ pair'[d].box = pair[d].box /\ pair'[d].peer = s
      /\ pair'[d].topic = pair[d].topic /\ pair'[d].seq = 0
      /\ DOMAIN pair'[d] = DOMAIN pair[d]
      /\ strm'[s].pc = "auth" /\ strm'[s].addr = d /\ strm'[s].count = 0
      /\ strm'[s].last = strm[s].last /\ DOMAIN strm'[s] = DOMAIN strm[s]
      /\ toServer'[s] = <<HelloMsg(s)>> /\ toClient'[s] = <<>>
  BY <1>0, <1>1, <1>3, <1>4 DEF PairRecordOk, StreamRecordOk
<1>6. OneStream(s)
  BY <1>0, <1>4 DEF OneStream
<1>7. PairRecordOk(pair'[d]) /\ StreamRecordOk(strm'[s])
  BY <1>0, <1>5 DEF PairRecordOk, StreamRecordOk
<1>8. DialInv(s, pair[SocketOf(s)], strm[s])'
  BY <1>2, <1>3, <1>5 DEF DialInv
<1>9. ToServerInv(s, pair[SocketOf(s)], strm[s])'
  BY <1>2, <1>5 DEF ToServerInv
<1>10. ToClientInv(s, pair[SocketOf(s)], strm[s])'
  BY <1>5 DEF ToClientInv
<1>11. PairSide'
  BY <1>6, <1>7, <1>8, <1>9, <1>10, OneStreamStep DEF PairSide, StreamInv
<1> QED BY <1>5, <1>6, <1>11 DEF OneStream

(* ServerAuth comes from that socket, and both sides have the same box.    *)
LEMMA StreamAuthStep ==
    ASSUME PairSide, NEW s \in StreamSockets, Stream_auth(s)
    PROVE  PairSide' /\ OneStream(s) /\ pair' = pair
<1> DEFINE d == SocketOf(s)
<1>0. /\ d \in PairSockets /\ s # NoPeer
      /\ DOMAIN pair = PairSockets /\ DOMAIN strm = StreamSockets
      /\ DOMAIN toServer = StreamSockets /\ DOMAIN toClient = StreamSockets
      /\ PairRecordOk(pair[d]) /\ StreamRecordOk(strm[s])
      /\ DialInv(s, pair[d], strm[s])
      /\ ToServerInv(s, pair[d], strm[s])
      /\ ToClientInv(s, pair[d], strm[s])
  BY SideOf
<1>1. strm[s].pc = "auth" /\ toClient[s] # <<>>
  BY DEF Stream_auth
<1>2. /\ pair[d].seq = 0 /\ strm[s].count = 0 /\ toClient[s] = <<AuthMsg(s)>>
      /\ pair[d].peer = s /\ strm[s].addr = d
  BY <1>0, <1>1 DEF ToClientInv, DialInv
<1>3. pair[d].pc \in {"confirm", "over"}
  BY <1>0, <1>1, <1>2 DEF PairRecordOk, ToServerInv, DialInv
<1>4. Head(toClient[s]).material = ServerMaterial(d) /\ Tail(toClient[s]) = <<>>
  BY <1>2, TakeOne DEF AuthMsg, make_server_auth
<1>5. PICK box : box = Box(s)
  OBVIOUS
<1>6. box = make_session_box(ClientMaterial(s), ServerMaterial(d))
  BY <1>5 DEF Box, make_session_box
<1>7. PICK msg : msg = ConfirmMsg(s)
  OBVIOUS
<1>8. /\ toServer' = [toServer EXCEPT ![s] = Append(toServer[s], msg)]
      /\ strm' = [strm EXCEPT ![s].pc = "token", ![s].box = box]
      /\ toClient' = [toClient EXCEPT ![s] = <<>>]
      /\ pair' = pair
  BY <1>4, <1>5, <1>6, <1>7 DEF Stream_auth, StreamSends, StreamTakes, ConfirmMsg
<1>9. /\ strm'[s].pc = "token" /\ strm'[s].box = box /\ strm'[s].addr = d /\ strm'[s].count = 0
      /\ strm'[s].key = strm[s].key /\ strm'[s].last = strm[s].last /\ DOMAIN strm'[s] = DOMAIN strm[s]
      /\ toServer'[s] = Append(toServer[s], msg) /\ toClient'[s] = <<>> /\ pair'[d] = pair[d]
  BY <1>0, <1>2, <1>8 DEF StreamRecordOk
<1>10. OneStream(s)
  BY <1>0, <1>8 DEF OneStream
<1>11. PairRecordOk(pair'[d]) /\ StreamRecordOk(strm'[s])
  BY <1>0, <1>9 DEF StreamRecordOk
<1>12. DialInv(s, pair[SocketOf(s)], strm[s])'
  BY <1>0, <1>2, <1>9 DEF DialInv
<1>13. msg = ConfirmMsg(s)'
  BY <1>7, <1>9 DEF ConfirmMsg
<1>14. ToServerInv(s, pair[SocketOf(s)], strm[s])'
  <2>1. CASE pair[d].pc = "confirm"
    <3>1. toServer[s] = <<>> /\ pair[d].box = Box(s)
      BY <1>0, <1>1, <2>1 DEF ToServerInv
    <3>2. toServer'[s] = <<msg>>
      BY <1>9, <3>1, PutFirst
    <3> QED BY <1>2, <1>9, <1>13, <2>1, <3>1, <3>2 DEF ToServerInv
  <2>2. CASE pair[d].pc = "over"
    BY <1>9, <2>2 DEF ToServerInv
  <2> QED BY <1>3, <2>1, <2>2
<1>15. OnWay(s, 0, 0) = <<>>
  <2>1. 1..(0 - 0) = {}
    OBVIOUS
  <2> QED BY <2>1 DEF OnWay
<1>16. ToClientInv(s, pair[SocketOf(s)], strm[s])'
  BY <1>2, <1>5, <1>9, <1>15 DEF ToClientInv
<1>17. PairSide'
  BY <1>10, <1>11, <1>12, <1>14, <1>16, OneStreamStep DEF PairSide, StreamInv
<1> QED BY <1>8, <1>10, <1>17

(* It shows the token.                                                     *)
LEMMA StreamTokenStep ==
    ASSUME PairSide, NEW s \in StreamSockets, Stream_token(s)
    PROVE  PairSide' /\ OneStream(s) /\ pair' = pair
<1> DEFINE d == SocketOf(s)
<1>0. /\ d \in PairSockets /\ s # NoPeer
      /\ DOMAIN pair = PairSockets /\ DOMAIN strm = StreamSockets
      /\ DOMAIN toServer = StreamSockets /\ DOMAIN toClient = StreamSockets
      /\ PairRecordOk(pair[d]) /\ StreamRecordOk(strm[s])
      /\ DialInv(s, pair[d], strm[s])
      /\ ToServerInv(s, pair[d], strm[s])
      /\ ToClientInv(s, pair[d], strm[s])
  BY SideOf
<1>1. strm[s].pc = "token"
  BY DEF Stream_token
<1>2. strm[s].box = Box(s) /\ pair[d].peer = s /\ strm[s].addr = d
  BY <1>0, <1>1 DEF ToClientInv, DialInv
<1>3. pair[d].pc \in {"confirm", "token", "over"}
  BY <1>0, <1>1, <1>2 DEF PairRecordOk, ToServerInv, DialInv
<1>4. PICK msg : msg = TokenMsg(s)
  OBVIOUS
<1>5. /\ toServer' = [toServer EXCEPT ![s] = Append(toServer[s], msg)]
      /\ strm' = [strm EXCEPT ![s].pc = "stream"]
      /\ pair' = pair /\ toClient' = toClient
  BY <1>2, <1>4 DEF Stream_token, StreamSends, TokenMsg
<1>6. /\ strm'[s].pc = "stream" /\ strm'[s].box = strm[s].box /\ strm'[s].addr = d
      /\ strm'[s].count = strm[s].count
      /\ strm'[s].key = strm[s].key /\ strm'[s].last = strm[s].last /\ DOMAIN strm'[s] = DOMAIN strm[s]
      /\ toServer'[s] = Append(toServer[s], msg) /\ toClient'[s] = toClient[s] /\ pair'[d] = pair[d]
  BY <1>0, <1>2, <1>5 DEF StreamRecordOk
<1>7. OneStream(s)
  BY <1>0, <1>5 DEF OneStream
<1>8. PairRecordOk(pair'[d]) /\ StreamRecordOk(strm'[s])
  BY <1>0, <1>6 DEF StreamRecordOk
<1>9. DialInv(s, pair[SocketOf(s)], strm[s])'
  BY <1>0, <1>2, <1>6 DEF DialInv
<1>10. PICK conf : conf = ConfirmMsg(s)
  OBVIOUS
<1>11. conf = ConfirmMsg(s)'
  BY <1>6, <1>10 DEF ConfirmMsg
<1>12. ToServerInv(s, pair[SocketOf(s)], strm[s])'
  <2>1. CASE pair[d].pc = "confirm"
    <3>1. toServer[s] = <<conf>> /\ pair[d].box = Box(s) /\ pair[d].seq = 0
      BY <1>0, <1>1, <1>10, <2>1 DEF ToServerInv
    <3>2. toServer'[s] = <<conf, msg>>
      BY <1>6, <3>1, PutSecond
    <3> QED BY <1>4, <1>6, <1>11, <2>1, <3>1, <3>2 DEF ToServerInv
  <2>2. CASE pair[d].pc = "token"
    <3>1. toServer[s] = <<>> /\ pair[d].box = Box(s) /\ pair[d].seq = 0 /\ strm[s].key \in Authorized
      BY <1>0, <1>1, <2>2 DEF ToServerInv
    <3>2. toServer'[s] = <<msg>>
      BY <1>6, <3>1, PutFirst
    <3> QED BY <1>4, <1>6, <2>2, <3>1, <3>2 DEF ToServerInv
  <2>3. CASE pair[d].pc = "over"
    BY <1>6, <2>3 DEF ToServerInv
  <2> QED BY <1>3, <2>1, <2>2, <2>3
<1>13. ToClientInv(s, pair[SocketOf(s)], strm[s])'
  BY <1>0, <1>1, <1>6 DEF ToClientInv
<1>14. PairSide'
  BY <1>7, <1>8, <1>9, <1>12, <1>13, OneStreamStep DEF PairSide, StreamInv
<1> QED BY <1>5, <1>7, <1>14

(* It takes the next event.                                                *)
LEMMA StreamEventStep ==
    ASSUME PairSide, NEW s \in StreamSockets, Stream_event(s)
    PROVE  PairSide' /\ OneStream(s) /\ pair' = pair
<1> DEFINE d == SocketOf(s)
<1>0. /\ d \in PairSockets /\ s # NoPeer
      /\ DOMAIN pair = PairSockets /\ DOMAIN strm = StreamSockets
      /\ DOMAIN toServer = StreamSockets /\ DOMAIN toClient = StreamSockets
      /\ PairRecordOk(pair[d]) /\ StreamRecordOk(strm[s])
      /\ DialInv(s, pair[d], strm[s])
      /\ ToServerInv(s, pair[d], strm[s])
      /\ ToClientInv(s, pair[d], strm[s])
  BY SideOf
<1>1. strm[s].pc = "stream" /\ toClient[s] # <<>>
  BY DEF Stream_event
<1>2. PICK c \in Nat, n \in Nat : c = strm[s].count /\ n = pair[d].seq
  BY <1>0 DEF PairRecordOk, StreamRecordOk
<1>3. strm[s].box = Box(s) /\ pair[d].peer = s /\ strm[s].addr = d
      /\ c <= n /\ toClient[s] = OnWay(s, c, n)
  BY <1>0, <1>1, <1>2 DEF ToClientInv, DialInv
<1>4. c + 1 <= n /\ Head(toClient[s]) = EventMsg(s, c + 1) /\ Tail(toClient[s]) = OnWay(s, c + 1, n)
  <2>1. c <= n /\ OnWay(s, c, n) # <<>> /\ toClient[s] = OnWay(s, c, n)
    BY <1>1, <1>3, Zenon
  <2>2. /\ c + 1 <= n
        /\ Head(OnWay(s, c, n)) = EventMsg(s, c + 1)
        /\ Tail(OnWay(s, c, n)) = OnWay(s, c + 1, n)
    BY <2>1, EventTaken, Zenon
  <2> QED BY <2>1, <2>2, Zenon
<1>5. PICK ev : ev = Event(Topic(s), c + 1)
  OBVIOUS
<1>6. Head(toClient[s]).body = ev
  BY <1>4, <1>5 DEF EventMsg, Encrypt
<1>7. PICK pc : pc = IF c + 1 = MaxEvents THEN "over" ELSE "stream"
  OBVIOUS
<1>8. PICK rest : rest = OnWay(s, c + 1, n)
  OBVIOUS
<1>9. /\ strm' = [strm EXCEPT ![s].count = c + 1, ![s].last = ev, ![s].pc = pc]
      /\ toClient' = [toClient EXCEPT ![s] = rest]
      /\ pair' = pair /\ toServer' = toServer
  BY <1>1, <1>2, <1>4, <1>6, <1>7, <1>8 DEF Stream_event, StreamTakes
<1>10. /\ strm'[s].pc = pc /\ strm'[s].box = strm[s].box /\ strm'[s].addr = d
       /\ strm'[s].count = c + 1
       /\ strm'[s].key = strm[s].key /\ strm'[s].last = ev /\ DOMAIN strm'[s] = DOMAIN strm[s]
       /\ toServer'[s] = toServer[s] /\ toClient'[s] = rest /\ pair'[d] = pair[d]
  BY <1>0, <1>3, <1>9 DEF StreamRecordOk
<1>11. pc \in {"stream", "over"}
  BY <1>7
<1>12. OneStream(s)
  BY <1>0, <1>9 DEF OneStream
<1>13. PairRecordOk(pair'[d]) /\ StreamRecordOk(strm'[s])
  BY <1>0, <1>10, <1>11 DEF StreamRecordOk
<1>14. DialInv(s, pair[SocketOf(s)], strm[s])'
  BY <1>0, <1>1, <1>3, <1>10, <1>11 DEF DialInv
<1>15. ConfirmMsg(s)' = ConfirmMsg(s)
  BY <1>10 DEF ConfirmMsg
<1>16. ToServerInv(s, pair[SocketOf(s)], strm[s])'
  BY <1>0, <1>1, <1>3, <1>10, <1>11, <1>15 DEF ToServerInv
<1>17. ToClientInv(s, pair[SocketOf(s)], strm[s])'
  BY <1>2, <1>3, <1>4, <1>5, <1>8, <1>10, <1>11 DEF ToClientInv
<1>18. PairSide'
  BY <1>12, <1>13, <1>14, <1>16, <1>17, OneStreamStep DEF PairSide, StreamInv
<1> QED BY <1>9, <1>12, <1>18

(* It is closed.                                                           *)
LEMMA StreamClosedStep ==
    ASSUME PairSide, NEW s \in StreamSockets, Stream_closed(s)
    PROVE  PairSide' /\ OneStream(s) /\ pair' = pair
<1> DEFINE d == SocketOf(s)
<1>0. /\ d \in PairSockets /\ DOMAIN pair = PairSockets /\ DOMAIN strm = StreamSockets
      /\ DOMAIN toServer = StreamSockets /\ DOMAIN toClient = StreamSockets
      /\ PairRecordOk(pair[d]) /\ StreamRecordOk(strm[s])
  BY SideOf
<1>1. strm[s].pc = "stream" /\ strm' = StreamOver(s) /\ UNCHANGED <<pair, toServer, toClient>>
  BY DEF Stream_closed
<1>2. /\ strm'[s].pc = "over" /\ strm'[s].addr = strm[s].addr /\ strm'[s].key = strm[s].key
      /\ strm'[s].count = strm[s].count /\ strm'[s].last = strm[s].last
      /\ DOMAIN strm'[s] = DOMAIN strm[s]
      /\ DOMAIN strm' = StreamSockets /\ \A t \in StreamSockets \ {s} : strm'[t] = strm[t]
  BY <1>0, <1>1 DEF StreamOver, StreamRecordOk
<1>3. OneStream(s)
  BY <1>0, <1>1, <1>2 DEF OneStream
<1>4. PairRecordOk(pair'[d]) /\ StreamRecordOk(strm'[s])
  BY <1>0, <1>1, <1>2 DEF StreamRecordOk
<1>5. StreamInv(s)
  BY DEF PairSide, PairInv
<1>6. StreamInv(s)'
  BY <1>1, <1>2, <1>5, StreamClosed
<1> QED BY <1>1, <1>3, <1>4, <1>6, OneStreamStep DEF PairSide

(* Every step of a client socket.                                          *)
LEMMA StreamSteps ==
    ASSUME PairSide, NEW s \in StreamSockets, StreamStep(s)
    PROVE  /\ PairSide'
           /\ \A d \in PairSockets : pair'[d].pc = pair[d].pc
           /\ \A t \in StreamSockets : strm[t].pc = "none" => strm'[t].pc = "none"
<1>1. strm[s].pc # "none"
  BY DEF StreamStep, Stream_connect, Stream_hello, Stream_auth, Stream_token, Stream_event, Stream_closed
<1>2. /\ PairSide' /\ OneStream(s) /\ \A d \in PairSockets : pair'[d].pc = pair[d].pc
  BY StreamHelloStep, StreamAuthStep, StreamTokenStep, StreamEventStep, StreamClosedStep
     DEF StreamStep, Stream_connect
<1> QED BY <1>1, <1>2 DEF OneStream

-----------------------------------------------------------------------------
(* The sockets a conversation has opened.                                  *)

(* A step that leaves every manager alone opens none.                      *)
LEMMA StillSubs ==
    ASSUME DOMAIN mgr' = Managers, \A m \in Managers : mgr'[m] = mgr[m]
    PROVE  SubsKept
BY DEF SubsKept

(* The finally block of _execute() ends the conversation.                  *)
LEMMA FinallySubs ==
    ASSUME ConvInv, NEW m \in Managers, NEW S, Execute_finally(m, S)
    PROVE  SubsKept
<1>1. mgr'[m].pc = "done" /\ \A n \in Managers \ {m} : mgr'[n] = mgr[n]
  BY Domains DEF Execute_finally, RecordOk, Fields
<1> QED BY <1>1 DEF SubsKept, Alive

(* A manager whose place only moves from sending to receiving keeps its    *)
(* conversation.                                                           *)
LEMMA SameAppSubs ==
    ASSUME NEW m \in Managers, mgr[m].pc \in Alive \cup {"unborn"},
           \A n \in Managers \ {m} : mgr'[n] = mgr[n],
           mgr'[m].app = mgr[m].app, mgr'[m].pc = mgr[m].pc \/ mgr'[m].pc = "ready"
    PROVE  SubsKept
BY DEF SubsKept, Alive

(* A finished asend() opens nothing.                                       *)
LEMMA SendDoneSubs ==
    ASSUME ConvInv, NEW m \in Managers, NEW over, SendDone(m, over)
    PROVE  SubsKept /\ (~over => mgr'[m].pc = "ready" /\ mgr'[m].app = mgr[m].app)
<1>1. CASE over
  BY <1>1, FinallySubs DEF SendDone
<1>2. CASE ~over
  <2>1. mgr[m].pc = "send" /\ mgr' = [mgr EXCEPT ![m].snd = NoCtx, ![m].pc = "ready"]
    BY <1>2 DEF SendDone
  <2>2. /\ mgr'[m].pc = "ready" /\ mgr'[m].app = mgr[m].app
        /\ \A n \in Managers \ {m} : mgr'[n] = mgr[n]
    BY <2>1, Domains DEF RecordOk, Fields
  <2> QED BY <1>2, <2>1, <2>2, SameAppSubs DEF Alive
<1> QED BY <1>1, <1>2

(* The callback about a removed pipe only tells the manager.               *)
LEMMA PipeStatusSubs ==
    ASSUME ConvInv, NEW p \in Pipes, HandlePipeStatusChange(p)
    PROVE  SubsKept
<1>1. CASE clients[p] = NoManager
  BY <1>1, Domains, StillSubs DEF HandlePipeStatusChange
<1>2. CASE clients[p] # NoManager
  <2>1. PICK m \in Managers : m = clients[p]
    BY <1>2 DEF ConvInv, Books, KnownInv
  <2>2. mgr' = [mgr EXCEPT ![m] = Disconnect(mgr[m])]
    BY <1>2, <2>1 DEF HandlePipeStatusChange
  <2>3. /\ mgr'[m].pc = mgr[m].pc /\ mgr'[m].app = mgr[m].app
        /\ \A n \in Managers \ {m} : mgr'[n] = mgr[n]
    BY <2>2, Domains DEF Disconnect, RecordOk, Fields
  <2> QED BY <2>3 DEF SubsKept
<1> QED BY <1>1, <1>2

(* The done callback forgets a conversation that has ended.                *)
LEMMA TaskDoneSubs ==
    ASSUME ConvInv, NEW m \in Managers, TaskDone(m)
    PROVE  SubsKept
<1>1. mgr' = [mgr EXCEPT ![m] = Over(mgr[m])]
  BY DEF TaskDone
<1>2. mgr'[m].pc = "over" /\ \A n \in Managers \ {m} : mgr'[n] = mgr[n]
  BY <1>1, Domains DEF Over
<1> QED BY <1>2 DEF SubsKept, Alive

(* A manager that is started has opened none, and one that gets another    *)
(* request stays where it is.                                              *)
LEMMA RecvDispatchSubs ==
    ASSUME ConvInv, NEW k \in Contexts, SecureRecvDispatch(k)
    PROVE  SubsKept
<1> DEFINE p == ctx[k].msg.pipe
           new == NewManager(NewHandshake)
<1>1. ctx[k].st = "got"
  BY DEF SecureRecvDispatch, RecvDispatch, RecvDispatchNoPipe
<1>2. p \in Pipes
  BY <1>1, RequestOf, Names
<1>3. CASE RecvDispatchNoPipe(k)
  BY <1>3, Domains, StillSubs DEF RecvDispatchNoPipe
<1>4. CASE RecvDispatch(k, NewHandshake) /\ Known(p)
  <2>1. PICK m \in Managers : m = clients[p]
    BY <1>2, <1>4 DEF ConvInv, Books, KnownInv, Known
  <2>2. Dispatch(k, m, mgr[m])
    BY <1>4, <2>1 DEF RecvDispatch
  <2>3. CASE mgr' = [mgr EXCEPT ![m] = mgr[m]]
    BY <2>3, Domains, StillSubs
  <2>4. CASE mgr' = [mgr EXCEPT ![m] = [mgr[m] EXCEPT !.inbox = Append(mgr[m].inbox, k)]]
    <3>1. /\ mgr'[m].pc = mgr[m].pc /\ mgr'[m].app = mgr[m].app
          /\ \A n \in Managers \ {m} : mgr'[n] = mgr[n]
      BY <2>4, Domains DEF RecordOk, Fields
    <3> QED BY <3>1 DEF SubsKept
  <2> QED BY <2>2, <2>3, <2>4 DEF Dispatch
<1>5. CASE RecvDispatch(k, NewHandshake) /\ ~Known(p)
  <2>1. PICK i \in 1..MaxManagers :
            mgr[<<p, i>>].pc = "unborn" /\ Dispatch(k, <<p, i>>, new)
    BY <1>5 DEF RecvDispatch
  <2>2. PICK m \in Managers : m = <<p, i>>
    BY <1>2 DEF Managers
  <2>3. mgr' = [mgr EXCEPT ![m] = [new EXCEPT !.inbox = Append(new.inbox, k)]]
    BY <2>1, <2>2 DEF Dispatch, NewManager, DoubleMessage
  <2>4. /\ mgr'[m].pc = "ready" /\ mgr'[m].app.subs = 0
        /\ \A n \in Managers \ {m} : mgr'[n] = mgr[n]
    BY <2>3, Domains DEF NewManager, NewHandshake
  <2>5. mgr[m].pc = "unborn" /\ mgr[m].app.subs = 0
    BY <2>1, <2>2, Domains DEF RecordOk, AppOk
  <2> QED BY <2>4, <2>5 DEF SubsKept, Alive
<1> QED BY <1>3, <1>4, <1>5 DEF SecureRecvDispatch

(* Every step of the server that is not one of a conversation.             *)
LEMMA ServerStepSubs ==
    ASSUME ConvInv, SecureServerStep
    PROVE  ConvInv' /\ SubsKept /\ UNCHANGED <<req, up>>
<1>0. UNCHANGED <<req, down>>
  BY DEF SecureServerStep
<1>1. ASSUME NEW k \in Contexts, NEW p \in Pipes, ContextReceives(k, p)
      PROVE  ConvInv' /\ SubsKept /\ UNCHANGED <<req, up>>
  BY <1>0, <1>1, Domains, ContextReceivesStep, StillSubs DEF ContextReceives
<1>2. ASSUME NEW k \in Contexts, SecureRecvDispatch(k)
      PROVE  ConvInv' /\ SubsKept /\ UNCHANGED <<req, up>>
  <2>1. UNCHANGED up
    BY <1>2 DEF SecureRecvDispatch, RecvDispatch, RecvDispatchNoPipe
  <2> QED BY <1>0, <1>2, <2>1, RecvDispatchStep, RecvDispatchSubs
<1>3. ASSUME NEW p \in Pipes, SecureHandlePipeStatusChange(p)
      PROVE  ConvInv' /\ SubsKept /\ UNCHANGED <<req, up>>
  <2>1. HandlePipeStatusChange(p) /\ UNCHANGED up
    BY <1>3 DEF SecureHandlePipeStatusChange, HandlePipeStatusChange
  <2> QED BY <1>0, <1>3, <2>1, PipeStatusStep, PipeStatusSubs
<1>4. ASSUME NEW m \in Managers, SecureReset(m)
      PROVE  ConvInv' /\ SubsKept /\ UNCHANGED <<req, up>>
  <2>1. Execute_finally(m, {}) /\ UNCHANGED up
    BY <1>4 DEF SecureReset, ConnectionReset
  <2> QED BY <1>0, <1>4, <2>1, ResetStep, FinallySubs
<1>5. ASSUME NEW m \in Managers, TaskDone(m)
      PROVE  ConvInv' /\ SubsKept /\ UNCHANGED <<req, up>>
  <2>1. UNCHANGED up
    BY <1>5 DEF TaskDone
  <2> QED BY <1>0, <1>5, <2>1, TaskDoneStep, TaskDoneSubs
<1> QED BY <1>1, <1>2, <1>3, <1>4, <1>5 DEF SecureServerStep

(* Every step of a handshake.                                              *)
LEMMA ManagerStepSubs ==
    ASSUME ConvInv, NEW m \in Managers, SecureManagerStep(m)
    PROVE  ConvInv' /\ SubsKept /\ UNCHANGED req
<1>1. CASE Execute_hello(m)
  BY <1>1, HelloStep DEF Execute_hello
<1>2. CASE Execute_confirm(m)
  BY <1>2, ConfirmStep DEF Execute_confirm
<1>3. CASE Execute_timeout(m)
  BY <1>3, TimeoutStep, EndsSubs DEF Execute_timeout, Raise
<1>4. CASE Execute_sent(m)
  <2>1. PICK over : over = (mgr[m].app.phase = "end")
    OBVIOUS
  <2>2. SendDone(m, over) /\ UNCHANGED req
    BY <1>4, <2>1 DEF Execute_sent
  <2> QED BY <1>4, <2>2, SentStep, SendDoneSubs
<1> QED BY <1>1, <1>2, <1>3, <1>4 DEF SecureManagerStep

(* Then the sockets opened are still those the managers count.             *)
LEMMA OpenedFrame ==
    ASSUME OpenedInv, SubsKept,
           \A d \in PairSockets : pair[d].pc = "none" => pair'[d].pc = "none",
           \A d \in PairSockets :
              pair[d].pc = "bound" /\ mgr'[d[1]].pc = "send" => pair'[d].pc = "bound"
    PROVE  OpenedInv'
<1> SUFFICES ASSUME NEW m \in Managers
             PROVE  /\ \A d \in PairSockets :
                          mgr'[m].pc \in Alive \cup {"unborn"} /\ d[1] = m /\ d[2] > mgr'[m].app.subs
                          => pair'[d].pc = "none"
                    /\ mgr'[m].pc = "send" /\ mgr'[m].app.phase = "loop" =>
                          /\ <<m, mgr'[m].app.subs>> \in PairSockets
                          /\ pair'[<<m, mgr'[m].app.subs>>].pc = "bound"
  BY DEF OpenedInv
<1>1. /\ \A d \in PairSockets :
            mgr[m].pc \in Alive \cup {"unborn"} /\ d[1] = m /\ d[2] > mgr[m].app.subs
            => pair[d].pc = "none"
      /\ mgr[m].pc = "send" /\ mgr[m].app.phase = "loop" =>
            /\ <<m, mgr[m].app.subs>> \in PairSockets
            /\ pair[<<m, mgr[m].app.subs>>].pc = "bound"
  BY DEF OpenedInv
<1>2. /\ mgr'[m].pc \in Alive \cup {"unborn"} =>
            mgr[m].pc \in Alive \cup {"unborn"} /\ mgr'[m].app.subs = mgr[m].app.subs
      /\ mgr'[m].pc = "send" /\ mgr'[m].app.phase = "loop" =>
            mgr[m].pc = "send" /\ mgr[m].app.phase = "loop"
  BY DEF SubsKept
<1>3. ASSUME NEW d \in PairSockets, mgr'[m].pc \in Alive \cup {"unborn"}, d[1] = m,
             d[2] > mgr'[m].app.subs
      PROVE  pair'[d].pc = "none"
  BY <1>1, <1>2, <1>3
<1>4. ASSUME mgr'[m].pc = "send", mgr'[m].app.phase = "loop"
      PROVE  /\ <<m, mgr'[m].app.subs>> \in PairSockets
             /\ pair'[<<m, mgr'[m].app.subs>>].pc = "bound"
  <2>1. mgr'[m].app.subs = mgr[m].app.subs /\ mgr[m].pc = "send" /\ mgr[m].app.phase = "loop"
    BY <1>2, <1>4 DEF Alive
  <2>2. PICK d \in PairSockets : d = <<m, mgr[m].app.subs>> /\ pair[d].pc = "bound"
    BY <1>1, <2>1
  <2>3. d[1] = m
    BY <2>2
  <2> QED BY <1>4, <2>1, <2>2, <2>3
<1> QED BY <1>3, <1>4

(* The same for the client: a topic it has not asked for has no stream.    *)
LEMMA StartedFrame ==
    ASSUME StartedInv,
           \A s \in StreamSockets : strm[s].pc = "none" => strm'[s].pc = "none",
           \A c \in Clients :
              req'[c].pc # "over" => req[c].pc # "over" /\ req'[c].subs = req[c].subs
    PROVE  StartedInv'
BY SocketNames DEF StartedInv

(* Streams whose messages stay where they are.                             *)
LEMMA SideFrame ==
    ASSUME PairSide, UNCHANGED <<pair, strm, toServer, toClient>>
    PROVE  PairSide'
<1>1. ASSUME NEW s \in StreamSockets
      PROVE  StreamInv(s)'
  BY StreamFrame DEF PairSide, PairInv, StreamSame
<1>2. PairTypeInv'
  BY DEF PairSide, PairTypeInv
<1> QED BY <1>1, <1>2 DEF PairSide, PairInv

(* The TaskGroup has ended: its sockets are closed.                        *)
LEMMA SocketsEnd ==
    ASSUME PairSide, UNCHANGED <<strm, toServer, toClient>>,
           pair' = [d \in PairSockets |-> IF pair[d].pc = "none" THEN pair[d] ELSE PairOver(d)[d]]
    PROVE  PairSide' /\ \A d \in PairSockets : pair[d].pc = "none" => pair'[d].pc = "none"
<1>1. DOMAIN pair = PairSockets /\ \A d \in PairSockets : PairRecordOk(pair[d])
  BY DEF PairSide, PairTypeInv
<1>2. ASSUME NEW d \in PairSockets, pair[d].pc = "none"
      PROVE  pair'[d] = pair[d]
  BY <1>2
<1>3. ASSUME NEW d \in PairSockets, pair[d].pc # "none"
      PROVE  /\ pair'[d].pc = "over" /\ pair'[d].peer = pair[d].peer
             /\ pair'[d].topic = pair[d].topic /\ pair'[d].seq = pair[d].seq
             /\ DOMAIN pair'[d] = DOMAIN pair[d]
  <2>1. pair'[d] = PairOver(d)[d] /\ PairRecordOk(pair[d])
    BY <1>1, <1>3
  <2>2. PairOver(d)[d] = [pair[d] EXCEPT !.pc = "over", !.box = NoPairBox]
    BY <1>1 DEF PairOver
  <2> QED BY <2>1, <2>2 DEF PairRecordOk
<1>4. ASSUME NEW s \in StreamSockets
      PROVE  StreamInv(s)'
  <2>1. SocketOf(s) \in PairSockets /\ StreamInv(s)
    BY SocketNames DEF PairSide, PairInv
  <2>2. CASE pair[SocketOf(s)].pc = "none"
    BY <1>2, <2>1, <2>2, StreamFrame DEF StreamSame
  <2>3. CASE pair[SocketOf(s)].pc # "none"
    BY <1>3, <2>1, <2>3, SocketClosed
  <2> QED BY <2>2, <2>3
<1>5. ASSUME NEW d \in PairSockets
      PROVE  /\ PairRecordOk(pair'[d])
             /\ pair'[d].pc # "none" => pair[d].pc # "none"
  <2>1. PairRecordOk(pair[d])
    BY <1>1
  <2> QED BY <1>2, <1>3, <2>1 DEF PairRecordOk
<1>6. PairTypeInv'
  BY <1>5 DEF PairSide, PairTypeInv
<1> QED BY <1>2, <1>4, <1>6 DEF PairSide, PairInv

-----------------------------------------------------------------------------
(* The steps of the two programs together.                                 *)

(* A step of the server that ends no TaskGroup leaves it up.               *)
LEMMA ServerUp ==
    ASSUME SecureServerStep
    PROVE  up'
<1>1. ASSUME NEW k \in Contexts, NEW p \in Pipes, ContextReceives(k, p)
      PROVE  up /\ UNCHANGED up
  BY <1>1 DEF ContextReceives
<1>2. ASSUME NEW k \in Contexts, SecureRecvDispatch(k)
      PROVE  up /\ UNCHANGED up
  BY <1>2 DEF SecureRecvDispatch, RecvDispatch, RecvDispatchNoPipe
<1>3. ASSUME NEW p \in Pipes, SecureHandlePipeStatusChange(p)
      PROVE  up /\ UNCHANGED up
  BY <1>3 DEF SecureHandlePipeStatusChange, HandlePipeStatusChange
<1>4. ASSUME NEW m \in Managers, SecureReset(m) \/ TaskDone(m)
      PROVE  up /\ UNCHANGED up
  BY <1>4 DEF SecureReset, ConnectionReset, TaskDone
<1>5. up /\ UNCHANGED up
  BY <1>1, <1>2, <1>3, <1>4 DEF SecureServerStep
<1> QED BY <1>5

(* A step of a manager leaves it up, or ends the TaskGroup.                *)
LEMMA ManagerUp ==
    ASSUME NEW m \in Managers, SecureManagerStep(m)
    PROVE  up' \/ TaskGroupEnds
<1>1. CASE Execute_hello(m)
  BY <1>1, Zenon DEF Execute_hello, Raise
<1>2. CASE Execute_confirm(m)
  BY <1>2, Zenon DEF Execute_confirm, Raise
<1>3. CASE Execute_timeout(m)
  BY <1>3 DEF Execute_timeout, Raise
<1>4. CASE Execute_sent(m)
  <2>1. up /\ UNCHANGED up
    BY <1>4 DEF Execute_sent, SendDone
  <2> QED BY <2>1
<1> QED BY <1>1, <1>2, <1>3, <1>4 DEF SecureManagerStep

(* No task raises: what arrives decrypts and parses.                       *)
LEMMA NoTaskRaises ==
    ASSUME IInv
    PROVE  ~TaskRaises
BY NeverRaises, NoPairRaises DEF IInv, PairSide, TaskRaises

(* The server's dispatch and handshake tasks, and the sockets that close   *)
(* with its TaskGroup.                                                     *)
LEMMA ServerStepAndPairsStep ==
    ASSUME IInv, ServerStepAndPairs
    PROVE  IInv'
<1>0. ConvInv /\ PairSide /\ OpenedInv /\ StartedInv /\ DOMAIN pair = PairSockets
  BY DEF IInv, PairSide, PairTypeInv
<1>1. /\ ConvInv' /\ SubsKept /\ UNCHANGED req
      /\ up' \/ \A m \in Managers : mgr'[m].pc \in {"unborn", "over"}
  <2>1. CASE SecureServerStep
    BY <1>0, <2>1, ServerStepSubs, ServerUp
  <2>2. ASSUME NEW m \in Managers, SecureManagerStep(m)
        PROVE  /\ ConvInv' /\ SubsKept /\ UNCHANGED req
               /\ up' \/ \A n \in Managers : mgr'[n].pc \in {"unborn", "over"}
    BY <1>0, <2>2, ManagerStepSubs, ManagerUp, EndsSubs
  <2> QED BY <2>1, <2>2, NoTaskRaises DEF ServerStepAndPairs
<1>2. UNCHANGED <<strm, toServer, toClient>>
  BY DEF ServerStepAndPairs, PairsFollow
<1>3. StartedInv'
  BY <1>0, <1>1, <1>2, StartedFrame
<1>4. CASE up'
  <2>1. pair' = pair
    BY <1>4 DEF ServerStepAndPairs, PairsFollow
  <2>2. PairSide'
    BY <1>0, <1>2, <2>1, SideFrame
  <2>3. OpenedInv'
    BY <1>0, <1>1, <2>1, OpenedFrame
  <2> QED BY <1>1, <1>3, <2>2, <2>3 DEF IInv, PairSide
<1>5. CASE ~up'
  <2>1. pair' = [d \in PairSockets |-> IF pair[d].pc = "none" THEN pair[d] ELSE PairOver(d)[d]]
    BY <1>5 DEF ServerStepAndPairs, PairsFollow
  <2>2. PairSide' /\ \A d \in PairSockets : pair[d].pc = "none" => pair'[d].pc = "none"
    BY <1>0, <1>2, <2>1, SocketsEnd
  <2>3. \A d \in PairSockets : d[1] \in Managers
    BY DEF PairSockets
  <2>4. OpenedInv'
    BY <1>0, <1>1, <1>5, <2>2, <2>3, OpenedFrame
  <2> QED BY <1>1, <1>3, <2>2, <2>4 DEF IInv, PairSide
<1> QED BY <1>4, <1>5

(* conversation() opens the socket of the topic it was asked for.          *)
LEMMA ConversationStepInv ==
    ASSUME IInv, NEW m \in Managers, Conversation(m)
    PROVE  IInv'
<1>0. ConvInv /\ PairSide /\ OpenedInv /\ StartedInv
  BY DEF IInv, PairSide
<1>1. /\ ConvInv' /\ Answers(m, mgr'[m].app)
      /\ mgr'[m].app.subs = mgr[m].app.subs + 1 /\ mgr'[m].app.phase = "loop"
  BY <1>0, ConversationAnswers
<1>2. ConversationReceives(m) /\ mgr[m].pc = "ready"
  BY DEF Conversation, ConversationReceives
<1>3. PICK c \in Clients :
         /\ m = First(c)
         /\ ConversationBody(m).body = SubscribeRequest(Topics[c][mgr[m].app.subs + 1])
         /\ mgr[m].app.subs \in Nat /\ mgr[m].app.subs < Len(Topics[c])
  BY <1>0, <1>2, RequestInStep
<1>4. PICK n \in Nat : n = mgr[m].app.subs + 1
  BY <1>3
<1>5. Topics[c] \in Seq(Nat \ {0})
  BY SubscriptionAssumption
<1>6. n \in DOMAIN Topics[c]
  BY <1>3, <1>4, <1>5
<1>7. PICK s \in StreamSockets : s = <<c, n>>
  <2>1. <<c, n>> \in {c} \X DOMAIN Topics[c]
    BY <1>6
  <2> QED BY <2>1 DEF StreamSockets
<1>8. s[1] = c /\ s[2] = n /\ SocketOf(s) = <<m, n>>
  BY <1>3, <1>7 DEF SocketOf
<1>9. PICK d : d = SocketOf(s)
  OBVIOUS
<1>10. /\ d \in PairSockets /\ s # NoPeer /\ d[1] = m /\ d[2] = n /\ d = <<m, n>>
       /\ DOMAIN pair = PairSockets /\ DOMAIN strm = StreamSockets
       /\ DOMAIN toServer = StreamSockets /\ DOMAIN toClient = StreamSockets
       /\ PairRecordOk(pair[d]) /\ StreamRecordOk(strm[s])
       /\ DialInv(s, pair[d], strm[s])
       /\ ToClientInv(s, pair[d], strm[s])
  BY <1>0, <1>8, <1>9, SideOf
<1>11. pair[d].pc = "none"
  <2>1. d[2] > mgr[m].app.subs /\ mgr[m].pc \in Alive \cup {"unborn"}
    BY <1>2, <1>3, <1>4, <1>10 DEF Alive
  <2> QED BY <1>0, <1>10, <2>1 DEF OpenedInv
<1>12. UNCHANGED <<strm, toServer, toClient, req>> /\ pair' = Create(d, Topic(s))
  <2>1. ConversationBody(m).body.topic = Topic(s)
    BY <1>3, <1>4, <1>8 DEF SubscribeRequest, Topic
  <2>2. pair' = Create(<<m, mgr[m].app.subs + 1>>, ConversationBody(m).body.topic)
    BY DEF Conversation
  <2> QED BY <1>4, <1>10, <2>1, <2>2 DEF Conversation
<1>13. /\ pair'[d].pc = "bound" /\ pair'[d].topic = Topic(s) /\ pair'[d].peer = pair[d].peer
       /\ pair'[d].seq = pair[d].seq /\ DOMAIN pair'[d] = DOMAIN pair[d]
       /\ DOMAIN pair' = PairSockets /\ \A e \in PairSockets \ {d} : pair'[e] = pair[e]
  BY <1>10, <1>12 DEF Create, PairRecordOk
<1>14. OneStream(s)
  BY <1>9, <1>10, <1>12, <1>13 DEF OneStream
<1>15. PairRecordOk(pair'[d]) /\ StreamRecordOk(strm'[s])
  BY <1>10, <1>12, <1>13 DEF PairRecordOk
<1>16. pair[d].peer = NoPeer
  BY <1>10, <1>11 DEF DialInv
<1>17. StreamInv(s)'
  <2>1. DialInv(s, pair[SocketOf(s)], strm[s])'
    BY <1>9, <1>10, <1>11, <1>12, <1>13, <1>16 DEF DialInv
  <2>2. ToServerInv(s, pair[SocketOf(s)], strm[s])'
    BY <1>9, <1>10, <1>13, <1>16 DEF ToServerInv
  <2>3. ToClientInv(s, pair[SocketOf(s)], strm[s])'
    BY <1>9, <1>10, <1>12, <1>13 DEF ToClientInv
  <2> QED BY <2>1, <2>2, <2>3 DEF StreamInv
<1>18. PairSide'
  BY <1>0, <1>9, <1>14, <1>15, <1>17, OneStreamStep DEF PairSide
<1>19. StartedInv'
  BY <1>0, <1>12, StartedFrame
<1>20. OpenedInv'
  <2> SUFFICES ASSUME NEW k \in Managers
               PROVE  /\ \A e \in PairSockets :
                            mgr'[k].pc \in Alive \cup {"unborn"} /\ e[1] = k /\ e[2] > mgr'[k].app.subs
                            => pair'[e].pc = "none"
                      /\ mgr'[k].pc = "send" /\ mgr'[k].app.phase = "loop" =>
                            /\ <<k, mgr'[k].app.subs>> \in PairSockets
                            /\ pair'[<<k, mgr'[k].app.subs>>].pc = "bound"
    BY DEF OpenedInv
  <2>1. \A e \in PairSockets : e[2] \in Nat
    <3> TAKE e \in PairSockets
    <3>1. PICK b \in Managers : e \in {b} \X DOMAIN Topics[Owner(PipeOf(b))]
      BY DEF PairSockets
    <3>2. Topics[Owner(PipeOf(b))] \in Seq(Nat \ {0})
      BY SubscriptionAssumption, Names
    <3> QED BY <3>1, <3>2
  <2>2. CASE k = m
    <3>1. \A e \in PairSockets : e[1] = m /\ e[2] > n => pair[e].pc = "none" /\ e # d
      <4> SUFFICES ASSUME NEW e \in PairSockets, e[1] = m, e[2] > n
                   PROVE  pair[e].pc = "none" /\ e # d
        OBVIOUS
      <4>1. e[2] > mgr[m].app.subs /\ mgr[m].pc \in Alive \cup {"unborn"}
        BY <1>2, <1>3, <1>4, <2>1 DEF Alive
      <4>2. pair[e].pc = "none"
        BY <1>0, <4>1 DEF OpenedInv
      <4>3. e # d
        BY <1>10
      <4> QED BY <4>2, <4>3
    <3>2. <<m, mgr'[m].app.subs>> = d /\ pair'[d].pc = "bound" /\ d \in PairSockets
      BY <1>1, <1>4, <1>10, <1>13
    <3>3. \A e \in PairSockets : e[1] = m /\ e[2] > n => pair'[e].pc = "none"
      BY <1>13, <3>1
    <3> QED BY <1>1, <1>4, <2>2, <3>2, <3>3
  <2>3. CASE k # m
    <3>1. mgr'[k] = mgr[k]
      BY <1>1, <2>3 DEF Answers, OthersSame
    <3>2. \A e \in PairSockets : e[1] = k => pair'[e] = pair[e]
      BY <1>10, <1>13, <2>3
    <3>3. PICK q : q = <<k, mgr[k].app.subs>>
      OBVIOUS
    <3>4. q[1] = k
      BY <3>3
    <3> QED BY <1>0, <3>1, <3>2, <3>3, <3>4 DEF OpenedInv
  <2> QED BY <2>2, <2>3
<1> QED BY <1>1, <1>18, <1>19, <1>20 DEF IInv, PairSide

(* Its answer is sent: the socket gets its task.                           *)
LEMMA ConversationSentInv ==
    ASSUME IInv, NEW m \in Managers, Conversation_sent(m)
    PROVE  IInv'
<1>0. ConvInv /\ PairSide /\ PairTypeInv /\ OpenedInv /\ StartedInv
  BY DEF IInv, PairSide
<1>1. ConvInv'
  BY <1>0, ConversationSentStep
<1>2. /\ mgr[m].pc = "send" /\ mgr[m].app.phase = "loop" /\ SendDone(m, FALSE)
      /\ UNCHANGED <<req, strm, toServer, toClient>>
  BY DEF Conversation_sent
<1>3. SubsKept /\ mgr'[m].pc = "ready"
  BY <1>0, <1>2, SendDoneSubs
<1>4. PICK d \in PairSockets : d = <<m, mgr[m].app.subs>> /\ pair[d].pc = "bound"
  BY <1>0, <1>2 DEF OpenedInv
<1>5. d[1] = m
  BY <1>4
<1>6. PICK s \in StreamSockets : d = SocketOf(s)
  BY <1>0, <1>4, StreamOf
<1>7. /\ DOMAIN pair = PairSockets /\ DOMAIN strm = StreamSockets
      /\ DOMAIN toServer = StreamSockets /\ DOMAIN toClient = StreamSockets
      /\ PairRecordOk(pair[d]) /\ StreamRecordOk(strm[s])
      /\ DialInv(s, pair[d], strm[s])
      /\ ToServerInv(s, pair[d], strm[s])
      /\ ToClientInv(s, pair[d], strm[s])
  BY <1>0, <1>6, SideOf
<1>8. pair' = [pair EXCEPT ![d].pc = "hello"]
  BY <1>4 DEF Conversation_sent, ServeClient
<1>9. /\ pair'[d].pc = "hello" /\ pair'[d].topic = pair[d].topic /\ pair'[d].peer = pair[d].peer
      /\ pair'[d].seq = pair[d].seq /\ DOMAIN pair'[d] = DOMAIN pair[d]
      /\ DOMAIN pair' = PairSockets /\ \A e \in PairSockets \ {d} : pair'[e] = pair[e]
  BY <1>7, <1>8 DEF PairRecordOk
<1>10. OneStream(s)
  BY <1>2, <1>6, <1>7, <1>9 DEF OneStream
<1>11. PairRecordOk(pair'[d]) /\ StreamRecordOk(strm'[s])
  BY <1>2, <1>7, <1>9 DEF PairRecordOk
<1>12. StreamInv(s)'
  <2>1. DialInv(s, pair[SocketOf(s)], strm[s])'
    BY <1>2, <1>4, <1>6, <1>7, <1>9 DEF DialInv
  <2>2. ToServerInv(s, pair[SocketOf(s)], strm[s])'
    BY <1>2, <1>4, <1>6, <1>7, <1>9 DEF ToServerInv
  <2>3. ToClientInv(s, pair[SocketOf(s)], strm[s])'
    BY <1>2, <1>6, <1>7, <1>9 DEF ToClientInv
  <2> QED BY <2>1, <2>2, <2>3 DEF StreamInv
<1>13. PairSide'
  BY <1>0, <1>6, <1>10, <1>11, <1>12, OneStreamStep DEF PairSide
<1>14. StartedInv'
  BY <1>0, <1>2, StartedFrame
<1>15. OpenedInv'
  BY <1>0, <1>3, <1>4, <1>5, <1>9, OpenedFrame
<1> QED BY <1>1, <1>13, <1>14, <1>15 DEF IInv, PairSide

(* Its answer is not sent: the conversation ends, the socket stays bound.  *)
LEMMA ConversationFailedInv ==
    ASSUME IInv, NEW m \in Managers, Conversation_sendFailed(m)
    PROVE  IInv'
<1>0. ConvInv /\ PairSide /\ OpenedInv /\ StartedInv
  BY DEF IInv, PairSide
<1>1. SecureSendFailed(m) /\ UNCHANGED <<req, down, pair, strm, toServer, toClient>>
  BY DEF Conversation_sendFailed
<1>2. ConvInv'
  BY <1>0, <1>1, SendFailedStep
<1>3. SubsKept
  BY <1>0, <1>1, FinallySubs DEF SecureSendFailed, SendFailed
<1>4. PairSide' /\ OpenedInv' /\ StartedInv'
  BY <1>0, <1>1, <1>3, SideFrame, OpenedFrame, StartedFrame
<1> QED BY <1>2, <1>4 DEF IInv, PairSide

(* What happens on the PAIR sockets leaves the conversations alone.        *)
LEMMA ConvFrame ==
    ASSUME ConvInv, UNCHANGED secureVars
    PROVE  ConvInv' /\ UNCHANGED <<mgr, req>>
<1>1. UNCHANGED <<link, wire, replies, reported, ctx, clients, mgr, up, req, down>>
  BY DEF secureVars, serverVars
<1>2. MgrInv' /\ KnownInv' /\ LinkInv' /\ CtxInv' /\ SlotInv'
  BY <1>1 DEF ConvInv, Books, MgrInv, KnownInv, LinkInv, CtxInv, SlotInv, Open
<1>3. AppInv' /\ DownInv'
  BY <1>1 DEF ConvInv, AppInv, DownInv
<1>4. ASSUME NEW c \in Clients
      PROVE  Exchange(c)'
  <2>1. Exchange(c)
    BY DEF ConvInv, ExchangeInv
  <2>2. ReqOk(c)' /\ Caught(c)' = Caught(c)
    BY <1>1, <2>1 DEF Exchange, ReqOk, Caught, Open
  <2>3. \A k \in Contexts : PendingOn(k, c)' = PendingOn(k, c)
    BY <1>1 DEF PendingOn, Pending
  <2>4. \A n : InSync(c, n)' = InSync(c, n)
    BY <1>1 DEF InSync
  <2>5. WireOk(c)'
    BY <1>1, <2>1, <2>3, <2>4 DEF Exchange, WireOk
  <2>6. PendingOk(c)'
    BY <1>1, <2>1, <2>3, <2>4 DEF Exchange, PendingOk
  <2>7. RepliesOk(c)'
    BY <1>1, <2>1, <2>2, <2>3 DEF Exchange, RepliesOk, ReplyOk
  <2> QED BY <1>1, <2>1, <2>2, <2>5, <2>6, <2>7 DEF Exchange
<1>5. ExchangeInv'
  BY <1>1, <1>4 DEF ConvInv, ExchangeInv
<1> QED BY <1>1, <1>2, <1>3, <1>5 DEF ConvInv, Books

(* serve_client() opens no socket and starts no stream.                    *)
LEMMA PairTaskInv ==
    ASSUME IInv, NEW d \in PairSockets, PairTask(d)
    PROVE  IInv'
<1>0. ConvInv /\ PairSide /\ OpenedInv /\ StartedInv
  BY DEF IInv, PairSide
<1>1. PairStep(d) /\ UNCHANGED secureVars
  BY DEF PairTask
<1>2. ConvInv' /\ UNCHANGED <<mgr, req>>
  BY <1>0, <1>1, ConvFrame
<1>3. /\ PairSide' /\ strm' = strm
      /\ \A e \in PairSockets : pair[e].pc \in {"none", "bound"} => pair'[e].pc = pair[e].pc
  BY <1>0, <1>1, PairSteps
<1>4. SubsKept
  BY <1>2 DEF SubsKept
<1>5. OpenedInv' /\ StartedInv'
  BY <1>0, <1>2, <1>3, <1>4, OpenedFrame, StartedFrame
<1> QED BY <1>2, <1>3, <1>5 DEF IInv, PairSide

(* Nor does stream_topic().                                                *)
LEMMA StreamTaskInv ==
    ASSUME IInv, NEW s \in StreamSockets, StreamTask(s)
    PROVE  IInv'
<1>0. ConvInv /\ PairSide /\ OpenedInv /\ StartedInv
  BY DEF IInv, PairSide
<1>1. StreamStep(s) /\ UNCHANGED secureVars
  BY DEF StreamTask
<1>2. ConvInv' /\ UNCHANGED <<mgr, req>>
  BY <1>0, <1>1, ConvFrame
<1>3. /\ PairSide'
      /\ \A d \in PairSockets : pair'[d].pc = pair[d].pc
      /\ \A t \in StreamSockets : strm[t].pc = "none" => strm'[t].pc = "none"
  BY <1>0, <1>1, StreamSteps
<1>4. SubsKept
  BY <1>2 DEF SubsKept
<1>5. OpenedInv' /\ StartedInv'
  BY <1>0, <1>2, <1>3, <1>4, OpenedFrame, StartedFrame
<1> QED BY <1>2, <1>3, <1>5 DEF IInv, PairSide

(* A client's handshake and its requests start no stream.                  *)
LEMMA AskInv ==
    ASSUME IInv, NEW c \in Clients, ReqStep(c) \/ Subscribe(c)
    PROVE  IInv'
<1>0. ConvInv /\ PairSide /\ OpenedInv /\ StartedInv /\ DOMAIN req = Clients
      /\ DOMAIN req[c] = {"pc", "box", "subs", "key"}
  BY DEF IInv, PairSide, ConvInv, ExchangeInv, Exchange, ReqOk
<1>1. UNCHANGED <<pair, strm, toServer, toClient, mgr>>
  BY DEF ReqStep, Req_connect, Req_hello, Req_auth, Req_ack, Subscribe
<1>2. ConvInv'
  BY <1>0, ReqHelloStep, ReqAuthStep, ReqAckStep, SubscribeStep DEF ReqStep, Req_connect
<1>3. /\ req[c].pc # "over" /\ req'[c].subs = req[c].subs
      /\ \A d \in Clients \ {c} : req'[d] = req[d]
  <2>1. CASE Req_hello(c)
    BY <1>0, <2>1 DEF Req_hello
  <2>2. CASE Req_auth(c)
    BY <1>0, <2>2 DEF Req_auth
  <2>3. CASE Req_ack(c)
    BY <1>0, <2>3 DEF Req_ack
  <2>4. CASE Subscribe(c)
    BY <1>0, <2>4, SubscribeStep DEF Subscribe
  <2> QED BY <2>1, <2>2, <2>3, <2>4 DEF ReqStep, Req_connect
<1>4. SubsKept
  BY <1>1 DEF SubsKept
<1>5. PairSide' /\ OpenedInv' /\ StartedInv'
  BY <1>0, <1>1, <1>3, <1>4, SideFrame, OpenedFrame, StartedFrame
<1> QED BY <1>2, <1>5 DEF IInv, PairSide

(* The answer starts the stream of the topic, and the client counts it.    *)
LEMMA ResponseInv ==
    ASSUME IInv, NEW c \in Clients, Response(c)
    PROVE  IInv'
<1>0. ConvInv /\ PairSide /\ OpenedInv /\ StartedInv
  BY DEF IInv, PairSide
<1>1. /\ ConvInv'
      /\ ReplyBody(c).body.addr = <<First(c), req[c].subs + 1>>
      /\ req[c].subs \in Nat /\ req[c].subs < Len(Topics[c]) /\ req[c].pc # "over"
      /\ req'[c].pc = "over" \/ req'[c].subs = req[c].subs + 1
      /\ \A d \in Clients \ {c} : req'[d] = req[d]
  BY <1>0, ResponseStep
<1>2. PICK n \in Nat : n = req[c].subs + 1
  BY <1>1
<1>3. n \in DOMAIN Topics[c]
  <2>1. Topics[c] \in Seq(Nat \ {0})
    BY SubscriptionAssumption
  <2> QED BY <1>1, <1>2, <2>1
<1>4. PICK s \in StreamSockets : s = <<c, n>>
  <2>1. <<c, n>> \in {c} \X DOMAIN Topics[c]
    BY <1>3
  <2> QED BY <2>1 DEF StreamSockets
<1>5. s[1] = c /\ s[2] = n /\ SocketOf(s) = <<First(c), n>>
  BY <1>4 DEF SocketOf
<1>6. PICK d : d = SocketOf(s)
  OBVIOUS
<1>7. /\ d \in PairSockets /\ s # NoPeer
      /\ DOMAIN pair = PairSockets /\ DOMAIN strm = StreamSockets
      /\ DOMAIN toServer = StreamSockets /\ DOMAIN toClient = StreamSockets
      /\ PairRecordOk(pair[d]) /\ StreamRecordOk(strm[s])
      /\ DialInv(s, pair[d], strm[s])
      /\ ToClientInv(s, pair[d], strm[s])
  BY <1>0, <1>6, SideOf
<1>8. strm[s].pc = "none"
  <2>1. s[2] > req[s[1]].subs /\ req[s[1]].pc # "over"
    BY <1>1, <1>2, <1>5
  <2> QED BY <1>0, <2>1 DEF StartedInv
<1>9. UNCHANGED <<pair, toServer, toClient, mgr>> /\ strm' = StreamTopic(s, d, req[c].key)
  <2>1. strm' = StreamTopic(<<c, req[c].subs + 1>>, ReplyBody(c).body.addr, req[c].key)
    BY DEF Response
  <2> QED BY <1>1, <1>2, <1>4, <1>5, <1>6, <2>1 DEF Response
<1>10. /\ strm'[s].pc = "dial" /\ strm'[s].addr = d /\ strm'[s].count = strm[s].count
       /\ DOMAIN strm'[s] = DOMAIN strm[s]
       /\ DOMAIN strm' = StreamSockets /\ \A t \in StreamSockets \ {s} : strm'[t] = strm[t]
  BY <1>7, <1>9 DEF StreamTopic, StreamRecordOk
<1>11. OneStream(s)
  BY <1>7, <1>9, <1>10 DEF OneStream
<1>12. PairRecordOk(pair'[d]) /\ StreamRecordOk(strm'[s])
  BY <1>7, <1>9, <1>10 DEF StreamRecordOk
<1>13. /\ pair[d].peer = NoPeer /\ strm[s].count = 0
       /\ pair[d].pc \in {"none", "bound", "hello", "over"}
  BY <1>7, <1>8 DEF DialInv
<1>14. StreamInv(s)'
  <2>1. DialInv(s, pair[SocketOf(s)], strm[s])'
    BY <1>6, <1>7, <1>8, <1>9, <1>10, <1>13 DEF DialInv
  <2>2. ToServerInv(s, pair[SocketOf(s)], strm[s])'
    BY <1>6, <1>7, <1>9, <1>13 DEF ToServerInv
  <2>3. ToClientInv(s, pair[SocketOf(s)], strm[s])'
    BY <1>6, <1>10, <1>13 DEF ToClientInv
  <2> QED BY <2>1, <2>2, <2>3 DEF StreamInv
<1>15. PairSide'
  BY <1>0, <1>6, <1>11, <1>12, <1>14, OneStreamStep DEF PairSide
<1>16. StartedInv'
  <2> SUFFICES ASSUME NEW t \in StreamSockets, req'[t[1]].pc # "over", t[2] > req'[t[1]].subs
               PROVE  strm'[t].pc = "none"
    BY DEF StartedInv
  <2>1. t[1] \in Clients /\ t[2] \in Nat
    <3>1. t[1] \in Clients /\ t[2] \in DOMAIN Topics[t[1]]
      BY SocketNames
    <3> QED BY <3>1, SubscriptionAssumption
  <2>2. CASE t[1] = c
    <3>1. t[2] > n
      BY <1>1, <1>2, <2>2
    <3>2. t # s /\ t[2] > req[t[1]].subs /\ req[t[1]].pc # "over"
      BY <1>1, <1>2, <1>5, <2>1, <2>2, <3>1
    <3> QED BY <1>0, <1>10, <3>2 DEF StartedInv
  <2>3. CASE t[1] # c
    BY <1>0, <1>1, <1>5, <1>10, <2>1, <2>3 DEF StartedInv
  <2> QED BY <2>2, <2>3
<1>17. SubsKept
  BY <1>9 DEF SubsKept
<1>18. OpenedInv'
  BY <1>0, <1>9, <1>17, OpenedFrame
<1> QED BY <1>1, <1>15, <1>16, <1>18 DEF IInv, PairSide

(* A client that ends, stopped or by an exception, closes its sockets.     *)
LEMMA ClientEndsInv ==
    ASSUME IInv, NEW c \in Clients, ClientEnds(c)
    PROVE  IInv'
<1>0. ConvInv /\ PairSide /\ OpenedInv /\ StartedInv
  BY DEF IInv, PairSide
<1>1. ConvInv' /\ req'[c].pc = "over" /\ \A d \in Clients \ {c} : req'[d] = req[d]
  BY <1>0, ClientEndsStep
<1>2. /\ UNCHANGED <<pair, toServer, toClient, mgr>>
      /\ strm' = [s \in StreamSockets |-> IF s[1] = c /\ Live(s) THEN StreamOver(s)[s] ELSE strm[s]]
  BY DEF ClientEnds
<1>3. DOMAIN strm = StreamSockets /\ \A s \in StreamSockets : StreamRecordOk(strm[s])
  BY <1>0 DEF PairSide, PairTypeInv
<1>4. ASSUME NEW s \in StreamSockets, ~(s[1] = c /\ Live(s))
      PROVE  strm'[s] = strm[s]
  BY <1>2, <1>4
<1>5. ASSUME NEW s \in StreamSockets, s[1] = c, Live(s)
      PROVE  /\ strm'[s].pc = "over" /\ strm'[s].addr = strm[s].addr /\ strm'[s].key = strm[s].key
             /\ strm'[s].count = strm[s].count /\ strm'[s].last = strm[s].last
             /\ DOMAIN strm'[s] = DOMAIN strm[s] /\ strm[s].pc # "none"
  <2>1. strm'[s] = StreamOver(s)[s] /\ StreamRecordOk(strm[s])
    BY <1>2, <1>3, <1>5
  <2>2. StreamOver(s)[s] = [strm[s] EXCEPT !.pc = "over", !.box = NoPairBox]
    BY <1>3 DEF StreamOver
  <2>3. strm[s].pc # "none"
    BY <1>5 DEF Live
  <2> QED BY <2>1, <2>2, <2>3 DEF StreamRecordOk
<1>6. ASSUME NEW s \in StreamSockets
      PROVE  StreamInv(s)' /\ StreamRecordOk(strm'[s])
  <2>1. StreamInv(s) /\ StreamRecordOk(strm[s])
    BY <1>0, <1>3 DEF PairSide, PairInv
  <2>2. CASE s[1] = c /\ Live(s)
    <3>1. StreamInv(s)'
      BY <1>2, <1>5, <2>1, <2>2, StreamClosed
    <3>2. StreamRecordOk(strm'[s])
      BY <1>5, <2>1, <2>2 DEF StreamRecordOk
    <3> QED BY <3>1, <3>2
  <2>3. CASE ~(s[1] = c /\ Live(s))
    BY <1>2, <1>4, <2>1, <2>3, StreamFrame DEF StreamSame
  <2> QED BY <2>2, <2>3
<1>7. PairSide'
  <2>1. PairTypeInv'
    BY <1>0, <1>2, <1>6 DEF PairSide, PairTypeInv
  <2> QED BY <1>6, <2>1 DEF PairSide, PairInv
<1>8. \A s \in StreamSockets : strm[s].pc = "none" => strm'[s].pc = "none"
  BY <1>4 DEF Live
<1>9. SubsKept
  BY <1>2 DEF SubsKept
<1>10. OpenedInv' /\ StartedInv'
  BY <1>0, <1>1, <1>2, <1>8, <1>9, OpenedFrame, StartedFrame
<1> QED BY <1>1, <1>7, <1>10 DEF IInv, PairSide

-----------------------------------------------------------------------------
(* The two programs start with no request, no manager and no socket.       *)
LEMMA InitConvInv ==
    ASSUME SecureInit
    PROVE  ConvInv
<1>1. /\ link = [p \in Pipes |-> IF p[2] = 1 THEN "open" ELSE "unused"]
      /\ wire = [p \in Pipes |-> <<>>] /\ replies = [p \in Pipes |-> <<>>] /\ reported = {}
      /\ ctx = [k \in Contexts |-> [st |-> "recv", msg |-> NoMsg]]
      /\ clients = [p \in Pipes |-> NoManager]
      /\ mgr = [m \in Managers |-> Unborn(NewHandshake)]
      /\ up = TRUE /\ down = "up"
      /\ req \in [Clients -> {NewReqClient(key) : key \in Keys}]
  BY DEF SecureInit, ServerInit
<1>2. PICK u : u = Unborn(NewHandshake)
  OBVIOUS
<1>3. /\ DOMAIN u = Fields /\ u.pc = "unborn" /\ u.running = FALSE /\ u.inbox = <<>>
      /\ u.cur = NoCtx /\ u.snd = NoCtx /\ u.app = NewHandshake
  BY <1>2 DEF Unborn, NewManager, Fields
<1>4. RecordOk(u) /\ HeldIn(u) = {NoCtx} /\ Range(u.inbox) = {}
  <2>1. Range(u.inbox) = {}
    BY <1>3, RangeEmpty
  <2>2. AppOk(u)
    BY <1>3 DEF AppOk, NewHandshake
  <2> QED BY <1>3, <2>1, <2>2 DEF RecordOk, Alive, InboxForm, HeldIn
<1>5. \A m \in Managers : mgr[m] = u
  BY <1>1, <1>2
<1>6. MgrInv
  BY <1>1, <1>4, <1>5 DEF MgrInv
<1>7. KnownInv
  BY <1>1, <1>3, <1>4, <1>5, Names DEF KnownInv
<1>8. LinkInv
  <2>1. \A p \in Pipes : Open(p) => p = Pipe(Owner(p))
    BY <1>1 DEF Open, Pipe, Owner, Pipes
  <2> QED BY <1>1, <1>3, <1>5, <2>1 DEF LinkInv
<1>9. CtxInv
  BY <1>1 DEF CtxInv
<1>10. NoCtx \notin Contexts
  BY DEF NoCtx
<1>11. SlotInv
  BY <1>4, <1>5, <1>10 DEF SlotInv
<1>12. \A k \in Contexts : ~Pending(k)
  BY <1>1, <1>4, <1>5 DEF Pending
<1>13. ASSUME NEW c \in Clients
       PROVE  Exchange(c)
  <2>1. PICK key \in Keys : req[c] = NewReqClient(key)
    BY <1>1
  <2>2. /\ req[c].pc = "hello" /\ req[c].subs = 0 /\ DOMAIN req[c] = {"pc", "box", "subs", "key"}
    BY <2>1 DEF NewReqClient
  <2>3. mgr[First(c)].pc = "unborn" /\ Pipe(c) \in Pipes
    BY <1>3, <1>5, Names
  <2>4. Len(Topics[c]) \in Nat /\ 0 < Len(Topics[c])
    BY SubscriptionAssumption
  <2>5. ReqOk(c)
    BY <2>2, <2>3, <2>4 DEF ReqOk, Waiting
  <2>6. WireOk(c) /\ RepliesOk(c)
    BY <1>1, <2>3 DEF WireOk, RepliesOk
  <2>7. PendingOk(c)
    BY <1>12 DEF PendingOk, PendingOn
  <2> QED BY <2>2, <2>5, <2>6, <2>7 DEF Exchange
<1>14. ExchangeInv
  BY <1>1, <1>13 DEF ExchangeInv
<1>15. AppInv /\ DownInv
  BY <1>1, <1>3, <1>5 DEF AppInv, DownInv, Alive
<1> QED BY <1>6, <1>7, <1>8, <1>9, <1>11, <1>14, <1>15 DEF ConvInv, Books

(* The invariant holds at first.                                           *)
LEMMA InitIInv ==
    ASSUME Init
    PROVE  IInv
<1>1. SecureInit /\ PairInit
  BY DEF Init
<1>2. /\ pair = [d \in PairSockets |-> NewPair] /\ strm = [s \in StreamSockets |-> NewStream]
      /\ toServer = [s \in StreamSockets |-> <<>>] /\ toClient = [s \in StreamSockets |-> <<>>]
  BY <1>1 DEF PairInit
<1>3. PairTypeInv
  BY <1>2 DEF PairTypeInv, PairRecordOk, StreamRecordOk, NewPair, NewStream
<1>4. ASSUME NEW s \in StreamSockets
      PROVE  StreamInv(s)
  <2>1. SocketOf(s) \in PairSockets /\ s # NoPeer
    BY SocketNames
  <2>2. pair[SocketOf(s)] = NewPair /\ strm[s] = NewStream /\ toServer[s] = <<>> /\ toClient[s] = <<>>
    BY <1>2, <2>1
  <2>3. /\ NewPair.pc = "none" /\ NewPair.peer = NoPeer /\ NewPair.seq = 0
        /\ NewStream.pc = "none" /\ NewStream.count = 0
    BY DEF NewPair, NewStream
  <2> QED BY <2>1, <2>2, <2>3 DEF StreamInv, DialInv, ToServerInv, ToClientInv
<1>5. \A m \in Managers : mgr[m].pc = "unborn"
  BY <1>1 DEF SecureInit, ServerInit, Unborn, NewManager
<1>6. OpenedInv
  BY <1>2, <1>5 DEF OpenedInv, NewPair
<1>7. StartedInv
  BY <1>2 DEF StartedInv, NewStream
<1> QED BY <1>1, <1>3, <1>4, <1>6, <1>7, InitConvInv DEF IInv, PairInv

(* Every step of both programs keeps the invariant.                        *)
LEMMA NextIInv ==
    ASSUME IInv, [Next]_vars
    PROVE  IInv'
<1>1. CASE UNCHANGED vars
  <2>1. ConvInv /\ PairSide /\ OpenedInv /\ StartedInv
    BY DEF IInv, PairSide
  <2>2. UNCHANGED secureVars /\ UNCHANGED <<pair, strm, toServer, toClient>>
    BY <1>1 DEF vars
  <2>3. ConvInv' /\ UNCHANGED <<mgr, req>>
    BY <2>1, <2>2, ConvFrame
  <2>4. SubsKept
    BY <2>3 DEF SubsKept
  <2>5. PairSide' /\ OpenedInv' /\ StartedInv'
    BY <2>1, <2>2, <2>3, <2>4, SideFrame, OpenedFrame, StartedFrame
  <2> QED BY <2>3, <2>5 DEF IInv, PairSide
<1>2. CASE ServerStepAndPairs
  BY <1>2, ServerStepAndPairsStep
<1>3. ASSUME NEW m \in Managers, ConversationStep(m)
      PROVE  IInv'
  BY <1>3, ConversationStepInv, ConversationSentInv, ConversationFailedInv DEF ConversationStep
<1>4. ASSUME NEW d \in PairSockets, PairTask(d)
      PROVE  IInv'
  BY <1>4, PairTaskInv
<1>5. ASSUME NEW c \in Clients, ClientStep(c) \/ Crash(c)
      PROVE  IInv'
  BY <1>5, AskInv, ResponseInv, ClientEndsInv DEF ClientStep, ClientRaises, Crash
<1>6. ASSUME NEW s \in StreamSockets, StreamTask(s)
      PROVE  IInv'
  BY <1>6, StreamTaskInv
<1> QED BY <1>1, <1>2, <1>3, <1>4, <1>5, <1>6 DEF Next, Running

(* The invariant of the two programs.                                      *)
LEMMA SpecIInv == Spec => []IInv
<1>1. Init => IInv
  BY InitIInv
<1>2. IInv /\ [Next]_vars => IInv'
  BY NextIInv
<1> QED BY <1>1, <1>2, PTL DEF Spec

-----------------------------------------------------------------------------
(* A manager of secure_rep.py that talks to its client past the handshake  *)
(* shares its box with the client of its own pipe, and that client's key   *)
(* is one of authorized_vks, for any number of clients, contexts,          *)
(* connections and managers.                                               *)
THEOREM SpecConversationIsAuthenticated == Spec => []ConversationIsAuthenticated
<1>1. IInv => ConversationIsAuthenticated
  <2> SUFFICES ASSUME IInv, NEW m \in Managers, mgr[m].pc \in Alive, InConversation(m)
               PROVE  /\ mgr[m].app.box = make_session_box(m, Owner(PipeOf(m)))
                      /\ req[Owner(PipeOf(m))].key \in Authorized
    BY DEF ConversationIsAuthenticated, Alive
  <2>1. mgr[m].app.phase \in {"ack", "loop"}
    BY DEF InConversation
  <2>2. PICK c : c = Owner(PipeOf(m))
    OBVIOUS
  <2>3. mgr[m].app.box = {c, m} /\ req[c].key \in Authorized
    BY <2>1, <2>2 DEF IInv, ConvInv, AppInv
  <2> QED BY <2>2, <2>3 DEF make_session_box
<1> QED BY <1>1, SpecIInv, PTL

(* _execute() lets two exceptions out only: the TimeoutError of the        *)
(* handshake, and the parse error of a request that was dispatched after   *)
(* its pipe had closed.  No message of a client that runs this code fails  *)
(* to decrypt, to verify or to parse while its connection is open, in the  *)
(* conversations or on the PAIR sockets.                                   *)
THEOREM SpecStopsOnlyForTimeoutOrLateRequest == Spec => []StopsOnlyForTimeoutOrLateRequest
<1>1. IInv => StopsOnlyForTimeoutOrLateRequest
  BY DEF IInv, ConvInv, DownInv, StopsOnlyForTimeoutOrLateRequest
<1> QED BY <1>1, SpecIInv, PTL

(* serve_client() streams to the subscriber: the peer of a server socket   *)
(* that streams is a stream of the client whose conversation opened the    *)
(* socket, for the topic it asked for, with an authorized key and, while   *)
(* it lives, the same box.                                                 *)
THEOREM SpecStreamsToSubscriber == Spec => []StreamsToSubscriber
<1>1. IInv => StreamsToSubscriber
  <2> SUFFICES ASSUME IInv, NEW d \in PairSockets, pair[d].pc = "stream", NEW s, s = pair[d].peer
               PROVE  /\ s[1] = Owner(PipeOf(d[1])) /\ Topic(s) = pair[d].topic
                      /\ strm[s].addr = d
                      /\ strm[s].key \in Authorized
                      /\ Live(s) => strm[s].box = pair[d].box
    BY DEF StreamsToSubscriber
  <2>1. PairSide /\ PairTypeInv
    BY DEF IInv, PairSide
  <2>2. PICK t \in StreamSockets : d = SocketOf(t) /\ t[1] = Owner(PipeOf(d[1]))
    BY <2>1, StreamOf
  <2>3. /\ DialInv(t, pair[d], strm[t])
        /\ ToServerInv(t, pair[d], strm[t])
        /\ ToClientInv(t, pair[d], strm[t])
    BY <2>1, <2>2, SideOf
  <2>4. s = t /\ strm[t].addr = d /\ pair[d].topic = Topic(t)
    BY <2>2, <2>3 DEF DialInv
  <2>5. pair[d].box = Box(t) /\ strm[t].key \in Authorized /\ strm[t].pc \in {"stream", "over"}
    BY <2>3 DEF ToServerInv
  <2>6. strm[t].pc = "stream" => strm[t].box = Box(t)
    BY <2>3 DEF ToClientInv
  <2> QED BY <2>2, <2>4, <2>5, <2>6 DEF Live
<1> QED BY <1>1, SpecIInv, PTL

(* stream_topic() yields the events of the topic it was opened for, each   *)
(* once and in order: the n-th one it takes is the n-th one that           *)
(* generate_events() made for that topic.                                  *)
THEOREM SpecEventsOfOwnTopic == Spec => []EventsOfOwnTopic
<1>1. IInv => EventsOfOwnTopic
  BY SideOf DEF IInv, PairSide, ToClientInv, EventsOfOwnTopic
<1> QED BY <1>1, SpecIInv, PTL
====
