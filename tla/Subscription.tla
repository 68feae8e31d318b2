----------------------------- MODULE Subscription -----------------------------
(* The secure subscriber example: a client asks the SubscriptionReqServer, in *)
(* an encrypted REQ/REP conversation, for a topic; the server opens a PAIR    *)
(* socket for it, answers with its address and a token, and streams the       *)
(* topic's events there.  Both programs follow the code; a client may stop    *)
(* at any moment.                                                             *)
EXTENDS SecureRep

CONSTANTS
    Topics,       \* the list of topics each client subscribes to
    MaxEvents     \* events a client takes of each

ASSUME SubscriptionAssumption ==
    /\ \A c \in Clients : Topics[c] \in Seq(Nat \ {0}) /\ Topics[c] # <<>>
    /\ MaxEvents \in Nat \ {0}

VARIABLES pair, strm, toServer, toClient

\* A server socket belongs to a manager, a client socket to a client; the
\* number is the place of the topic in the client's list.
PairSockets == UNION {{m} \X DOMAIN Topics[Owner(PipeOf(m))] : m \in Managers}
StreamSockets == UNION {{c} \X DOMAIN Topics[c] : c \in Clients}
Topic(s) == Topics[s[1]][s[2]]

INSTANCE SecurePair WITH
    PairIds <- PairSockets, Streams <- StreamSockets,
    PairKeys <- Authorized, PairKey <- ServerKey

vars == <<secureVars, pair, strm, toServer, toClient>>

SubscribeRequest(topic) == [type |-> "request", topic |-> topic]
SubscribeResponse(d) == [type |-> "response", addr |-> d]

Init == SecureInit /\ PairInit

----------------------------------------------------------------------------
(* SubscriptionReqServer.                                                  *)

\* A TaskGroup that ends closes the PAIR sockets of its tasks.
PairsFollow ==
    /\ pair' = IF up' THEN pair
               ELSE [d \in PairSockets |-> IF pair[d].pc = "none" THEN pair[d]
                                           ELSE PairOver(d)[d]]
    /\ UNCHANGED <<strm, toServer, toClient>>

\* Variant: the socket of another conversation is named.
ResponseLatest(m, d) ==
    LET others == {e \in PairSockets : pair[e].pc = "bound" /\ e # d}
    IN  SubscribeResponse(IF others = {} THEN d ELSE CHOOSE e \in others : TRUE)
Response_for(m, d) == SubscribeResponse(d)

\* conversation(): a request is received, a PAIR socket bound, and its
\* address and token sent.  The address is free: that somebody takes the port
\* that pick_pair_addr() gave back is left out.
Conversation(m) ==
    /\ up
    /\ ConversationReceives(m)
    /\ Decrypts(mgr[m].app.box, ConversationBody(m))
    /\ LET request == ConversationBody(m).body
           d == <<m, mgr[m].app.subs + 1>>
       IN  /\ request.type = "request"
           /\ ConversationReply(m, Response_for(m, d))
           /\ pair' = Create(d, request.topic)
           /\ mgr' = [mgr EXCEPT ![m] = [Sending(Received(@)) EXCEPT
                                            !.app.phase = "loop", !.app.subs = d[2]]]
    /\ UNCHANGED <<link, wire, reported, ctx, clients, up, req, down>>
    /\ UNCHANGED <<strm, toServer, toClient>>

\* The answer is sent: serve_client() starts as a task of its own.
Conversation_sent(m) ==
    /\ mgr[m].pc = "send"
    /\ mgr[m].app.phase = "loop"
    /\ SendDone(m, FALSE)
    /\ pair' = ServeClient(<<m, mgr[m].app.subs>>)
    /\ UNCHANGED <<req, down, strm, toServer, toClient>>

\* asend() fails: the conversation ends, and a bound PAIR socket stays
\* behind without a task.
Conversation_sendFailed(m) ==
    /\ SecureSendFailed(m)
    /\ UNCHANGED <<req, down, pair, strm, toServer, toClient>>

\* What the tasks do not catch: a request that does not decrypt or parse
\* (answered with an error first), and what serve_client() lets through.
ConversationRaises(m) ==
    /\ ConversationReceives(m)
    /\ \/ ~Decrypts(mgr[m].app.box, ConversationBody(m))
       \/ ConversationBody(m).body.type # "request"

TaskRaises ==
    /\ up
    /\ \/ (\E m \in Managers : ConversationRaises(m)) /\ Raise("conversation")
       \/ (\E d \in PairSockets : PairRaises(d)) /\ Raise("pair")
    /\ UNCHANGED req

ServerStepAndPairs ==
    /\ \/ SecureServerStep
       \/ \E m \in Managers : SecureManagerStep(m)
       \/ TaskRaises
    /\ PairsFollow

ConversationStep(m) ==
    Conversation(m) \/ Conversation_sent(m) \/ Conversation_sendFailed(m)

PairTask(d) ==
    /\ up
    /\ PairStep(d)
    /\ UNCHANGED secureVars

----------------------------------------------------------------------------
(* The client program: main() and its stream_topic() tasks.                *)

ReqStep(c) ==
    /\ Req_connect(c)
    /\ UNCHANGED <<pair, strm, toServer, toClient>>

\* The next topic is asked for.
Subscribe(c) ==
    /\ req[c].pc = "ready"
    /\ Req_asend(c, SubscribeRequest(Topic(<<c, req[c].subs + 1>>)), "response")
    /\ UNCHANGED <<link, replies, reported, ctx, clients, mgr, up, down>>
    /\ UNCHANGED <<pair, strm, toServer, toClient>>

\* The response starts a task; after the last topic the REQ socket is closed.
Response(c) ==
    /\ req[c].pc = "response"
    /\ HasReply(c)
    /\ Decrypts(req[c].box, ReplyBody(c))
    /\ TakeReply(c)
    /\ LET n == req[c].subs + 1
       IN  /\ strm' = StreamTopic(<<c, n>>, ReplyBody(c).body.addr, req[c].key)
           /\ IF n = Len(Topics[c])
              THEN ClosePipe(Pipe(c)) /\ req' = Req_over(c)
              ELSE UNCHANGED <<link, wire>> /\ req' = [req EXCEPT ![c].pc = "ready", ![c].subs = n]
    /\ UNCHANGED <<reported, ctx, clients, mgr, up, down>>
    /\ UNCHANGED <<pair, toServer, toClient>>

StreamTask(s) ==
    /\ StreamStep(s)
    /\ UNCHANGED secureVars

\* An exception ends the client's TaskGroup, and so do a handshake that
\* times out and a connection that is closed: every socket is closed.
ReqRaises(c) ==
    \/ req[c].pc \in {"hello", "auth", "ack"}
    \/ req[c].pc \in {"ready", "response"} /\ ~Open(Pipe(c))
    \/ req[c].pc = "response" /\ HasReply(c) /\ ~Decrypts(req[c].box, ReplyBody(c))

ClientEnds(c) ==
    /\ ClosePipe(Pipe(c))
    /\ req' = Req_over(c)
    /\ replies' = [replies EXCEPT ![Pipe(c)] = <<>>]
    /\ strm' = [s \in StreamSockets |-> IF s[1] = c /\ Live(s) THEN StreamOver(s)[s] ELSE strm[s]]
    /\ UNCHANGED <<reported, ctx, clients, mgr, up, down, pair, toServer, toClient>>

ClientRaises(c) ==
    /\ ReqRaises(c) \/ \E n \in DOMAIN Topics[c] : StreamRaises(<<c, n>>)
    /\ ClientEnds(c)

\* The client program stops.
Crash(c) ==
    /\ req[c].pc # "over" \/ \E n \in DOMAIN Topics[c] : Live(<<c, n>>)
    /\ ClientEnds(c)

ClientStep(c) == ReqStep(c) \/ Subscribe(c) \/ Response(c) \/ ClientRaises(c)

----------------------------------------------------------------------------
Running ==
    \/ ServerStepAndPairs
    \/ \E m \in Managers : ConversationStep(m)
    \/ \E d \in PairSockets : PairTask(d)
    \/ \E c \in Clients : ClientStep(c)
    \/ \E s \in StreamSockets : StreamTask(s)

Next == Running \/ \E c \in Clients : Crash(c)

\* The loops of both programs run what can run, nng delivers, timers expire.
Spec == Init /\ [][Next]_vars /\ WF_vars(Running)

----------------------------------------------------------------------------
(* Events go to the client that subscribed: the peer of a socket that       *)
(* streams is a stream of the client whose conversation opened the socket,  *)
(* for the same topic, with an authorized key and the same box.             *)
StreamsToSubscriber ==
    \A d \in PairSockets :
        pair[d].pc = "stream" =>
            LET s == pair[d].peer
            IN  /\ s[1] = Owner(PipeOf(d[1])) /\ Topic(s) = pair[d].topic
                /\ strm[s].addr = d
                /\ strm[s].key \in Authorized
                /\ Live(s) => strm[s].box = pair[d].box

(* A stream gets the events of the topic it was opened for, each once and  *)
(* in order, whichever sockets the other subscriptions were given.         *)
EventsOfOwnTopic ==
    \A s \in StreamSockets :
        strm[s].count > 0 => strm[s].last = Event(Topic(s), strm[s].count)

(* Everything ends: a client gets its events or fails, and then no socket  *)
(* opened for it stays behind with a task, no context waits for it and its *)
(* manager is gone, or the server has stopped.  Only a manager started by  *)
(* a request that arrived after its pipe's removal may be left.            *)
Settled ==
    /\ \A c \in Clients : req[c].pc = "over"
    /\ \A s \in StreamSockets : ~Live(s)
    /\ \A d \in PairSockets : pair[d].pc \in {"none", "bound", "over"}
    /\ \A k \in Contexts : ctx[k].st = "recv"
    /\ \A m \in Managers : mgr[m].running \/ mgr[m].pc \in {"unborn", "over"}

SubscriptionsSettle == <>[](Settled \/ ~up)

=============================================================================
