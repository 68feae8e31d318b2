------------------------------ MODULE SecurePair ------------------------------
(* The secure PAIR sockets of the subscription example: an ephemeral server   *)
(* socket per subscription (SecurePairServer, EphemeralPairServer and the     *)
(* task serve_client()), and the client socket that dials it (SecurePairClient, *)
(* EphemeralPairClient and the task stream_topic()).  After the handshake the *)
(* client shows the token it was given and the server streams events.         *)
EXTENDS Naturals, Sequences, Handshake

CONSTANTS
    PairIds,      \* the server sockets; one stands for its address and token too
    Streams,      \* the client sockets
    PairKeys,     \* AUTHORIZED_CLIENT_KEYS
    PairKey,      \* the server's signing key
    MaxEvents     \* max_events of stream_topic()

VARIABLES
    pair,     \* the server sockets and their serve_client() tasks
    strm,     \* the client sockets and their stream_topic() tasks
    toServer, \* nng: what the client socket sent
    toClient  \* nng: what the server socket sent

pairVars == <<pair, strm, toServer, toClient>>

\* What generate_events() yields.
Event(topic, n) == [type |-> "event", topic |-> topic, seq |-> n]

NoPeer == <<>>
NoPairBox == {}
NewPair == [pc |-> "none", box |-> NoPairBox, peer |-> NoPeer, topic |-> 0, seq |-> 0]
NewStream == [pc |-> "none", box |-> NoPairBox, addr |-> NoPeer, key |-> "none",
              count |-> 0, last |-> Event(0, 0)]

PairInit ==
    /\ pair = [d \in PairIds |-> NewPair]
    /\ strm = [s \in Streams |-> NewStream]
    /\ toServer = [s \in Streams |-> <<>>]
    /\ toClient = [s \in Streams |-> <<>>]

\* The material of each side's handshake; the token is in a message of its own.
ServerMaterial(d) == <<"server", d>>
ClientMaterial(s) == <<"client", s>>
Token(d) == [type |-> "token", of |-> d]

PairOver(d) == [pair EXCEPT ![d].pc = "over", ![d].box = NoPairBox]
StreamOver(s) == [strm EXCEPT ![s].pc = "over", ![s].box = NoPairBox]
Listening(d) == pair[d].pc \in {"bound", "hello"} /\ pair[d].peer = NoPeer
PeerOpen(s) == pair[strm[s].addr].peer = s /\ pair[strm[s].addr].pc # "over"
Live(s) == strm[s].pc \notin {"none", "over"}

----------------------------------------------------------------------------
(* The server socket d.                                                    *)

\* create(): bound and listening, no task yet.
Create(d, topic) == [pair EXCEPT ![d].pc = "bound", ![d].topic = topic]

\* create_task(serve_client(...)).
ServeClient(d) == [pair EXCEPT ![d].pc = "hello"]

ServerHas(d) == pair[d].peer # NoPeer /\ toServer[pair[d].peer] # <<>>
ServerMsg(d) == Head(toServer[pair[d].peer])
ServerTakes(d) == toServer' = [toServer EXCEPT ![pair[d].peer] = Tail(@)]
ServerSends(d, msg) == toClient' = [toClient EXCEPT ![pair[d].peer] = Append(@, msg)]

\* _aconnect(): the client hello, answered with ServerAuth.
Pair_hello(d) ==
    /\ pair[d].pc = "hello"
    /\ ServerHas(d)
    /\ ServerMsg(d).type = "hello"
    /\ LET client == ServerMsg(d).material
       IN  /\ ServerSends(d, make_server_auth(client, ServerMaterial(d), PairKey))
           /\ pair' = [pair EXCEPT ![d].pc = "confirm",
                          ![d].box = make_session_box(ServerMaterial(d), client)]
    /\ ServerTakes(d)
    /\ UNCHANGED strm

\* The client confirm, which names the stream that dialled.  A signature of
\* no authorized key (BadSignatureError) ends the task.
ConfirmVerified(d) ==
    verify_client_confirm(ServerMsg(d).body, PairKeys, ServerMaterial(d),
                          ClientMaterial(pair[d].peer))

Pair_confirm(d) ==
    /\ pair[d].pc = "confirm"
    /\ ServerHas(d)
    /\ Decrypts(pair[d].box, ServerMsg(d))
    /\ ServerTakes(d)
    /\ pair' = IF ConfirmVerified(d) THEN [pair EXCEPT ![d].pc = "token"] ELSE PairOver(d)
    /\ UNCHANGED <<strm, toClient>>

\* _connect() and _aconnect() are the same exchanges.
Pair_connect(d) == Pair_hello(d) \/ Pair_confirm(d)

\* The token of this subscription.
TokenMatches(d) ==
    Decrypts(pair[d].box, ServerMsg(d)) /\ ServerMsg(d).body = Token(d)

Pair_token(d) ==
    /\ pair[d].pc = "token"
    /\ ServerHas(d)
    /\ TokenMatches(d)
    /\ ServerTakes(d)
    /\ pair' = [pair EXCEPT ![d].pc = "stream"]
    /\ UNCHANGED <<strm, toClient>>

\* What serve_client() does not catch: CryptoError and PermissionError.
PairRaises(d) ==
    /\ ServerHas(d)
    /\ \/ pair[d].pc = "confirm" /\ ~Decrypts(pair[d].box, ServerMsg(d))
       \/ pair[d].pc = "token" /\ ~TokenMatches(d)

\* Variant: events are numbered from zero.
next_seq_zero(d) == pair[d].seq
next_seq(d) == pair[d].seq + 1

\* generate_events() yields the next event, which is sent in the box.
Pair_event(d) ==
    /\ pair[d].pc = "stream"
    /\ pair[d].seq < MaxEvents
    /\ ServerSends(d, Encrypt(pair[d].box, Event(pair[d].topic, next_seq(d))))
    /\ pair' = [pair EXCEPT ![d].seq = @ + 1]
    /\ UNCHANGED <<strm, toServer>>

\* The handshake times out, or its peer has gone (NngClosed): the task ends
\* and the socket is closed.
Pair_timeout(d) ==
    /\ pair[d].pc \in {"hello", "confirm"}
    /\ pair' = PairOver(d)
    /\ UNCHANGED <<strm, toServer, toClient>>

\* Variant: the wait for the token is not ended by the peer's leaving.
Pair_closed_stream(d) ==
    /\ pair[d].pc = "stream"
    /\ pair[d].peer # NoPeer
    /\ strm[pair[d].peer].pc = "over"
    /\ pair' = PairOver(d)
    /\ UNCHANGED <<strm, toServer, toClient>>

Pair_closed(d) ==
    /\ pair[d].pc \in {"hello", "confirm", "token", "stream"}
    /\ pair[d].peer # NoPeer
    /\ strm[pair[d].peer].pc = "over"
    /\ pair' = PairOver(d)
    /\ UNCHANGED <<strm, toServer, toClient>>

PairStep(d) ==
    \/ Pair_connect(d)
    \/ Pair_token(d)
    \/ Pair_event(d)
    \/ Pair_timeout(d)
    \/ Pair_closed(d)

----------------------------------------------------------------------------
(* The client socket s.                                                    *)

StreamSends(s, msg) == toServer' = [toServer EXCEPT ![s] = Append(@, msg)]
StreamTakes(s) == toClient' = [toClient EXCEPT ![s] = Tail(@)]

\* stream_topic(): the client socket for the address and token of a response.
StreamTopic(s, d, key) ==
    [strm EXCEPT ![s].pc = "dial", ![s].addr = d, ![s].key = key]

\* It enters its context: dial, and send the hello.
Stream_hello(s) ==
    /\ strm[s].pc = "dial"
    /\ Listening(strm[s].addr)
    /\ pair' = [pair EXCEPT ![strm[s].addr].peer = s]
    /\ StreamSends(s, make_client_hello(ClientMaterial(s)))
    /\ strm' = [strm EXCEPT ![s].pc = "auth"]
    /\ UNCHANGED toClient

\* ServerAuth: verified, the confirm is sent in the new box, then the token.
Stream_auth(s) ==
    /\ strm[s].pc = "auth"
    /\ toClient[s] # <<>>
    /\ verify_server_auth(Head(toClient[s]), PairKey, ClientMaterial(s))
    /\ LET server == Head(toClient[s]).material
           box == make_session_box(ClientMaterial(s), server)
       IN  /\ StreamSends(s, Encrypt(box, make_client_confirm(server, ClientMaterial(s), strm[s].key)))
           /\ strm' = [strm EXCEPT ![s].pc = "token", ![s].box = box]
    /\ StreamTakes(s)
    /\ UNCHANGED pair

Stream_connect(s) == Stream_hello(s) \/ Stream_auth(s)

Stream_token(s) ==
    /\ strm[s].pc = "token"
    /\ StreamSends(s, Encrypt(strm[s].box, Token(strm[s].addr)))
    /\ strm' = [strm EXCEPT ![s].pc = "stream"]
    /\ UNCHANGED <<pair, toClient>>

\* An event is received, even when the server has closed since.
Stream_event(s) ==
    /\ strm[s].pc = "stream"
    /\ toClient[s] # <<>>
    /\ Decrypts(strm[s].box, Head(toClient[s]))
    /\ strm' = [strm EXCEPT ![s].count = @ + 1, ![s].last = Head(toClient[s]).body,
                            ![s].pc = IF strm[s].count + 1 = MaxEvents THEN "over" ELSE @]
    /\ StreamTakes(s)
    /\ UNCHANGED <<pair, toServer>>

\* The server closed the feed (NngClosed).
Stream_closed(s) ==
    /\ strm[s].pc = "stream"
    /\ ~PeerOpen(s)
    /\ strm' = StreamOver(s)
    /\ UNCHANGED <<pair, toServer, toClient>>

\* Anything else that ends the task raises: the handshake timed out, the
\* socket was closed in it, or nobody listens any more.
StreamRaises(s) ==
    \/ strm[s].pc = "auth"
    \/ strm[s].pc = "token" /\ ~PeerOpen(s)
    \/ strm[s].pc = "dial" /\ ~Listening(strm[s].addr)

StreamStep(s) ==
    \/ Stream_connect(s)
    \/ Stream_token(s)
    \/ Stream_event(s)
    \/ Stream_closed(s)

=============================================================================
