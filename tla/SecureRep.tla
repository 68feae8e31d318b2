------------------------------ MODULE SecureRep ------------------------------
(* SecureRepServer and SecureReqClient: the REP server of RepServer, whose  *)
(* code secure_rep.py repeats, with a handshake before the conversation and  *)
(* an encrypted conversation after it.                                       *)
(*                                                                           *)
(* _execute() catches ConnectionResetError only: any other exception leaves  *)
(* the task, and the TaskGroup then ends every other task of the server.     *)
EXTENDS RepServer, Handshake

CONSTANTS
    Keys,         \* the signing keys of clients
    Authorized,   \* authorized_vks
    ServerKey     \* the server's signing key

VARIABLES
    req,     \* the SecureReqClient of each client
    down     \* why the TaskGroup ended

secureVars == <<serverVars, req, down>>

\* A manager's application state: the phase of _execute(), and the box.
NoBox == {}
NewHandshake == [phase |-> "hello", box |-> NoBox, peer |-> <<>>, subs |-> 0]
NewReqClient(key) == [pc |-> "hello", box |-> NoBox, subs |-> 0, key |-> key]

SecureInit ==
    /\ ServerInit(NewHandshake)
    /\ req \in [Clients -> {NewReqClient(key) : key \in Keys}]
    /\ down = "up"

Ack == [type |-> "ok"]
ErrorResponse == [type |-> "error"]
Pipe(c) == <<c, 1>>   \* a second pipe closes the client's socket

----------------------------------------------------------------------------
(* The server's side: _execute() of manager m.                             *)

\* An exception leaves the task.
Raise(reason) == TaskGroupEnds /\ down' = reason

\* ClientHello: the box is derived and ServerAuth sent.  A request that came
\* before its pipe closed and is dispatched when its manager has ended starts
\* a new manager: it need not be a hello.
Execute_hello(m) ==
    /\ up
    /\ HasRequest(m)
    /\ mgr[m].app.phase = "hello"
    /\ LET k == Head(mgr[m].inbox)
           hello == ctx[k].msg.body
       IN  \/ /\ hello.type = "hello"
              /\ Reply(k, make_server_auth(hello.material, m, ServerKey))
              /\ mgr' = [mgr EXCEPT ![m] = [Sending(Received(@)) EXCEPT
                    !.app.phase = "confirm", !.app.peer = hello.material,
                    !.app.box = make_session_box(m, hello.material)]]
              /\ UNCHANGED <<link, wire, reported, ctx, clients, up, down>>
           \/ /\ hello.type # "hello"
              /\ Raise(IF Open(PipeOf(m)) THEN "malformed" ELSE "late")
    /\ UNCHANGED req

\* ClientConfirm: decrypted, verified against the authorized keys, answered.
Execute_confirm(m) ==
    /\ up
    /\ HasRequest(m)
    /\ mgr[m].app.phase = "confirm"
    /\ LET k == Head(mgr[m].inbox)
           raw == ctx[k].msg.body
           app == mgr[m].app
           ok == verify_client_confirm(raw.body, Authorized, m, app.peer)
       IN  \/ /\ Decrypts(app.box, raw)
              /\ raw.body.type = "confirm"
              /\ Reply(k, IF ok THEN Ack ELSE ErrorResponse)
              /\ mgr' = [mgr EXCEPT ![m] = [Sending(Received(@)) EXCEPT
                                               !.app.phase = IF ok THEN "ack" ELSE "end"]]
              /\ UNCHANGED <<link, wire, reported, ctx, clients, up, down>>
           \/ /\ ~Decrypts(app.box, raw)
              /\ Raise("crypto")
           \/ /\ Decrypts(app.box, raw)
              /\ raw.body.type # "confirm"
              /\ Raise("malformed")
    /\ UNCHANGED req

\* asyncio.timeout() around the handshake: TimeoutError is not caught.
InHandshake(m) ==
    \/ mgr[m].pc = "ready" /\ mgr[m].app.phase = "confirm"
    \/ mgr[m].pc = "send" /\ mgr[m].app.phase \in {"confirm", "ack", "end"}

Execute_timeout(m) ==
    /\ up
    /\ InHandshake(m)
    /\ Raise("timeout")
    /\ UNCHANGED req

\* _asend_raw() is over, in the handshake.
Execute_sent(m) ==
    /\ mgr[m].pc = "send"
    /\ mgr[m].app.phase \in {"confirm", "ack", "end"}
    /\ SendDone(m, mgr[m].app.phase = "end")
    /\ UNCHANGED <<req, down>>

\* _SecureRepConversation.arecv() and asend().
InConversation(m) == mgr[m].app.phase \in {"ack", "loop"}
ConversationReceives(m) == mgr[m].pc = "ready" /\ InConversation(m) /\ HasRequest(m)
ConversationBody(m) == ctx[Head(mgr[m].inbox)].msg.body
ConversationReply(m, body) == Reply(Head(mgr[m].inbox), Encrypt(mgr[m].app.box, body))

----------------------------------------------------------------------------
(* The dispatch tasks and the pipe callbacks of SecureRepServer, and the   *)
(* manager's raw transport, are those of RepServer.                        *)

SecureRecvDispatch(k) == RecvDispatch(k, NewHandshake) \/ RecvDispatchNoPipe(k)

SecureHandlePipeStatusChange(p) == HandlePipeStatusChange(p)

SecureReset(m) == ConnectionReset(m)

SecureSendFailed(m) == SendFailed(m)

SecureServerStep ==
    /\ \/ \E k \in Contexts, p \in Pipes : ContextReceives(k, p)
       \/ \E k \in Contexts : SecureRecvDispatch(k)
       \/ \E p \in Pipes : SecureHandlePipeStatusChange(p)
       \/ \E m \in Managers : SecureReset(m) \/ TaskDone(m)
    /\ UNCHANGED <<req, down>>

SecureManagerStep(m) ==
    Execute_hello(m) \/ Execute_confirm(m) \/ Execute_timeout(m) \/ Execute_sent(m)

----------------------------------------------------------------------------
(* The client's side: SecureReqClient c.                                   *)

\* REQ sends its n-th request; there is no second connection to repeat it on.
Request(c, n, body) ==
    wire' = [wire EXCEPT ![Pipe(c)] = Append(@, [pipe |-> Pipe(c), id |-> n, body |-> body])]

HasReply(c) == replies[Pipe(c)] # <<>>
ReplyBody(c) == Head(replies[Pipe(c)]).body
TakeReply(c) == replies' = [replies EXCEPT ![Pipe(c)] = Tail(@)]

\* _aconnect(): dial, send the hello.
Req_hello(c) ==
    /\ req[c].pc = "hello"
    /\ Open(Pipe(c))
    /\ Request(c, 0, make_client_hello(c))
    /\ req' = [req EXCEPT ![c].pc = "auth"]
    /\ UNCHANGED <<link, replies, reported, ctx, clients, mgr, up, down>>

\* Variant: the box is made from the client's own keys.
own_session_box(mine, theirs) == {mine}
req_session_box(mine, theirs) == make_session_box(mine, theirs)

\* ServerAuth: verified; the confirm is sent in the new box.
Req_auth(c) ==
    /\ req[c].pc = "auth"
    /\ Open(Pipe(c))
    /\ HasReply(c)
    /\ verify_server_auth(ReplyBody(c), ServerKey, c)
    /\ TakeReply(c)
    /\ LET server == ReplyBody(c).material
           box == req_session_box(c, server)
       IN  /\ Request(c, 1, Encrypt(box, make_client_confirm(server, c, req[c].key)))
           /\ req' = [req EXCEPT ![c].pc = "ack", ![c].box = box]
    /\ UNCHANGED <<link, reported, ctx, clients, mgr, up, down>>

\* The acknowledgement: its content is not looked at.
Req_ack(c) ==
    /\ req[c].pc = "ack"
    /\ HasReply(c)
    /\ TakeReply(c)
    /\ req' = [req EXCEPT ![c].pc = "ready"]
    /\ UNCHANGED <<link, wire, reported, ctx, clients, mgr, up, down>>

\* _connect() and _aconnect() are the same exchanges.
Req_connect(c) == Req_hello(c) \/ Req_auth(c) \/ Req_ack(c)

\* asend() and arecv() after the handshake, and the next phase of the client.
Req_asend(c, body, pc) ==
    /\ Open(Pipe(c))
    /\ Request(c, req[c].subs + 2, Encrypt(req[c].box, body))
    /\ req' = [req EXCEPT ![c].pc = pc]

\* _close(), or _handle_pipe_status() when the pipe is removed.
Req_over(c) == [req EXCEPT ![c].pc = "over", ![c].box = NoBox, ![c].subs = 0]

(* The properties of the handshake.                                        *)

(* A manager that talks to its client past the handshake shares its box    *)
(* with the client of its own pipe, whose key is authorized.               *)
ConversationIsAuthenticated ==
    \A m \in Managers :
        mgr[m].pc \in {"ready", "send"} /\ InConversation(m) =>
            /\ mgr[m].app.box = make_session_box(m, Owner(PipeOf(m)))
            /\ req[Owner(PipeOf(m))].key \in Authorized

(* The server stops for two reasons only: a handshake that times out, and  *)
(* a request dispatched after its pipe was closed.  Clients that run       *)
(* this code never make it fail to decrypt or to parse a message.          *)
StopsOnlyForTimeoutOrLateRequest == down \in {"up", "timeout", "late"}

=============================================================================
