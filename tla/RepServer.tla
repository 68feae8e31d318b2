------------------------------ MODULE RepServer ------------------------------
(* The REP server of the conversation example: one dispatch task per       *)
(* context receives requests and hands each to the manager of the pipe it  *)
(* came on, then waits for an event before it receives again; one task per *)
(* manager runs the application's conversation with that client.  All of   *)
(* them, and the callbacks about removed pipes, run on one event loop, so  *)
(* an action is what happens between two awaits.                           *)
(*                                                                         *)
(* The conversation itself belongs to the application: a module that       *)
(* extends this one says what a manager answers.  nng (the pipes, the REP  *)
(* state of a context, the REQ sockets) is external.                       *)
EXTENDS Naturals, Sequences, Functions

CONSTANTS
    Clients,      \* the programs that connect
    Contexts,     \* the contexts opened by serve()
    MaxConns,     \* bound: connections a client makes
    MaxManagers   \* bound: managers the server creates for one pipe

ASSUME RepServerAssumption ==
    /\ MaxConns \in Nat \ {0} /\ MaxManagers \in Nat \ {0}
    /\ {"none", "gone"} \cap Contexts = {}   \* NoCtx and Gone are no contexts

VARIABLES
    link,      \* nng: the state of each pipe
    wire,      \* nng: requests on a pipe that no context has received yet
    replies,   \* nng: replies on their way to the client
    reported,  \* pipes whose removal the event loop has been told about
    ctx,       \* each dispatch task: what it awaits, and its last request
    clients,   \* _clients: the manager of a pipe, or NoManager
    mgr,       \* the managers
    up         \* the TaskGroup is running

serverVars == <<link, wire, replies, reported, ctx, clients, mgr, up>>

\* A pipe is a connection of a client: a client that reconnects has another.
Pipes == Clients \X (1..MaxConns)
Owner(p) == p[1]

\* The i-th manager of a pipe.
Managers == Pipes \X (1..MaxManagers)
PipeOf(m) == m[1]
NoManager == <<>>
NoCtx == "none"
NoMsg == <<>>
Gone == "gone"     \* the None that _disconnect() puts into an inbox

\* A request the contexts have not seen; id is the number REQ gives it.
Requests(Bodies) == [pipe : Pipes, id : Nat, body : Bodies]

\* The REP socket has a pipe to the client that has not been closed.
Open(p) == link[p] = "open"

\* A manager as __init__ leaves it, its task created by the dispatch task.
NewManager(start) ==
    [pc |-> "ready", running |-> TRUE, inbox |-> <<>>,
     cur |-> NoCtx, snd |-> NoCtx, app |-> start]

Unborn(start) == [NewManager(start) EXCEPT !.pc = "unborn", !.running = FALSE]

\* serve(): the contexts all receive, no client is known.
ServerInit(start) ==
    /\ link = [p \in Pipes |-> IF p[2] = 1 THEN "open" ELSE "unused"]
    /\ wire = [p \in Pipes |-> <<>>]
    /\ replies = [p \in Pipes |-> <<>>]
    /\ reported = {}
    /\ ctx = [k \in Contexts |-> [st |-> "recv", msg |-> NoMsg]]
    /\ clients = [p \in Pipes |-> NoManager]
    /\ mgr = [m \in Managers |-> Unborn(start)]
    /\ up = TRUE

----------------------------------------------------------------------------
(* nng.  A closed pipe drops the requests nobody received; a reply already *)
(* on its way arrives unless the client reconnects first.                  *)

ClosePipe(p) ==
    /\ link' = [link EXCEPT ![p] = IF @ = "open" THEN "closed" ELSE @]
    /\ wire' = [wire EXCEPT ![p] = <<>>]

\* A context that waits in arecv() gets the first request of some pipe.
ContextReceives(k, p) ==
    /\ up
    /\ ctx[k].st = "recv"
    /\ wire[p] # <<>>
    /\ ctx' = [ctx EXCEPT ![k] = [st |-> "got", msg |-> Head(wire[p])]]
    /\ wire' = [wire EXCEPT ![p] = Tail(@)]
    /\ UNCHANGED <<link, replies, reported, clients, mgr, up>>

\* The reply to the request context k holds: nng drops it, and reports
\* success, when the pipe is closed.
Reply(k, body) ==
    LET p == ctx[k].msg.pipe
    IN  replies' = IF Open(p)
                   THEN [replies EXCEPT ![p] = Append(@, [id |-> ctx[k].msg.id, body |-> body])]
                   ELSE replies

----------------------------------------------------------------------------
(* The dispatch task of context k.                                         *)

\* Setting the events of the contexts in ks lets their tasks receive again.
Receiving == [st |-> "recv", msg |-> NoMsg]
Released(ks) == [k \in Contexts |-> IF k \in ks THEN Receiving ELSE ctx[k]]

\* _dispatch() of manager record r for context k: to a manager that has
\* stopped the slot is given back, a second message is an error of the
\* client, anything else goes into the inbox.
SecondInInbox(r) == Len(r.inbox) > 1    \* variant: an off-by-one in the test

DoubleMessage(r) == r.inbox # <<>> \/ r.cur # NoCtx

Dispatch(k, m, r) ==
    \/ /\ ~r.running
       /\ ctx' = Released({k})
       /\ mgr' = [mgr EXCEPT ![m] = r]
       /\ UNCHANGED <<link, wire>>
    \/ /\ r.running /\ DoubleMessage(r)
       /\ ClosePipe(PipeOf(m))           \* and an empty reply, which goes nowhere
       /\ ctx' = Released({k})
       /\ mgr' = [mgr EXCEPT ![m] = r]
    \/ /\ r.running /\ ~DoubleMessage(r)
       /\ mgr' = [mgr EXCEPT ![m] = [r EXCEPT !.inbox = Append(@, k)]]
       /\ ctx' = [ctx EXCEPT ![k].st = "wait"]
       /\ UNCHANGED <<link, wire>>

\* The rest of a round of _recv_dispatch(): find the manager or create it.
KnownRunning(p) == clients[p] # NoManager /\ mgr[clients[p]].running  \* variant: replace it
Known(p) == clients[p] # NoManager

RecvDispatch(k, start) ==
    /\ up
    /\ ctx[k].st = "got"
    /\ LET p == ctx[k].msg.pipe
       IN  \/ /\ Known(p)
              /\ Dispatch(k, clients[p], mgr[clients[p]])
              /\ UNCHANGED clients
           \/ /\ ~Known(p)
              /\ \E i \in 1..MaxManagers :
                    /\ mgr[<<p, i>>].pc = "unborn"
                    /\ \A j \in 1..(i - 1) : mgr[<<p, j>>].pc # "unborn"
                    /\ Dispatch(k, <<p, i>>, NewManager(start))
                    /\ clients' = [clients EXCEPT ![p] = <<p, i>>]
    /\ UNCHANGED <<replies, reported, up>>

\* msg.pipe is None: the pipe is closed and its Pipe object, which only a
\* weak registry and its own callback still name, has been collected.  (One
\* that came and went between two updates gives None too, and is left out.)
RecvDispatchNoPipe(k) ==
    /\ up
    /\ ctx[k].st = "got"
    /\ LET p == ctx[k].msg.pipe
       IN  ~Open(p) /\ p \in reported /\ clients[p] = NoManager
    /\ ctx' = Released({k})             \* after an error reply, which goes nowhere
    /\ UNCHANGED <<link, wire, replies, reported, clients, mgr, up>>

\* _handle_pipe_status_change() on the loop, for a removed pipe: its manager
\* is forgotten and finds None behind what its inbox holds (_disconnect).
Disconnect(r) ==
    [r EXCEPT !.running = FALSE,
              !.inbox = IF r.pc \in {"done", "over"} THEN @ ELSE Append(@, Gone)]

HandlePipeStatusChange(p) ==
    /\ up
    /\ link[p] = "closed"
    /\ p \notin reported
    /\ reported' = reported \cup {p}
    /\ clients' = [clients EXCEPT ![p] = NoManager]
    /\ mgr' = IF clients[p] = NoManager THEN mgr
              ELSE [mgr EXCEPT ![clients[p]] = Disconnect(@)]
    /\ UNCHANGED <<link, wire, replies, ctx, up>>

----------------------------------------------------------------------------
(* The task of manager m.                                                  *)

\* arecv() and asend() up to their awaits, on the manager's record.
HasItem(m) == mgr[m].pc = "ready" /\ mgr[m].inbox # <<>>
HasRequest(m) == HasItem(m) /\ Head(mgr[m].inbox) # Gone
Received(r) == [r EXCEPT !.cur = Head(r.inbox), !.inbox = Tail(r.inbox)]
Sending(r) == [r EXCEPT !.snd = r.cur, !.cur = NoCtx, !.pc = "send"]

\* The finally block of _execute(): no more messages, the pipe closed, the
\* context in hand and those in the inbox released, the inbox shut down.
HeldBy(r) == ({r.cur} \cup Range(r.inbox)) \ {NoCtx, Gone}

\* Variant: the inbox is dropped with the contexts in it.
Execute_finally_inbox(m, released) ==
    /\ mgr' = [mgr EXCEPT ![m].running = FALSE, ![m].cur = NoCtx, ![m].snd = NoCtx,
                          ![m].inbox = <<>>, ![m].pc = "done"]
    /\ ClosePipe(PipeOf(m))
    /\ ctx' = Released(({mgr[m].cur} \ {NoCtx}) \cup released)

Execute_finally(m, released) ==
    /\ mgr' = [mgr EXCEPT ![m].running = FALSE, ![m].cur = NoCtx, ![m].snd = NoCtx,
                          ![m].inbox = <<>>, ![m].pc = "done"]
    /\ ClosePipe(PipeOf(m))
    /\ ctx' = Released(HeldBy(mgr[m]) \cup released)

\* arecv() finds None: ConnectionResetError ends the conversation.
ConnectionReset(m) ==
    /\ up
    /\ HasItem(m)
    /\ Head(mgr[m].inbox) = Gone
    /\ Execute_finally(m, {})
    /\ UNCHANGED <<replies, reported, clients, up>>

\* Variant: the event of the context is only set when asend() fails.
SendDone_noEvent(m, over) ==
    /\ up
    /\ mgr[m].pc = "send"
    /\ mgr' = [mgr EXCEPT ![m].snd = NoCtx, ![m].pc = IF over THEN "done" ELSE "ready"]
    /\ UNCHANGED <<link, wire, replies, reported, ctx, clients, up>>

\* ctx.asend() is over: the event of the context is set.  The conversation
\* goes on, or ends here (over).
SendDone(m, over) ==
    /\ up
    /\ mgr[m].pc = "send"
    /\ \/ /\ over
          /\ Execute_finally(m, {mgr[m].snd})
       \/ /\ ~over
          /\ mgr' = [mgr EXCEPT ![m].snd = NoCtx, ![m].pc = "ready"]
          /\ ctx' = Released({mgr[m].snd})
          /\ UNCHANGED <<link, wire>>
    /\ UNCHANGED <<replies, reported, clients, up>>

\* ctx.asend() fails: ConnectionResetError, after the event is set.
SendFailed(m) ==
    /\ up
    /\ mgr[m].pc = "send"
    /\ ~Open(PipeOf(m))
    /\ Execute_finally(m, {mgr[m].snd})
    /\ UNCHANGED <<replies, reported, clients, up>>

\* A manager nobody refers to any more.
Over(r) == [pc |-> "over", running |-> FALSE, inbox |-> <<>>,
            cur |-> NoCtx, snd |-> NoCtx, app |-> <<>>]

\* The done callback of the task forgets the pipe's manager.
TaskDone(m) ==
    /\ up
    /\ mgr[m].pc = "done"
    /\ mgr' = [mgr EXCEPT ![m] = Over(@)]
    /\ clients' = [clients EXCEPT ![PipeOf(m)] = NoManager]
    /\ UNCHANGED <<link, wire, replies, reported, ctx, up>>

\* The TaskGroup ends (main() is interrupted, or a task raised): its tasks
\* are cancelled, every finally block runs, and the socket is closed.
TaskGroupEnds ==
    /\ up
    /\ up' = FALSE
    /\ link' = [p \in Pipes |-> IF Open(p) THEN "closed" ELSE link[p]]
    /\ wire' = [p \in Pipes |-> <<>>]
    /\ ctx' = [k \in Contexts |-> [st |-> "ended", msg |-> NoMsg]]
    /\ mgr' = [m \in Managers |->
                 IF mgr[m].pc = "unborn" THEN mgr[m] ELSE Over(mgr[m])]
    /\ clients' = [p \in Pipes |-> NoManager]
    /\ replies' = [p \in Pipes |-> <<>>]
    /\ UNCHANGED reported

\* What the server does without the application.
ServerStep(start) ==
    \/ \E k \in Contexts, p \in Pipes : ContextReceives(k, p)
    \/ \E k \in Contexts : RecvDispatch(k, start) \/ RecvDispatchNoPipe(k)
    \/ \E p \in Pipes : HandlePipeStatusChange(p)
    \/ \E m \in Managers : ConnectionReset(m) \/ SendFailed(m) \/ TaskDone(m)

----------------------------------------------------------------------------
(* Properties of the server, whatever the application does.                *)

\* Who holds context k: the managers that will set its event.
Holders(k) == {m \in Managers : k \in HeldBy(mgr[m]) \cup {mgr[m].snd}}

(* A dispatch task that waits for its reply event is waited for by exactly *)
(* one manager: a manager of the pipe the request came on, whose task has  *)
(* not ended, and which holds the context in its inbox, as its current     *)
(* context or in its running asend().  So no slot is lost, no request has  *)
(* two conversations, and no conversation answers another one's client.    *)
SlotHasOneHolder ==
    \A k \in Contexts :
        /\ ctx[k].st = "wait" =>
              \E m \in Managers :
                 /\ Holders(k) = {m}
                 /\ PipeOf(m) = ctx[k].msg.pipe
                 /\ mgr[m].pc \in {"ready", "work", "send"}
        /\ ctx[k].st # "wait" => Holders(k) = {}

(* An inbox never holds two requests, or one behind the None that ends the *)
(* conversation, so the None of _disconnect() always fits into the Queue   *)
(* of size 2: put_nowait() would raise QueueFull in a loop callback.       *)
InboxFits ==
    \A m \in Managers :
        LET inbox == mgr[m].inbox
        IN  \/ inbox = <<>>
            \/ Len(inbox) = 1
            \/ Len(inbox) = 2 /\ inbox[1] # Gone /\ inbox[2] = Gone

(* Of the managers a pipe has had, at most one accepts messages until the  *)
(* loop is told of the pipe's removal, and it is the one _clients names:   *)
(* the done callback of an earlier conversation never makes the server     *)
(* forget one that is still running, which would then never be told to end. *)
RunningManagerIsKnown ==
    \A m \in Managers :
        mgr[m].running /\ PipeOf(m) \notin reported => clients[PipeOf(m)] = m

=============================================================================
