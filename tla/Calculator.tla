------------------------------ MODULE Calculator ------------------------------
(* The calculator of the conversation example: the server of RepServer with  *)
(* a conversation that keeps an accumulator per client, and the sessions of  *)
(* client.py, which send a script of commands one by one.  The REQ sockets,  *)
(* which repeat an unanswered request, are external.                         *)
EXTENDS RepServer, Integers

CONSTANTS
    Scenarios,   \* bound: the commands of the sessions (script), and how many
                 \* connections break or requests are repeated (faults)
    Unreliable   \* bound: the clients whose connections may fail

\* run_session() sends the handshake itself: its commands do not contain it.
ASSUME CalculatorAssumption ==
    \A s \in Scenarios :
        /\ s.faults \in Nat
        /\ \A c \in Clients :
              /\ Len(s.script[c]) \in Nat
              /\ \A i \in 1..Len(s.script[c]) : s.script[c][i].op # "start"

VARIABLES
    cl,          \* the sessions
    faults       \* how many more connections may break or requests be repeated

vars == <<serverVars, cl, faults>>

\* A command as _handle_command() parses it: an operation and its argument.
\* The operation is "bad" when it is unknown or its argument is no number.
Command(op, arg) == [op |-> op, arg |-> arg]
Start == Command("start", 0)
Quit == Command("quit", 0)
Answer(kind, n) == [kind |-> kind, n |-> n]
OkAnswer == Answer("ok", 0)
ExpectedStart == Answer("expected start", 0)
Bye == Answer("bye", 0)

NewSession == [phase |-> "hello", acc |-> 0]

----------------------------------------------------------------------------
(* conversation() and _handle_command().                                   *)

\* The new accumulator and the answer.  Scripts divide without remainder,
\* so the floats of the code are integers here.
HandleCommand(cmd, acc) ==
    LET value(n) == [acc |-> n, answer |-> Answer("value", n)]
        error == [acc |-> acc, answer |-> Answer("error", 0)]
    IN  CASE cmd.op = "result" -> value(acc)
          [] cmd.op = "reset" -> value(0)
          [] cmd.op = "add" -> value(acc + cmd.arg)
          [] cmd.op = "sub" -> value(acc - cmd.arg)
          [] cmd.op = "mul" -> value(acc * cmd.arg)
          [] cmd.op = "div" /\ cmd.arg # 0 -> value(acc \div cmd.arg)
          [] OTHER -> error   \* a division by zero, a bad command

\* The first message: anything but the handshake ends the conversation.
\* Variant: any first message will do.
AnyHello(body) == TRUE

IsHello(body) == body = Start

\* The manager after the first message: the loop, or the end.
Hello(m, ok) ==
    [mgr EXCEPT ![m] = [Sending(Received(@)) EXCEPT !.app.phase = IF ok THEN "loop" ELSE "end"]]

Conversation_hello(m) ==
    /\ up
    /\ HasRequest(m)
    /\ mgr[m].app.phase = "hello"
    /\ LET k == Head(mgr[m].inbox)
           ok == IsHello(ctx[k].msg.body)
       IN  /\ Reply(k, IF ok THEN OkAnswer ELSE ExpectedStart)
           /\ mgr' = Hello(m, ok)
    /\ UNCHANGED <<link, wire, reported, ctx, clients, up, cl, faults>>

\* A later message: received, and the conversation sleeps.
Conversation_recv(m) ==
    /\ up
    /\ HasRequest(m)
    /\ mgr[m].app.phase = "loop"
    /\ mgr' = [mgr EXCEPT ![m] = [Received(@) EXCEPT !.pc = "work"]]
    /\ UNCHANGED <<link, wire, replies, reported, ctx, clients, up, cl, faults>>

\* The conversation of m goes on with a new accumulator.
\* Variant: the accumulator is the server's, not the conversation's.
ComputedShared(m, acc) ==
    [n \in Managers |->
        LET r == IF n = m THEN Sending(mgr[m]) ELSE mgr[n]
        IN  IF mgr[n].pc = "over" THEN r ELSE [r EXCEPT !.app.acc = acc]]

Computed(m, acc) == [mgr EXCEPT ![m] = [Sending(@) EXCEPT !.app.acc = acc]]

\* The command is executed and its answer sent; quit ends the conversation.
Conversation_execute(m) ==
    /\ up
    /\ mgr[m].pc = "work"
    /\ LET k == mgr[m].cur
           cmd == ctx[k].msg.body
           result == HandleCommand(cmd, mgr[m].app.acc)
       IN  \/ /\ cmd = Quit
              /\ Reply(k, Bye)
              /\ mgr' = [mgr EXCEPT ![m] = [Sending(@) EXCEPT !.app.phase = "end"]]
           \/ /\ cmd # Quit
              /\ Reply(k, result.answer)
              /\ mgr' = Computed(m, result.acc)
    /\ UNCHANGED <<link, wire, reported, ctx, clients, up, cl, faults>>

Conversation_sent(m) ==
    /\ SendDone(m, mgr[m].app.phase = "end")
    /\ UNCHANGED <<cl, faults>>

----------------------------------------------------------------------------
(* run_session(): connect, handshake, the script, quit.                    *)

\* Request i of a session: 0 is the handshake, the last one quits.
Request(c, i) ==
    IF i = 0 THEN Start
    ELSE IF i <= Len(cl[c].script) THEN cl[c].script[i] ELSE Quit

Pipe(c) == <<c, cl[c].conn>>
Connected(c) == cl[c].conn > 0 /\ Open(Pipe(c))

\* The dialer connects, and connects again when the connection breaks; REQ
\* then repeats the request it has no answer for and forgets late replies.
Connect(c) ==
    /\ up
    /\ cl[c].pc # "over"
    /\ ~Connected(c)
    /\ cl[c].conn < MaxConns
    /\ LET p == <<c, cl[c].conn + 1>>
       IN  /\ cl' = [cl EXCEPT ![c].conn = @ + 1]
           /\ link' = [link EXCEPT ![p] = "open"]
           /\ wire' = [wire EXCEPT ![p] =
                 IF cl[c].pc = "await"
                 THEN <<[pipe |-> p, id |-> cl[c].step, body |-> Request(c, cl[c].step)]>>
                 ELSE <<>>]
           /\ replies' = [q \in Pipes |-> IF Owner(q) = c THEN <<>> ELSE replies[q]]
    /\ UNCHANGED <<reported, ctx, clients, mgr, up, faults>>

SendRequest(c) ==
    wire' = [wire EXCEPT ![Pipe(c)] =
        Append(@, [pipe |-> Pipe(c), id |-> cl[c].step, body |-> Request(c, cl[c].step)])]

\* sock.asend() of the next request.
ClientSend(c) ==
    /\ cl[c].pc = "send"
    /\ Connected(c)
    /\ SendRequest(c)
    /\ cl' = [cl EXCEPT ![c].pc = "await"]
    /\ UNCHANGED <<link, replies, reported, ctx, clients, mgr, up, faults>>

\* The resend timer of REQ.
Resend(c) ==
    /\ c \in Unreliable
    /\ cl[c].pc = "await"
    /\ Connected(c)
    /\ faults > 0
    /\ SendRequest(c)
    /\ cl' = [cl EXCEPT ![c].resent = TRUE]
    /\ faults' = faults - 1
    /\ UNCHANGED <<link, replies, reported, ctx, clients, mgr, up>>

\* sock.arecv(): REQ discards an answer to an earlier request.  After quit,
\* or when the handshake fails, the session closes its socket.
ClientRecv(c) ==
    /\ cl[c].conn > 0
    /\ replies[Pipe(c)] # <<>>
    /\ LET reply == Head(replies[Pipe(c)])
           mine == cl[c].pc = "await" /\ reply.id = cl[c].step
           last == \/ cl[c].step > Len(cl[c].script)
                   \/ cl[c].step = 0 /\ reply.body # OkAnswer
       IN  /\ cl' = IF ~mine THEN cl
                    ELSE [cl EXCEPT ![c].pc = IF last THEN "over" ELSE "send",
                                    ![c].step = @ + 1,
                                    ![c].answers = Append(@, [conn |-> cl[c].conn, body |-> reply.body])]
           /\ replies' = [replies EXCEPT ![Pipe(c)] = IF mine /\ last THEN <<>> ELSE Tail(@)]
           /\ IF mine /\ last THEN ClosePipe(Pipe(c)) ELSE UNCHANGED <<link, wire>>
    /\ UNCHANGED <<reported, ctx, clients, mgr, up, faults>>

\* The connection breaks.
Drop(c) ==
    /\ c \in Unreliable
    /\ Connected(c)
    /\ faults > 0
    /\ ClosePipe(Pipe(c))
    /\ faults' = faults - 1
    /\ UNCHANGED <<replies, reported, ctx, clients, mgr, up, cl>>

----------------------------------------------------------------------------
Init ==
    /\ ServerInit(NewSession)
    /\ \E s \in Scenarios :
          /\ cl = [c \in Clients |-> [pc |-> "send", step |-> 0, conn |-> 1, answers |-> <<>>,
                                      resent |-> FALSE, script |-> s.script[c]]]
          /\ faults = s.faults

ManagerStep(m) ==
    \/ Conversation_hello(m)
    \/ Conversation_recv(m)
    \/ Conversation_execute(m)
    \/ Conversation_sent(m)

ClientStep(c) == Connect(c) \/ ClientSend(c) \/ ClientRecv(c)

Running ==
    \/ ServerStep(NewSession) /\ UNCHANGED <<cl, faults>>
    \/ \E m \in Managers : ManagerStep(m)
    \/ \E c \in Clients : ClientStep(c)

Next == Running \/ \E c \in Clients : Resend(c) \/ Drop(c)

\* The event loop runs a task when one can run, nng delivers what was sent
\* and the dialer keeps trying.  Nothing makes connections break or the
\* resend timer fire.  That the user interrupts main() is left out.
Spec == Init /\ [][Next]_vars /\ WF_vars(Running)

----------------------------------------------------------------------------
(* What a script should give: its commands executed one after the other on *)
(* an accumulator nobody else has.                                         *)
Accumulator(script, i) ==
    LET acc[j \in 0..i] ==
            IF j = 0 THEN 0 ELSE HandleCommand(script[j], acc[j - 1]).acc
    IN  acc[i]

ExpectedAnswer(script, i) ==
    IF i = 0 THEN OkAnswer
    ELSE IF i > Len(script) THEN Bye
    ELSE HandleCommand(script[i], Accumulator(script, i - 1)).answer

(* A session whose connection never broke and whose requests were not      *)
(* repeated gets exactly the answers its script computes, in order, however *)
(* the contexts and the other conversations interleave with it.            *)
SessionComputes ==
    \A c \in Clients :
        cl[c].conn <= 1 /\ ~cl[c].resent =>
            \A i \in 1..Len(cl[c].answers) :
                cl[c].answers[i].body = ExpectedAnswer(cl[c].script, i - 1)

(* A session never mixes two accumulators: when its connection breaks      *)
(* behind the handshake, no command is executed for it on another one; it  *)
(* is told each time that a new conversation has to be started.            *)
OneConversationPerSession ==
    \A c \in Clients :
        \A i \in 1..Len(cl[c].answers) :
            cl[c].answers[i].body # ExpectedStart =>
                cl[c].answers[i].conn = cl[c].answers[1].conn

(* While the server runs, everything settles in the end: every request     *)
(* is answered, up to the bound on connections (no context is lost to it,  *)
(* and a request nobody answers makes the pipe close, after which REQ      *)
(* repeats it), every context receives again, and every manager told to    *)
(* stop ends.                                                              *)
OutOfConnections(c) == cl[c].conn = MaxConns /\ ~Connected(c)

Settled ==
    /\ \A c \in Clients : cl[c].pc = "over" \/ OutOfConnections(c)
    /\ \A k \in Contexts : ctx[k].st = "recv"
    /\ \A m \in Managers : mgr[m].running \/ mgr[m].pc \in {"unborn", "over"}

ServerSettles == <>[]Settled

=============================================================================
