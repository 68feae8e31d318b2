---------------------------- MODULE PipeTracking ----------------------------
(***************************************************************************)
(* How a Socket follows its connections.  nng's threads report pipe events *)
(* to the PipeCollection (nng/cpp/pipe.hpp) without the GIL and wake the   *)
(* dispatcher; Socket.update_pipes() (nng/_socket.pxi), on the dispatcher  *)
(* or on a user's thread, carries the collection over to the Python list   *)
(* of Pipes and calls the callbacks; Socket.close() and Pipe.close() cut   *)
(* in at any time.                                                         *)
(*                                                                         *)
(* A PipeHandle is <<pipe, n>>: the second handle of a pipe is the one     *)
(* that handle_event() creates when ADD_POST finds none.  A Python Pipe is *)
(* named by its handle.                                                    *)
(***************************************************************************)
EXTENDS Naturals, Sequences, SequencesExt, Functions

CONSTANTS Pipes,        \* the connections nng makes
          Threads,      \* the Python threads
          Dispatcher,   \* the one that serves _DISPATCH_QUEUE
          NoThread      \* the mutex is free

ASSUME ThreadsAssumption    == NoThread \notin Threads
ASSUME DispatcherAssumption == Dispatcher \in Threads

VARIABLES nng,      \* how far nng is with each pipe
          pushing,  \* pipes whose event is handled and not yet pushed
          wake,     \* sentinels in _DISPATCH_QUEUE
          coll,     \* PipeCollection: its handles, the flag, the callbacks set
          status,   \* PipeHandle._status
          sock,     \* the Socket
          known,    \* Pipe._last_known_status, "none" before the Pipe exists
          cb,       \* Pipes whose on_status_change is set
          told,     \* Pipes whose on_status_change was called at REMOVED
          th,       \* what each thread does
          missed    \* kept for the properties: callbacks set after the removal
                    \* was taken over (late), callbacks close() dropped (dropped)

vars == <<nng, pushing, wake, coll, status, sock, known, cb, told, th, missed>>

Handles == Pipes \X {1, 2}
Status  == {"none", "adding", "active", "removed"}
Pcs     == {"idle", "get", "reconcile", "callbacks", "closelock", "closenng", "closestatus"}
Calls   == {"status", "removed", "new"} \X Handles

TypeOK ==
    /\ nng \in [Pipes -> {"new", "rejected", "pre", "post", "gone"}]
    /\ pushing \subseteq Pipes
    /\ wake \in Nat
    /\ coll \in [pipes : Seq(Handles), had : BOOLEAN, notify : BOOLEAN]
    /\ status \in [Handles -> Status]
    /\ sock \in [open : BOOLEAN, lock : Threads \cup {NoThread}, pipes : Seq(Handles),
                 newcb : BOOLEAN, disconnect : BOOLEAN]
    /\ known \in [Handles -> Status]
    /\ cb \subseteq Handles
    /\ told \subseteq Handles
    /\ th \in [Threads -> [pc : Pcs, snap : Seq(Handles), todo : Seq(Calls)]]
    /\ missed \in [late : SUBSET Handles, dropped : SUBSET Handles]

Idle == [pc |-> "idle", snap |-> <<>>, todo |-> <<>>]

\* The user has set on_new_pipe, and on a PairSocket maybe
\* close_on_disconnect.
Init ==
    /\ nng = [p \in Pipes |-> "new"]
    /\ pushing = {}
    /\ wake = 0
    /\ coll = [pipes |-> <<>>, had |-> FALSE, notify |-> TRUE]
    /\ status = [h \in Handles |-> "none"]
    /\ sock \in [open : {TRUE}, lock : {NoThread}, pipes : {<<>>}, newcb : {TRUE},
                 disconnect : BOOLEAN]
    /\ known = [h \in Handles |-> "none"]
    /\ cb = {}
    /\ told = {}
    /\ th = [t \in Threads |-> Idle]
    /\ missed = [late |-> {}, dropped |-> {}]

-----------------------------------------------------------------------------
(* Slips in the code that the properties must notice; no action uses them. *)

\* handle_event() returns from ADD_POST without setting _had_events.
Mutant_AddPostSilent(p) ==
    /\ coll.notify /\ p \notin pushing /\ nng[p] = "pre"
    /\ nng' = [nng EXCEPT ![p] = "post"]
    /\ pushing' = pushing \cup {p}
    /\ status' = [status EXCEPT ![<<p, 1>>] = "active"]
    /\ UNCHANGED <<wake, coll, sock, known, cb, told, th, missed>>

\* Pipe.close() leaves the callback to the next update.
Mutant_CloseLeavesCallback(h) ==
    /\ known[h] \notin {"none", "removed"}
    /\ known' = [known EXCEPT ![h] = "removed"]
    /\ UNCHANGED <<nng, pushing, wake, coll, status, sock, cb, told, th, missed>>

\* The trampoline wakes the dispatcher for ADD events only.
Mutant_RemovalDoesNotWake(p) ==
    /\ p \in pushing
    /\ pushing' = pushing \ {p}
    /\ wake' = IF nng[p] = "gone" THEN wake ELSE wake + 1
    /\ UNCHANGED <<nng, coll, status, sock, known, cb, told, th, missed>>

\* Pipes that went away stay in the list.
Mutant_KeepsRemoved(prev, snap) == prev

-----------------------------------------------------------------------------
(* PipeCollection, each operation under its mutex.                         *)

Add(h) == coll' = [coll EXCEPT !.pipes = Append(@, h), !.had = TRUE]

Find(p) == {h \in Range(coll.pipes) : h[1] = p}

SetStatus(hs, s) == status' = [h \in Handles |-> IF h \in hs THEN s ELSE status[h]]

Event(p, from, to) ==
    /\ coll.notify
    /\ p \notin pushing
    /\ nng[p] \in from
    /\ nng' = [nng EXCEPT ![p] = to]
    /\ pushing' = pushing \cup {p}
    /\ UNCHANGED <<wake, sock, known, cb, told, th, missed>>

AddPre(p) ==
    /\ Event(p, {"new"}, "pre")
    /\ Add(<<p, 1>>)
    /\ SetStatus({<<p, 1>>}, "adding")

\* The filter says no: the pipe is closed and never enters the collection.
\* close() takes the filter away together with on_new_pipe.
AddPreRejected(p) ==
    /\ sock.newcb
    /\ Event(p, {"new"}, "rejected")
    /\ UNCHANGED <<coll, status>>

AddPost(p) ==
    /\ Event(p, {"pre"}, "post")
    /\ \/ /\ Find(p) # {}
          /\ coll' = [coll EXCEPT !.had = TRUE]
          /\ SetStatus(Find(p), "active")
       \/ /\ Find(p) = {}
          /\ Add(<<p, 2>>)
          /\ SetStatus({<<p, 2>>}, "active")

RemPost(p) ==
    /\ Event(p, {"rejected", "pre", "post"}, "gone")
    /\ LET kept(h) == h[1] # p
       IN  coll' = [coll EXCEPT !.pipes = SelectSeq(@, kept), !.had = TRUE]
    /\ SetStatus(Find(p), "removed")

\* The second half of _pipe_trampoline: the sentinel for the dispatcher.
PushSentinel(p) ==
    /\ p \in pushing
    /\ pushing' = pushing \ {p}
    /\ wake' = wake + 1
    /\ UNCHANGED <<nng, coll, status, sock, known, cb, told, th, missed>>

-----------------------------------------------------------------------------
(* Socket.update_pipes().                                                  *)

At(t, p)   == th[t].pc = p
Goto(t, p) == th' = [th EXCEPT ![t].pc = p]

\* Go on with the callbacks that are left, then return.
CallBacks(todo) ==
    [pc |-> IF todo = <<>> THEN "idle" ELSE "callbacks", snap |-> <<>>, todo |-> todo]

\* Update by the dispatcher for each sentinel; by a user's thread through
\* Socket.pipes, Dialer.start(), Listener.start() or Message.pipe.
UpdateCalled(t) ==
    IF t = Dispatcher THEN wake > 0 /\ wake' = wake - 1
                      ELSE sock.open /\ UNCHANGED wake

\* Under _pipe_mutex: had_events() reads and clears the flag ...
UpdateLock(t) ==
    /\ At(t, "idle")
    /\ UpdateCalled(t)
    /\ sock.lock = NoThread
    /\ \/ /\ coll.had
          /\ coll' = [coll EXCEPT !.had = FALSE]
          /\ sock' = [sock EXCEPT !.lock = t]
          /\ Goto(t, "get")
       \/ /\ ~coll.had
          /\ UNCHANGED <<coll, sock, th>>
    /\ UNCHANGED <<nng, pushing, status, known, cb, told, missed>>

\* ... then get_pipes() copies the handles ...
UpdateGet(t) ==
    /\ At(t, "get")
    /\ th' = [th EXCEPT ![t].pc = "reconcile", ![t].snap = coll.pipes]
    /\ UNCHANGED <<nng, pushing, wake, coll, status, sock, known, cb, told, missed>>

\* ... walks both lists, which are in the same order ...
StillActive(prev, snap) ==
    LET match(acc, h) == IF Len(acc) < Len(snap) /\ h[1] = snap[Len(acc) + 1][1]
                         THEN Append(acc, h) ELSE acc
    IN  FoldLeft(match, <<>>, prev)

\* ... and takes over the status of the Pipes that were there before.
StatusChanges(h) == status[h] # known[h] /\ known[h] # "removed"

UpdateReconcile(t) ==
    /\ At(t, "reconcile")
    /\ LET prev       == sock.pipes
           snap       == th[t].snap
           active     == StillActive(prev, snap)
           new        == SubSeq(snap, Len(active) + 1, Len(snap))
           calls(h)   == h \in cb /\ StatusChanges(h)
           removed(h) == h \notin Range(active)
           todo(k, s) == [i \in DOMAIN s |-> <<k, s[i]>>]
       IN  /\ sock' = [sock EXCEPT !.lock = NoThread, !.pipes = active \o new]
           /\ known' = [h \in Handles |->
                           IF h \in Range(new) \/ (h \in Range(prev) /\ StatusChanges(h))
                           THEN status[h] ELSE known[h]]
           /\ th' = [th EXCEPT ![t] = CallBacks(todo("status", SelectSeq(prev, calls))
                                             \o todo("removed", SelectSeq(prev, removed))
                                             \o todo("new", IF sock.newcb THEN new ELSE <<>>))]
    /\ UNCHANGED <<nng, pushing, wake, coll, status, cb, told, missed>>

\* Pipe.status
PipeStatus(h) == IF known[h] = "removed" THEN "removed" ELSE status[h]

Tell(h) == told' = IF PipeStatus(h) = "removed" THEN told \cup {h} ELSE told

Calling(t, k) == At(t, "callbacks") /\ Head(th[t].todo)[1] = k
Pop(t)        == th' = [th EXCEPT ![t] = CallBacks(Tail(@.todo))]

\* on_status_change()
CallStatus(t) ==
    /\ Calling(t, "status")
    /\ Tell(Head(th[t].todo)[2])
    /\ Pop(t)
    /\ UNCHANGED <<nng, pushing, wake, coll, status, sock, known, cb, missed>>

\* _on_pipe_removed(), which PairSocket overrides.
CallRemoved(t) ==
    /\ Calling(t, "removed")
    /\ IF sock.disconnect THEN th' = [th EXCEPT ![t].pc = "closelock", ![t].todo = Tail(@)]
                          ELSE Pop(t)
    /\ UNCHANGED <<nng, pushing, wake, coll, status, sock, known, cb, told, missed>>

\* The setter of on_status_change stores the callback, whatever the status.
OnStatusChange(h) ==
    /\ cb' = cb \cup {h}
    /\ missed' = [missed EXCEPT !.late = IF known[h] = "removed" /\ h \notin cb
                                        THEN @ \cup {h} ELSE @]

\* on_new_pipe(pipe): the user's function sets pipe.on_status_change.
CallNew(t) ==
    /\ Calling(t, "new")
    /\ OnStatusChange(Head(th[t].todo)[2])
    /\ Pop(t)
    /\ UNCHANGED <<nng, pushing, wake, coll, status, sock, known, told>>

\* A user's thread sets it, on a Pipe it got from Dialer.pipe or Socket.pipes.
SetOnStatusChange(t, h) ==
    /\ At(t, "idle")
    /\ t # Dispatcher
    /\ known[h] # "none"
    /\ h \notin cb
    /\ OnStatusChange(h)
    /\ UNCHANGED <<nng, pushing, wake, coll, status, sock, known, told, th>>

-----------------------------------------------------------------------------
(* Pipe.close(), from any thread, in a callback or not.                    *)

PipeClose(h) ==
    /\ known[h] \notin {"none", "removed"}
    /\ known' = [known EXCEPT ![h] = "removed"]
    /\ told' = IF h \in cb THEN told \cup {h} ELSE told
    /\ UNCHANGED <<nng, pushing, wake, coll, status, sock, cb, th, missed>>

-----------------------------------------------------------------------------
(* Socket.close(), by a user's thread or through close_on_disconnect.      *)

CloseCalled(t) == At(t, "closelock") \/ (At(t, "idle") /\ t # Dispatcher)

\* Under _pipe_mutex: forget the callback, the filter and the pipes, and
\* clear the collection.  A closed socket is left alone.
CloseClear(t) ==
    /\ CloseCalled(t)
    /\ sock.lock = NoThread
    /\ sock.open
    /\ sock' = [sock EXCEPT !.newcb = FALSE, !.pipes = <<>>]
    /\ th' = [th EXCEPT ![t].pc = "closenng", ![t].snap = sock.pipes]
    /\ coll' = [coll EXCEPT !.pipes = <<>>, !.had = TRUE]
    /\ SetStatus(Range(coll.pipes), "removed")
    /\ UNCHANGED <<nng, pushing, wake, known, cb, told, missed>>

CloseAgain(t) ==
    /\ At(t, "closelock")
    /\ sock.lock = NoThread
    /\ ~sock.open
    /\ th' = [th EXCEPT ![t] = CallBacks(@.todo)]
    /\ UNCHANGED <<nng, pushing, wake, coll, status, sock, known, cb, told, missed>>

\* SocketHandle::close(): no more events (three nng_pipe_notify calls, taken as
\* one here), then nng_socket_close.
CloseNng(t) ==
    /\ At(t, "closenng")
    /\ coll' = [coll EXCEPT !.notify = FALSE]
    /\ sock' = [sock EXCEPT !.open = FALSE]
    /\ Goto(t, "closestatus")
    /\ UNCHANGED <<nng, pushing, wake, status, known, cb, told, missed>>

\* handle_status_change() of the pipes that were there; what it returns, the
\* callback to call, is dropped.
CloseStatus(t) ==
    /\ At(t, "closestatus")
    /\ known' = [h \in Handles |-> IF h \in Range(th[t].snap) /\ StatusChanges(h)
                                   THEN status[h] ELSE known[h]]
    /\ missed' = [missed EXCEPT !.dropped =
                     @ \cup {h \in cb \cap Range(th[t].snap) : StatusChanges(h)}]
    /\ th' = [th EXCEPT ![t] = CallBacks(@.todo)]
    /\ UNCHANGED <<nng, pushing, wake, coll, status, sock, cb, told>>

-----------------------------------------------------------------------------
\* What a thread does once it has begun.
Continue(t) ==
    \/ UpdateGet(t) \/ UpdateReconcile(t)
    \/ CallStatus(t) \/ CallRemoved(t) \/ CallNew(t)
    \/ CloseNng(t) \/ CloseStatus(t)

Next ==
    \/ \E p \in Pipes : AddPre(p) \/ AddPreRejected(p) \/ AddPost(p) \/ RemPost(p)
    \/ \E p \in Pipes : PushSentinel(p)
    \/ \E t \in Threads : UpdateLock(t) \/ CloseClear(t) \/ CloseAgain(t) \/ Continue(t)
    \/ \E h \in Handles : PipeClose(h) \/ \E t \in Threads : SetOnStatusChange(t, h)

Spec == Init /\ [][Next]_vars

(* nng's callback goes on, and a thread goes on with what it has begun.    *)
(* The dispatcher gets to the next sentinel, and a close() that was begun  *)
(* in a callback gets on, when _pipe_mutex is free again and again.        *)
(* Nothing is assumed of nng's events and of the user's calls.             *)
Fairness ==
    /\ \A p \in Pipes : WF_vars(PushSentinel(p))
    /\ SF_vars(UpdateLock(Dispatcher))
    /\ \A t \in Threads :
          /\ WF_vars(Continue(t))
          /\ SF_vars(At(t, "closelock") /\ (CloseClear(t) \/ CloseAgain(t)))

FairSpec == Spec /\ Fairness

-----------------------------------------------------------------------------
(* When no update holds the mutex and no event waits for one, the socket's *)
(* list is the collection, in its order, and every Pipe knows its handle's *)
(* status or was closed before nng said so.  An update that returns thus   *)
(* leaves every earlier event visible, also when another thread's update   *)
(* has processed it (the comment in update_pipes).                         *)
UpToDateWhenQuiet ==
    sock.lock = NoThread /\ ~coll.had =>
        /\ sock.pipes = coll.pipes
        /\ \A h \in Range(coll.pipes) : known[h] \in {status[h], "removed"}

(* Whoever finds out that a Pipe is gone (an update on either thread,      *)
(* Pipe.close(), Socket.close()), its on_status_change has been called or  *)
(* is about to be, with two exceptions: a callback that was set when the   *)
(* removal had already been taken over, and one that close() was handed    *)
(* and dropped.                                                            *)
AboutToTell(h) == \E t \in Threads : <<"status", h>> \in Range(th[t].todo)
RemovalReportedUnlessMissed ==
    \A h \in cb :
        known[h] = "removed" =>
            h \in told \/ AboutToTell(h) \/ h \in missed.late \cup missed.dropped

(* Every event is carried over until the socket is closed: the sentinel    *)
(* comes after the event, so the dispatcher cannot miss one.               *)
EventsCarriedOver == coll.had ~> ~coll.had \/ ~sock.newcb

(* close_on_disconnect: the socket closes when a pipe it lists goes away.  *)
DisconnectCloses ==
    \A h \in Handles :
        sock.disconnect /\ h \in Range(sock.pipes) /\ status[h] = "removed" ~> ~sock.open
=============================================================================
