---------------------------------- MODULE Client --------------------------------
(***************************************************************************)
(* network/Client.cpp, platform/linux/Client_linux.cpp and kit/Thread.cpp: *)
(* a client's two threads.  startup makes the socket and an IO thread,     *)
(* which connects, again and again, then waits on an edge-triggered epoll, *)
(* receives, and posts each event; the main thread takes the events once a *)
(* frame, asks for a session when the socket can be written and makes the  *)
(* session when the server has answered; at the end of a frame the RefPool *)
(* gives up its references.  The threads share socket_, active_ and the    *)
(* socket, without a lock.                                                 *)
(*                                                                         *)
(* The n-th startup's Socket, connection, epoll, Thread object and IO      *)
(* thread all go by n.  Packets other than the answer are left out.  A use *)
(* of NULL, of a deleted object or of a pure virtual function ends the     *)
(* process: crash says which.                                              *)
(***************************************************************************)
EXTENDS Integers, Sequences, FiniteSets

CONSTANTS Starts,       \* 1 .. the bound on calls of startup
          EventLength,  \* CLIENT_EVENT_LENGTH
          Refusals,     \* bound: how often the server refuses a connection
          Breaks,       \* whether connections may break
          Signals,      \* whether a signal may interrupt epoll_wait
          Shutdowns,    \* whether the user calls shutdown
          NULL

ASSUME ClientAssumption ==
    /\ Starts = 1 .. Cardinality(Starts) /\ EventLength \in Nat \ {0} /\ Refusals \in Nat
    /\ {Breaks, Signals, Shutdowns} \subseteq BOOLEAN /\ NULL \notin Starts

VARIABLES
    started,      \* how many startups there have been
    conn,         \* n -> "none", "connecting", "up" or "broken"
    refused,      \* how many connections have been refused
    asked,        \* n -> the C_CONNECTs that reach its connection
    wire,         \* n -> the S_CONNECTs on their way
    edge,         \* n -> epoll has something new for its descriptor
    open,         \* n -> its descriptor is open
    refs,         \* n -> its Socket's reference_count_
    ready_out, recv_que_, session,  \* n -> fields of its Socket: the answers, a session
    thread_refs,  \* n -> its Thread's reference_count_
    pool,         \* the objects, <<"socket", n>> and <<"thread", n>>, in the RefPool
    socket_, thread_, active_, event_que_,   \* fields of the Client
    main,         \* the main thread: [pc, cnt, ev, sock] of handlePollEvent
    io,           \* n -> its IO thread: [pc, ev]
    crash,        \* "no", "null", "dead" or "pure"
    ended         \* history: the n whose end has begun: broken, a signal, shutdown

sockets == <<open, refs, ready_out, recv_que_, session>>
peers == <<conn, refused, asked, wire, edge>>
fields == <<socket_, thread_, active_, event_que_>>
vars == <<started, conn, refused, asked, wire, edge, open, refs, ready_out, recv_que_, session,
          thread_refs, pool, socket_, thread_, active_, event_que_, main, io, crash, ended>>

Init ==
    /\ started = 0 /\ refused = 0
    /\ conn = [n \in Starts |-> "none"] /\ asked = [n \in Starts |-> 0]
    /\ wire = [n \in Starts |-> 0] /\ edge = [n \in Starts |-> FALSE]
    /\ open = [n \in Starts |-> FALSE] /\ refs = [n \in Starts |-> 0]
    /\ ready_out = [n \in Starts |-> FALSE] /\ recv_que_ = [n \in Starts |-> 0]
    /\ session = [n \in Starts |-> FALSE] /\ thread_refs = [n \in Starts |-> 0]
    /\ pool = {} /\ socket_ = NULL /\ thread_ = NULL /\ active_ = FALSE /\ event_que_ = <<>>
    /\ main = [pc |-> "idle", cnt |-> 0, ev |-> {}, sock |-> NULL]
    /\ io = [n \in Starts |-> [pc |-> "none", ev |-> {}]]
    /\ crash = "no" /\ ended = {}

Running == crash = "no"

\* The process ends.
dies(how) ==
    /\ crash' = how
    /\ UNCHANGED <<started, peers, sockets, thread_refs, pool, fields, main, io, ended>>

\* What there is to use at a Socket pointer.
deadly(s) == s = NULL \/ refs[s] = 0
cause(s) == IF s = NULL THEN "null" ELSE "dead"

\* The last reference to a Socket closes it (~ISocket).
releases(s) ==
    /\ refs' = [refs EXCEPT ![s] = @ - 1]
    /\ open' = IF refs[s] = 1 THEN [open EXCEPT ![s] = FALSE] ELSE open

---------------------------------------------------------------------------------
(* The server and the network.                                               *)

Accepted(n) ==
    /\ Running /\ conn[n] = "connecting" /\ open[n]
    /\ conn' = [conn EXCEPT ![n] = "up"] /\ edge' = [edge EXCEPT ![n] = TRUE]
    /\ UNCHANGED <<started, refused, asked, wire, sockets, thread_refs, pool, fields, main, io,
                   crash, ended>>

Refused(n) ==
    /\ Running /\ conn[n] = "connecting" /\ open[n] /\ refused < Refusals
    /\ conn' = [conn EXCEPT ![n] = "none"] /\ refused' = refused + 1
    /\ UNCHANGED <<started, asked, wire, edge, sockets, thread_refs, pool, fields, main, io,
                   crash, ended>>

\* S_CONNECT, once per connection.
Answered(n) ==
    /\ Running /\ conn[n] = "up" /\ open[n] /\ asked[n] > 0
    /\ wire[n] = 0 /\ recv_que_[n] = 0 /\ ~ session[n]
    /\ wire' = [wire EXCEPT ![n] = 1] /\ edge' = [edge EXCEPT ![n] = TRUE]
    /\ UNCHANGED <<started, conn, refused, asked, sockets, thread_refs, pool, fields, main, io,
                   crash, ended>>

Broken(n) ==
    /\ Running /\ Breaks /\ conn[n] = "up" /\ open[n]
    /\ conn' = [conn EXCEPT ![n] = "broken"] /\ edge' = [edge EXCEPT ![n] = TRUE]
    /\ ended' = ended \cup {n}
    /\ UNCHANGED <<started, refused, asked, wire, sockets, thread_refs, pool, fields, main, io, crash>>

\* What epoll_wait reports of a descriptor with something new: all that holds by now.
ready(n) ==
    (IF conn[n] = "up" THEN {"OUT"} ELSE {})
    \cup (IF conn[n] = "broken" THEN {"IN", "OUT", "ERR"} ELSE {})
    \cup (IF wire[n] > 0 THEN {"IN"} ELSE {})

---------------------------------------------------------------------------------
(* The main thread: startup and shutdown.                                    *)

\* Mutant of startupSocket: the pool's reference is the only one.
startupSocketUnretained ==
    /\ Running /\ main.pc = "idle" /\ socket_ = NULL /\ started + 1 \in Starts
    /\ LET n == started + 1
       IN  /\ started' = n /\ socket_' = n
           /\ open' = [open EXCEPT ![n] = TRUE] /\ refs' = [refs EXCEPT ![n] = 1]
           /\ pool' = pool \cup {<<"socket", n>>}
    /\ active_' = TRUE
    /\ main' = [main EXCEPT !.pc = "startup"]
    /\ UNCHANGED <<peers, ready_out, recv_que_, session, thread_refs, thread_, event_que_, io,
                   crash, ended>>

\* IClient::startup: a pooled Socket, retained.  (With a socket_ there is, shutdown first.)
startupSocket ==
    /\ Running /\ main.pc = "idle" /\ socket_ = NULL /\ started + 1 \in Starts
    /\ LET n == started + 1
       IN  /\ started' = n /\ socket_' = n
           /\ open' = [open EXCEPT ![n] = TRUE] /\ refs' = [refs EXCEPT ![n] = 2]
           /\ pool' = pool \cup {<<"socket", n>>}
    /\ active_' = TRUE
    /\ main' = [main EXCEPT !.pc = "startup"]
    /\ UNCHANGED <<peers, ready_out, recv_que_, session, thread_refs, thread_, event_que_, io,
                   crash, ended>>

\* Client::startup: the epoll and the IO thread, a pooled Thread, retained.
startupThread ==
    /\ Running /\ main.pc = "startup"
    /\ active_' = FALSE
    /\ thread_' = started
    /\ thread_refs' = [thread_refs EXCEPT ![started] = 2]
    /\ pool' = pool \cup {<<"thread", started>>}
    /\ io' = [io EXCEPT ![started].pc = "connect"]
    /\ main' = [main EXCEPT !.pc = "idle"]
    /\ UNCHANGED <<started, peers, sockets, socket_, event_que_, crash, ended>>

\* IClient::shutdown.
shutdownSocket ==
    /\ Running /\ Shutdowns /\ main.pc = "idle" /\ thread_ # NULL
    /\ active_' = FALSE /\ ended' = ended \cup {thread_}
    /\ IF socket_ = NULL THEN UNCHANGED <<open, refs, socket_>>
       ELSE /\ open' = [open EXCEPT ![socket_] = FALSE]
            /\ refs' = [refs EXCEPT ![socket_] = @ - 1]
            /\ socket_' = NULL
    /\ main' = [main EXCEPT !.pc = "shutdown"]
    /\ UNCHANGED <<started, peers, ready_out, recv_que_, session, thread_refs, pool, thread_,
                   event_que_, io, crash>>

\* ~Thread, then ~IThread: by then join is IThread's again, pure.  active_ of a Thread stays
\* set when its thread has ended.
lastReference(n) == thread_refs[n] = 1

\* Client::shutdown releases thread_: stop, and so join, when that was the last reference.
shutdownThread ==
    /\ Running /\ main.pc = "shutdown"
    /\ IF lastReference(thread_) THEN dies("pure")
       ELSE /\ thread_refs' = [thread_refs EXCEPT ![thread_] = @ - 1]
            /\ thread_' = NULL /\ main' = [main EXCEPT !.pc = "idle"]
            /\ UNCHANGED <<started, peers, sockets, pool, socket_, active_, event_que_, io,
                           crash, ended>>

\* The end of a frame: the RefPool gives up its references.
clearPool ==
    /\ Running /\ main.pc = "idle" /\ pool # {}
    /\ IF \E n \in Starts : <<"thread", n>> \in pool /\ lastReference(n) THEN dies("pure")
       ELSE /\ refs' = [n \in Starts |-> IF <<"socket", n>> \in pool THEN refs[n] - 1 ELSE refs[n]]
            /\ open' = [n \in Starts |-> open[n] /\ refs'[n] > 0]
            /\ thread_refs' = [n \in Starts |-> IF <<"thread", n>> \in pool
                                                THEN thread_refs[n] - 1 ELSE thread_refs[n]]
            /\ pool' = {}
            /\ UNCHANGED <<started, peers, ready_out, recv_que_, session, fields, main, io,
                           crash, ended>>

---------------------------------------------------------------------------------
(* The main thread: handlePollEvent.                                         *)

\* It takes as many events as there are now, and remembers socket_.
pollBegin ==
    /\ Running /\ main.pc = "idle" /\ event_que_ # <<>>
    /\ main' = [main EXCEPT !.pc = "pop", !.cnt = Len(event_que_), !.sock = socket_]
    /\ UNCHANGED <<started, peers, sockets, thread_refs, pool, fields, io, crash, ended>>

pollPop ==
    /\ Running /\ main.pc = "pop"
    /\ IF main.cnt = 0
         THEN main' = [main EXCEPT !.pc = "idle", !.sock = NULL] /\ UNCHANGED event_que_
         ELSE /\ main' = [main EXCEPT !.pc = "in", !.cnt = @ - 1, !.ev = Head(event_que_)]
              /\ event_que_' = Tail(event_que_)
    /\ UNCHANGED <<started, peers, sockets, thread_refs, pool, socket_, thread_, active_, io,
                   crash, ended>>

\* KIT_POLLIN: handleSocketRecv, and pk_S_CONNECT's session, which retains the Socket.
\* (Of a socket with a session the packets go there.)
pollIn ==
    /\ Running /\ main.pc = "in"
    /\ IF "IN" \in main.ev /\ deadly(socket_) THEN dies(cause(socket_))
       ELSE /\ main' = [main EXCEPT !.pc = "out"]
            /\ IF "IN" \in main.ev
                 THEN LET made == ~ session[socket_] /\ recv_que_[socket_] > 0
                      IN  /\ session' = [session EXCEPT ![socket_] = @ \/ made]
                          /\ refs' = [refs EXCEPT ![socket_] = IF made THEN @ + 1 ELSE @]
                          /\ recv_que_' = [recv_que_ EXCEPT ![socket_] = 0]
                 ELSE UNCHANGED <<session, refs, recv_que_>>
            /\ UNCHANGED <<started, peers, open, ready_out, thread_refs, pool, fields, io,
                           crash, ended>>

\* Mutant of writable: every OUT asks for a session.
writableEachTime(s) == "OUT" \in main.ev
writable(s) == "OUT" \in main.ev /\ ~ ready_out[s]

\* KIT_POLLOUT, the first time: flushSend, and pk_C_CONNECT unless that failed, which it can
\* only of packets of the user that a session has queued since a receive failed.  With none
\* queued, pk_C_CONNECT is called on a broken connection too: its packet is lost, and nothing
\* says so.
pollOut ==
    /\ Running /\ main.pc = "out"
    /\ IF "OUT" \in main.ev /\ deadly(main.sock) THEN dies(cause(main.sock))
       ELSE IF "OUT" \in main.ev /\ writable(main.sock)
       THEN \/ /\ conn[main.sock] # "up" /\ session[main.sock]
               /\ ready_out' = [ready_out EXCEPT ![main.sock] = TRUE]
               /\ main' = [main EXCEPT !.pc = "err", !.ev = @ \cup {"ERR"}]
               /\ UNCHANGED <<started, peers, open, refs, recv_que_, session, thread_refs, pool,
                              fields, io, crash, ended>>
            \/ socket_ = NULL /\ dies("null")
            \/ /\ socket_ # NULL
               /\ ready_out' = [ready_out EXCEPT ![main.sock] = TRUE]
               /\ asked' = IF conn[socket_] = "up" THEN [asked EXCEPT ![socket_] = @ + 1] ELSE asked
               /\ main' = [main EXCEPT !.pc = "err"]
               /\ UNCHANGED <<started, conn, refused, wire, edge, open, refs, recv_que_, session,
                              thread_refs, pool, fields, io, crash, ended>>
       ELSE /\ main' = [main EXCEPT !.pc = "err"]
            /\ UNCHANGED <<started, peers, sockets, thread_refs, pool, fields, io, crash, ended>>

\* KIT_POLLERR: socket_ goes; the remembered one stays for the events that follow.
pollErr ==
    /\ Running /\ main.pc = "err"
    /\ IF "ERR" \in main.ev /\ deadly(socket_) THEN dies(cause(socket_))
       ELSE /\ main' = [main EXCEPT !.pc = "pop"]
            /\ IF "ERR" \in main.ev THEN releases(socket_) /\ socket_' = NULL
                                    ELSE UNCHANGED <<refs, open, socket_>>
            /\ UNCHANGED <<started, peers, ready_out, recv_que_, session, thread_refs, pool,
                           thread_, active_, event_que_, io, crash, ended>>

---------------------------------------------------------------------------------
(* The n-th IO thread: handleThread.                                         *)

ioGoto(n, pc) == io' = [io EXCEPT ![n].pc = pc]

\* connect, every two seconds until it succeeds: of whatever socket_ is now.
ioConnect(n) ==
    /\ Running /\ io[n].pc = "connect"
    /\ IF deadly(socket_) THEN dies(cause(socket_))
       ELSE /\ IF conn[socket_] = "up" /\ open[socket_]
                 THEN ioGoto(n, "activate") /\ UNCHANGED conn
                 ELSE /\ conn' = [conn EXCEPT ![socket_] =
                            IF @ = "none" /\ open[socket_] THEN "connecting" ELSE @]
                      /\ UNCHANGED io
            /\ UNCHANGED <<started, refused, asked, wire, edge, sockets, thread_refs, pool, fields,
                           main, crash, ended>>

\* Mutant of ioActivate: active_ stays as startup left it.
ioActivateNot(n) ==
    /\ Running /\ io[n].pc = "activate"
    /\ ioGoto(n, "loop")
    /\ UNCHANGED <<started, peers, sockets, thread_refs, pool, fields, main, crash, ended>>

ioActivate(n) ==
    /\ Running /\ io[n].pc = "activate"
    /\ active_' = TRUE
    /\ ioGoto(n, "loop")
    /\ UNCHANGED <<started, peers, sockets, thread_refs, pool, socket_, thread_, event_que_, main,
                   crash, ended>>

\* while (active_), and sleeping while the queue is full.
ioLoop(n) ==
    /\ Running /\ io[n].pc = "loop"
    /\ ~ active_ \/ Len(event_que_) < EventLength
    /\ ioGoto(n, IF active_ THEN "wait" ELSE "done")
    /\ UNCHANGED <<started, peers, sockets, thread_refs, pool, fields, main, crash, ended>>

ioWait(n) ==
    /\ Running /\ io[n].pc = "wait" /\ edge[n] /\ open[n] /\ ready(n) # {}
    /\ edge' = [edge EXCEPT ![n] = FALSE]
    /\ io' = [io EXCEPT ![n] = [pc |-> "handle", ev |-> ready(n)]]
    /\ UNCHANGED <<started, conn, refused, asked, wire, sockets, thread_refs, pool, fields, main,
                   crash, ended>>

\* EINTR: an ERR event, and the thread ends.
ioSignal(n) ==
    /\ Running /\ Signals /\ io[n].pc = "wait"
    /\ IF deadly(socket_) THEN dies(cause(socket_))
       ELSE /\ event_que_' = Append(event_que_, {"ERR"})
            /\ ioGoto(n, "done")
            /\ ended' = ended \cup {n}
            /\ UNCHANGED <<started, peers, sockets, thread_refs, pool, socket_, thread_, active_,
                           main, crash>>

\* handleEvents looks whether there is a socket_ ...
ioHandle(n) ==
    /\ Running /\ io[n].pc = "handle"
    /\ ioGoto(n, IF socket_ # NULL /\ "IN" \in io[n].ev THEN "recv" ELSE "push")
    /\ UNCHANGED <<started, peers, sockets, thread_refs, pool, fields, main, crash, ended>>

\* ... and then receives: from a broken connection nothing.
ioRecv(n) ==
    /\ Running /\ io[n].pc = "recv"
    /\ IF deadly(socket_) THEN dies(cause(socket_))
       ELSE /\ recv_que_' = [recv_que_ EXCEPT ![socket_] = @ + wire[socket_]]
            /\ wire' = [wire EXCEPT ![socket_] = 0]
            /\ ready_out' = IF conn[socket_] = "up" THEN ready_out
                            ELSE [ready_out EXCEPT ![socket_] = FALSE]
            /\ ioGoto(n, "push")
            /\ UNCHANGED <<started, conn, refused, asked, edge, open, refs, session, thread_refs,
                           pool, fields, main, crash, ended>>

ioPush(n) ==
    /\ Running /\ io[n].pc = "push"
    /\ event_que_' = Append(event_que_, io[n].ev)
    /\ io' = [io EXCEPT ![n] = [pc |-> "loop", ev |-> {}]]
    /\ UNCHANGED <<started, peers, sockets, thread_refs, pool, socket_, thread_, active_, main,
                   crash, ended>>

---------------------------------------------------------------------------------
peer(n) == Accepted(n) \/ Refused(n) \/ Answered(n) \/ Broken(n)
frame == startupThread \/ shutdownThread \/ clearPool \/ pollBegin \/ pollPop \/ pollIn
         \/ pollOut \/ pollErr
thread(n) == ioConnect(n) \/ ioActivate(n) \/ ioLoop(n) \/ ioWait(n) \/ ioHandle(n) \/ ioRecv(n)
             \/ ioPush(n)

Next == startupSocket \/ shutdownSocket \/ frame
        \/ \E n \in Starts : peer(n) \/ thread(n) \/ ioSignal(n)

Spec == Init /\ [][Next]_vars

\* Frames go on, the operating system runs every IO thread, and the server accepts (it
\* refuses Refusals times at most) and answers.
FairSpec ==
    /\ Spec /\ WF_vars(frame)
    /\ \A n \in Starts : WF_vars(thread(n)) /\ WF_vars(Accepted(n)) /\ WF_vars(Answered(n))

---------------------------------------------------------------------------------
\* Until its end begins (it breaks, a signal comes, shutdown is called), no part of the
\* client meets a NULL or deleted Socket: the references of startup, the pool and the
\* session, released by different parts at different times, keep it.
SafeWhileUp == crash # "no" => ended # {}

\* Every startup comes to a session, by the two threads' events alone, whenever the
\* connection is made and however often it is refused first: no edge is lost between
\* addCtrl, connect and epoll_wait, and each event posted finds its handler.
SessionMade ==
    \A n \in Starts : started >= n ~> session[n] \/ ended # {}

\* Client.cpp:108 says that OUT events come many times: the session is asked for once.
\* (After a receive error it may be asked for again: ready_out is taken back.)
AskedOnce == \A n \in Starts : n \in ended \/ asked[n] <= 1
=================================================================================
