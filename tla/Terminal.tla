--------------------------------- MODULE Terminal -------------------------------
(***************************************************************************)
(* network/Terminal.cpp and Session.cpp: the part that Server and Client   *)
(* share.  A session outlives its sockets: it keeps what cannot be sent    *)
(* for the next one, and takes what a socket has received.  All of it runs *)
(* on the main thread; the IO thread only fills a socket's recv_que_       *)
(* (arrives) and closes its descriptor (breaks), between the steps of      *)
(* handleSocketRecv's loop too.                                            *)
(*                                                                         *)
(* Nothing sets Session::out_dirty, so it is FALSE.  Using memory that is  *)
(* no Session is undefined: nothing happens after it here.                 *)
(***************************************************************************)
EXTENDS Map, Null

CONSTANTS Socks,            \* the sockets
          SESSION_LENGTH,   \* the buckets of session_map_
          CONNECT,          \* C_CONNECT or S_CONNECT, whichever this side waits for
          Pids,             \* the other protocol ids
          Servers,          \* whether the Terminal is an IServer
          MaxSessions,      \* bound: the sessions made
          MaxSends,         \* bound: the packets sent
          MaxArrivals       \* bound: the packets that arrive, at all sockets

ASSUME TerminalAssumption ==
    /\ NULL \notin Nat /\ Servers \subseteq BOOLEAN
    /\ MaxSessions \in Nat /\ MaxSends \in Nat /\ MaxArrivals \in Nat

VARIABLES
    t_server,    \* whether this one is an IServer
    t_socks,     \* socket -> [valid, ready, recv: recv_que_, session: the weak session_]
    t_sess,      \* the sessions by id: [alive, socket, send: send_packets_, recv: recv_packets_]
    t_map,       \* session_map_
    t_out,       \* out_vec_
    t_bad,       \* a pointer to no session has been used
    t_sent,      \* history: the packets sent, the session of each
    t_given,     \* history: the packets given to sockets, in their order
    t_came,      \* history: socket -> how many packets arrived
    t_loop,      \* handleSocketRecv's loop: [sock: NULL if none runs, rest: the pops it has left]
    t_from,      \* history: socket -> the arrivals up to the one that made its session
    t_last,      \* history: socket -> the arrivals by the time it pulled for that session
    t_lost,      \* history: socket -> those the same loop has released since
    t_handled    \* history: the packets handleSessionRecv has taken

terminalVars == <<t_server, t_socks, t_sess, t_map, t_out, t_bad,
                  t_sent, t_given, t_came, t_loop, t_from, t_last, t_lost, t_handled>>

loopVars == <<t_loop, t_from, t_last, t_lost>>

CLEAR == -2     \* flushSend's results: all is sent, ...
BLOCK == 0      \* ... the buffer is full, ...
ERROR == -1     \* ... the connection is broken

NoLoop == [sock |-> NULL, rest |-> 0]

\* The main thread is not inside handleSocketRecv.
idle == ~ t_bad /\ t_loop = NoLoop

TerminalInit ==
    /\ t_server \in Servers
    /\ t_socks = [s \in Socks |-> [valid |-> TRUE, ready |-> FALSE, recv |-> <<>>,
                                   session |-> NULL]]
    /\ t_sess = <<>> /\ t_map = emptyMap(SESSION_LENGTH)
    /\ t_out = <<>> /\ t_bad = FALSE
    /\ t_sent = <<>> /\ t_given = <<>> /\ t_handled = <<>>
    /\ t_came = [s \in Socks |-> 0] /\ t_from = [s \in Socks |-> 0]
    /\ t_last = [s \in Socks |-> 0] /\ t_lost = [s \in Socks |-> 0] /\ t_loop = NoLoop

---------------------------------------------------------------------------------
(* Sending.                                                                  *)

\* What ISocket::sendPacket may answer: it only queues until the first KIT_POLLOUT.
answers(sock) == IF ~ t_socks[sock].ready THEN {0}
                 ELSE IF t_socks[sock].valid THEN {CLEAR, BLOCK, ERROR} ELSE {ERROR}

\* Session::sendPacket gives the packet to the socket, ...
direct(sess) == sess.send = <<>> /\ sess.socket # NULL /\ t_socks[sess.socket].valid

\* ... or keeps it.  sessionSendPacket lists the session unless the answer is 0.
sessionSendPacket(sid) ==
    LET sess == t_sess[sid]
        pack == Len(t_sent) + 1
    IN  /\ t_sent' = Append(t_sent, sid)
        /\ IF direct(sess)
             THEN /\ t_given' = Append(t_given, pack)
                  /\ \E ret \in answers(sess.socket) :
                        t_out' = IF ret = 0 THEN t_out ELSE Append(t_out, sid)
                  /\ UNCHANGED t_sess
             ELSE /\ t_sess' = [t_sess EXCEPT ![sid].send = Append(@, pack)]
                  /\ t_out' = Append(t_out, sid)
                  /\ UNCHANGED t_given

\* sendProtocol, to a session the map has.
sendProtocol(sid) ==
    /\ idle /\ Len(t_sent) < MaxSends /\ mapHas(t_map, sid)
    /\ sessionSendPacket(sid)
    /\ UNCHANGED <<t_server, t_socks, t_map, t_bad, t_came, loopVars, t_handled>>

\* flush pops packets up to the first whose answer is not 0: how many that may be.
flushes(sess) ==
    IF sess.send = <<>> THEN {0}
    ELSE LET all == Len(sess.send)
         IN  IF answers(sess.socket) = {0} THEN {all}
             ELSE IF BLOCK \in answers(sess.socket) THEN 1 .. all ELSE {1}

\* Terminal::update, when sessions are listed.  handleOutSession takes each off the list
\* after its flush, whatever that says, and puts what is one past the end in its place:
\* with two listed, that is the next it flushes.
update ==
    /\ idle /\ t_out # <<>>
    /\ LET sid == Head(t_out)
       IN  IF ~ t_sess[sid].alive \/ (t_sess[sid].socket = NULL /\ t_sess[sid].send # <<>>)
             THEN t_bad' = TRUE /\ UNCHANGED <<t_sess, t_given>>
             ELSE \E k \in flushes(t_sess[sid]) :
                    /\ t_given' = t_given \o SubSeq(t_sess[sid].send, 1, k)
                    /\ t_sess' = [t_sess EXCEPT ![sid].send = SubSeq(@, k + 1, Len(@))]
                    /\ t_bad' = (Len(t_out) > 1)
    /\ t_out' = <<>>
    /\ UNCHANGED <<t_server, t_socks, t_map, t_sent, t_came, loopVars, t_handled>>

---------------------------------------------------------------------------------
(* Receiving.                                                                *)

\* The IO thread's recvPacket.
arrives(sock, pid) ==
    /\ ~ t_bad /\ FoldFunction(+, 0, t_came) < MaxArrivals /\ t_socks[sock].valid
    /\ t_came' = [t_came EXCEPT ![sock] = @ + 1]
    /\ t_socks' = [t_socks EXCEPT ![sock].recv =
                      Append(@, [sock |-> sock, n |-> t_came[sock] + 1, pid |-> pid])]
    /\ UNCHANGED <<t_server, t_sess, t_map, t_out, t_bad, t_sent, t_given, loopVars,
                   t_handled>>

\* Mutant of pulled: nothing is pulled when the session is new.
pulledLater(sess, packs) == IF sess.recv = <<>> /\ sess.send = <<>> THEN sess
                            ELSE [sess EXCEPT !.recv = @ \o packs]

\* pullPacketsToSession.
pulled(sess, packs) == [sess EXCEPT !.recv = @ \o packs]

\* handleSessionRecv takes them all; those of no known protocol go no further.
handled(sess) == [sess EXCEPT !.recv = <<>>]

\* handlePollEvent, KIT_POLLIN of a socket that has a session.
sessionEvent(sock) ==
    LET sid  == t_socks[sock].session
        sess == t_sess[sid]
    IN  /\ idle /\ sid # NULL
        /\ IF ~ sess.alive
             THEN t_bad' = TRUE /\ UNCHANGED <<t_socks, t_sess, t_handled>>
             ELSE /\ t_sess' = [t_sess EXCEPT ![sid] = handled(pulled(sess, t_socks[sock].recv))]
                  /\ t_handled' = t_handled \o pulled(sess, t_socks[sock].recv).recv
                  /\ t_socks' = [t_socks EXCEPT ![sock].recv = <<>>]
                  /\ UNCHANGED t_bad
        /\ UNCHANGED <<t_server, t_map, t_out, t_sent, t_given, t_came, loopVars>>

\* Of one that has none: handleSocketRecv counts its queue.
socketEvent(sock) ==
    /\ idle /\ t_socks[sock].session = NULL /\ t_socks[sock].recv # <<>>
    /\ t_loop' = [sock |-> sock, rest |-> Len(t_socks[sock].recv)]
    /\ UNCHANGED <<t_server, t_socks, t_sess, t_map, t_out, t_bad, t_sent, t_given, t_came,
                   t_from, t_last, t_lost, t_handled>>

\* One turn of its loop: a packet that is popped, ...
pops ==
    /\ ~ t_bad /\ t_loop # NoLoop /\ t_socks[t_loop.sock].recv # <<>>
    /\ t_loop' = IF t_loop.rest > 1 THEN [t_loop EXCEPT !.rest = @ - 1] ELSE NoLoop

\* ... which is released when it is no CONNECT, whether the socket has no session yet or
\* has pulled for one already, ...
releases ==
    LET sock == t_loop.sock
        que  == t_socks[sock].recv
    IN  /\ pops /\ Head(que).pid # CONNECT
        /\ t_socks' = [t_socks EXCEPT ![sock].recv = Tail(@)]
        /\ IF t_socks[sock].session = NULL
             THEN t_from' = [t_from EXCEPT ![sock] = Head(que).n] /\ UNCHANGED t_lost
             ELSE t_lost' = [t_lost EXCEPT ![sock] = @ + 1] /\ UNCHANGED t_from
        /\ UNCHANGED <<t_server, t_sess, t_map, t_out, t_bad, t_sent, t_given, t_came, t_last,
                       t_handled>>

\* ... and otherwise makes a session (pk_C_CONNECT, pk_S_CONNECT), another one if the socket
\* has one.  setSocket pulls what has come by now; the server handles it at once and answers.
pk_CONNECT ==
    LET sock == t_loop.sock
        que  == t_socks[sock].recv
        sid  == Len(t_sess) + 1
        sess == pulled([alive |-> TRUE, socket |-> sock, send |-> <<>>, recv |-> <<>>], Tail(que))
    IN  /\ pops /\ Head(que).pid = CONNECT /\ Len(t_sess) < MaxSessions
        /\ t_socks' = [t_socks EXCEPT ![sock].recv = <<>>, ![sock].session = sid]
        /\ t_from' = [t_from EXCEPT ![sock] = Head(que).n]
        /\ t_last' = [t_last EXCEPT ![sock] = t_came[sock]]
        /\ t_lost' = [t_lost EXCEPT ![sock] = 0]
        /\ t_map' = mapSet(mapDel(t_map, sid), sid, sid)
        /\ IF t_server
             THEN /\ t_handled' = t_handled \o sess.recv
                  /\ t_sess' = Append(t_sess, handled(sess))
                  /\ t_sent' = Append(t_sent, sid)
                  /\ t_given' = Append(t_given, Len(t_sent) + 1)
                  /\ \E ret \in answers(sock) :
                        t_out' = IF ret = 0 THEN t_out ELSE Append(t_out, sid)
             ELSE /\ t_sess' = Append(t_sess, sess)
                  /\ UNCHANGED <<t_out, t_sent, t_given, t_handled>>
        /\ UNCHANGED <<t_server, t_bad, t_came>>

\* The queue is empty before the count is reached.
noPacket ==
    /\ ~ t_bad /\ t_loop # NoLoop /\ t_socks[t_loop.sock].recv = <<>>
    /\ t_loop' = NoLoop
    /\ UNCHANGED <<t_server, t_socks, t_sess, t_map, t_out, t_bad, t_sent, t_given, t_came,
                   t_from, t_last, t_lost, t_handled>>

---------------------------------------------------------------------------------
(* Sockets and sessions come and go.                                         *)

\* KIT_POLLOUT, the first.
writable(sock) ==
    /\ idle /\ ~ t_socks[sock].ready
    /\ t_socks' = [t_socks EXCEPT ![sock].ready = TRUE]
    /\ UNCHANGED <<t_server, t_sess, t_map, t_out, t_bad, t_sent, t_given, t_came,
                   loopVars, t_handled>>

\* close, by either thread.
breaks(sock) ==
    /\ ~ t_bad /\ t_socks[sock].valid
    /\ t_socks' = [t_socks EXCEPT ![sock].valid = FALSE]
    /\ UNCHANGED <<t_server, t_sess, t_map, t_out, t_bad, t_sent, t_given, t_came,
                   loopVars, t_handled>>

\* setSocket, when the session's socket is broken and a new one takes its place.
setSocket(sid, sock) ==
    LET sess == t_sess[sid]
    IN  /\ idle /\ sess.alive /\ ~ t_socks[sess.socket].valid /\ sess.socket # sock
        /\ t_socks[sock].session = NULL /\ t_came[sock] = 0
        /\ t_sess' = [t_sess EXCEPT ![sid] =
                         pulled([sess EXCEPT !.socket = sock], t_socks[sock].recv)]
        /\ t_socks' = [t_socks EXCEPT ![sock].session = sid, ![sock].recv = <<>>]
        /\ UNCHANGED <<t_server, t_map, t_out, t_bad, t_sent, t_given, t_came,
                       loopVars, t_handled>>

\* delSession: the map's reference is the last.  The socket's session_ and out_vec_ keep
\* the pointer.
delSession(sid) ==
    /\ idle /\ mapHas(t_map, sid)
    /\ t_map' = mapDel(t_map, sid)
    /\ t_sess' = [t_sess EXCEPT ![sid].alive = FALSE]
    /\ UNCHANGED <<t_server, t_socks, t_out, t_bad, t_sent, t_given, t_came,
                   loopVars, t_handled>>

TerminalNext ==
    \/ \E sid \in DOMAIN t_sess : sendProtocol(sid) \/ delSession(sid)
    \/ \E sock \in Socks, pid \in Pids \cup {CONNECT} : arrives(sock, pid)
    \/ \E sock \in Socks : sessionEvent(sock) \/ socketEvent(sock) \/ writable(sock) \/ breaks(sock)
    \/ \E sid \in DOMAIN t_sess, sock \in Socks : setSocket(sid, sock)
    \/ update \/ releases \/ pk_CONNECT \/ noPacket

TerminalSpec == TerminalInit /\ [][TerminalNext]_terminalVars

---------------------------------------------------------------------------------
\* Packets of a session reach its sockets in the order they were sent and once each, over
\* direct sends, sends to a broken socket, flushes that stop half way and a new socket: each
\* is on its way there or has been given, and none is behind a later one.
SessionInOrder ==
    /\ \A n \in DOMAIN t_sent : n \in Range(t_given) \cup Range(t_sess[t_sent[n]].send)
    /\ \A sid \in DOMAIN t_sess :
        LET path == t_given \o t_sess[sid].send
        IN  /\ \A n \in Range(t_sess[sid].send) : t_sent[n] = sid
            /\ \A i, j \in DOMAIN path :
                  i < j /\ t_sent[path[i]] = sid /\ t_sent[path[j]] = sid => path[i] < path[j]

\* What arrives after the packet that made a socket's session is handled once and in the
\* order it came: all that was there when the session was made, and all that comes later but
\* the next t_lost, those the loop it was made in goes on to release; they are no more than
\* had come by then.
ArrivalsKept ==
    \A s \in Socks :
        LET sid  == t_socks[s].session
            path == t_handled \o t_sess[sid].recv \o t_socks[s].recv
            mine == {i \in DOMAIN path : path[i].sock = s /\ path[i].n > t_from[s]}
            lost == t_last[s] + 1 .. t_last[s] + t_lost[s]
        IN  sid # NULL /\ t_sess[sid].alive =>
                /\ {path[i].n : i \in mine} = (t_from[s] + 1 .. t_came[s]) \ lost
                /\ \A i, j \in mine : i < j => path[i].n < path[j].n
                /\ t_lost[s] <= t_last[s]

\* A session keeps its packets in order, all it sends and, of those it receives, all but what
\* that loop takes.
SessionKeeps == SessionInOrder /\ ArrivalsKept
=================================================================================
