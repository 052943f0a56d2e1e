---------------------------------- MODULE Server --------------------------------
(***************************************************************************)
(* network/Server.cpp and platform/linux/Server_linux.cpp: the server's    *)
(* two threads.  The IO thread (handleThread) waits on an edge-triggered   *)
(* epoll, accepts, reads packets into the sockets' recv_que_ and posts     *)
(* each event to event_que_; the main thread (handlePollEvent, once a      *)
(* frame) takes the events, hands packets to sessions, flushes what is to  *)
(* be sent and deletes broken sockets.  They share sockets_, indexed by    *)
(* descriptor, the Socket objects and the RefPool.  del_socket_mutex_ is   *)
(* the only lock: it makes delSocket exclusive and nothing else.           *)
(*                                                                         *)
(* A client's connection stands for its Socket object too: accept makes    *)
(* one for each.  Packets arrive whole here (module Socket has the bytes), *)
(* and event_que_ and recv_que_ are the FIFOs that modules Queue and QList *)
(* show them to be when one thread at a time uses them.  Using a Socket    *)
(* that has been deleted is undefined: it ends that thread here.           *)
(*                                                                         *)
(* Nothing keeps the threads apart in Ref.cpp and RefPool.cpp.  ++ and --  *)
(* of a Socket's reference_count_ are a load and a store, and the later    *)
(* store wins; the pool's vector is appended to in two steps, and a swap   *)
(* between them leaves it undefined.  `torn` records whose count or place  *)
(* in the pool has been overwritten so.                                    *)
(***************************************************************************)
EXTENDS Integers, Sequences, FiniteSets, FiniteSetsExt, SequencesExt

CONSTANTS Conns,         \* the connections clients make
          LISTEN,        \* the listening socket and its descriptor
          Fds,           \* the descriptors the process has left for accept
          QueueLength,   \* SERVER_EVENT_LENGTH
          MaxData,       \* bound: packets a client sends after its C_CONNECT
          Resets,        \* the connections that may break
          NULL

ASSUME ServerAssumption ==
    /\ LISTEN \in Nat /\ Fds \subseteq Nat \ {LISTEN} /\ IsFiniteSet(Fds)
    /\ LISTEN \notin Conns /\ NULL \notin Conns /\ NULL \notin Nat \cup {"main", "io"}
    /\ QueueLength \in Nat \ {0} /\ MaxData \in Nat
    /\ Resets \subseteq Conns

VARIABLES
    backlog,     \* connections waiting for accept
    peer,        \* of each connection: "none", "up" or "reset"
    asked,       \* how many packets its client has sent, C_CONNECT first
    wire,        \* those still on their way
    handle,      \* the connection's open descriptor at the server, or NULL
    interest,    \* the descriptors epoll watches
    edges,       \* those with something new since epoll_wait last reported them
    sockets_,    \* descriptor -> Socket, or NULL
    refs,        \* the Socket's reference count; 0: deleted, or not made yet
    pool,        \* the Sockets in the RefPool: it will release their first reference
    vec,         \* those RefPool::clear has taken out and not released yet
    loaded,      \* thread -> the count it has read for ++ or --
    torn,        \* history: the Sockets one thread's update of which overwrote the other's
    ready_out, recv_que_,  \* fields of the Sockets
    event_que_,
    del_socket_mutex_,     \* the thread in delSocket, or NULL
    session,     \* the Sockets that have a Session
    answer,      \* S_CONNECT to the client: "none", "queued", "sent" or "lost"
    received,    \* packets handed to the connection's session
    released,    \* those handleSocketRecv has released though there was a session
    early,       \* history: how many its client has sent before there was an answer
    main,        \* the main thread: [pc, cnt, ev, sock] of handlePollEvent; rest: of
                 \* handleSocketRecv's count, what its loop has still to pop
    io           \* the IO thread: [pc, batch, ev, sock] of handleThread

clients == <<backlog, peer, asked, early, wire>>
kernel == <<handle, interest, edges>>
counts == <<refs, pool, vec, loaded, torn>>
objects == <<counts, ready_out, recv_que_>>
sessions == <<session, answer, received, released>>
vars == <<backlog, peer, asked, early, wire, handle, interest, edges, sockets_, refs, pool, vec, loaded,
          torn, ready_out, recv_que_, event_que_, del_socket_mutex_, session, answer, received,
          released, main, io>>

Descriptors == Fds \cup {LISTEN}
Events == {"IN", "OUT", "ERR"}
PollEvent == [fd : Descriptors, events : SUBSET Events]
NoEvent == [fd |-> LISTEN, events |-> {}]

\* A client's packets by number, its request first.
C_CONNECT == 0

Init ==
    /\ backlog = <<>> /\ peer = [c \in Conns |-> "none"]
    /\ asked = [c \in Conns |-> 0] /\ wire = [c \in Conns |-> <<>>]
    /\ early = [c \in Conns |-> 0]
    /\ handle = [c \in Conns |-> NULL] /\ interest = {LISTEN} /\ edges = {}
    /\ sockets_ = [f \in Descriptors |-> IF f = LISTEN THEN LISTEN ELSE NULL]
    /\ refs = [c \in Conns |-> 0] /\ pool = {} /\ vec = {} /\ torn = {}
    /\ loaded = [t \in {"main", "io"} |-> 0]
    /\ ready_out = [c \in Conns |-> FALSE] /\ recv_que_ = [c \in Conns |-> <<>>]
    /\ event_que_ = <<>> /\ del_socket_mutex_ = NULL
    /\ session = {} /\ answer = [c \in Conns |-> "none"]
    /\ received = [c \in Conns |-> <<>>] /\ released = [c \in Conns |-> {}]
    /\ main = [pc |-> "update", cnt |-> 0, ev |-> NoEvent, sock |-> NULL, rest |-> 0]
    /\ io = [pc |-> "wait", batch |-> <<>>, ev |-> NoEvent, sock |-> NULL]

---------------------------------------------------------------------------------
(* The clients and the kernel.                                               *)

\* Something new at a descriptor: an edge, if epoll watches it.
Announce(f) == edges' = IF f \in interest THEN edges \cup {f} ELSE edges

connect(c) ==
    /\ peer[c] = "none"
    /\ peer' = [peer EXCEPT ![c] = "up"]
    /\ backlog' = Append(backlog, c)
    /\ Announce(LISTEN)
    /\ UNCHANGED <<asked, early, wire, handle, interest, sockets_, objects, event_que_,
                   del_socket_mutex_, sessions, main, io>>

\* A client asks for a session, and sends data when it has been given one (as Client does) or
\* before.
clientSend(c) ==
    /\ peer[c] = "up"
    /\ asked[c] <= MaxData
    /\ early' = [early EXCEPT ![c] = @ + (IF asked[c] = 0 \/ answer[c] = "sent" THEN 0 ELSE 1)]
    /\ asked' = [asked EXCEPT ![c] = @ + 1]
    /\ wire' = [wire EXCEPT ![c] = Append(@, asked[c])]
    /\ Announce(handle[c])
    /\ UNCHANGED <<backlog, peer, handle, interest, sockets_, objects, event_que_,
                   del_socket_mutex_, sessions, main, io>>

reset(c) ==
    /\ c \in Resets
    /\ peer[c] = "up"
    /\ peer' = [peer EXCEPT ![c] = "reset"]
    /\ Announce(handle[c])
    /\ UNCHANGED <<backlog, asked, early, wire, handle, interest, sockets_, objects, event_que_,
                   del_socket_mutex_, sessions, main, io>>

\* What epoll_wait reports of a descriptor: all that is ready there by now.
Owner(f) == CHOOSE c \in Conns : handle[c] = f
Ready(f) ==
    IF f = LISTEN
      THEN {e \in {"IN"} : backlog # <<>>}
      ELSE {"OUT"} \cup {e \in {"IN", "ERR"} : peer[Owner(f)] = "reset"}
                   \cup {e \in {"IN"} : wire[Owner(f)] # <<>>}

---------------------------------------------------------------------------------
(* Reference counts and delSocket, by either thread.                         *)

Deleted(sock) == sock \in Conns /\ refs[sock] = 0

load(thread, sock) == loaded' = [loaded EXCEPT ![thread] = refs[sock]]

\* The store of ++ or --, which overwrites what the other thread has stored since the load.
store(thread, sock, count) ==
    /\ refs' = [refs EXCEPT ![sock] = count]
    /\ torn' = IF refs[sock] = loaded[thread] THEN torn ELSE torn \cup {sock}
    /\ loaded' = [loaded EXCEPT ![thread] = 0]

\* Mutant of release: twice.
releaseTwice(thread, sock) ==
    /\ store(thread, sock, loaded[thread] - 2)
    /\ UNCHANGED kernel

\* Ref::retain and Ref::release.  The last reference deletes the Socket, which closes its
\* descriptor, and epoll forgets that.
retain(thread, sock) == store(thread, sock, loaded[thread] + 1)
release(thread, sock) ==
    /\ store(thread, sock, loaded[thread] - 1)
    /\ IF loaded[thread] # 1 THEN UNCHANGED kernel
       ELSE /\ handle' = [handle EXCEPT ![sock] = NULL]
            /\ interest' = interest \ {handle[sock]}
            /\ edges' = edges \ {handle[sock]}

\* Mutant of delSocket: the Socket is released but not closed.
delSocketNoClose(thread, f) ==
    /\ del_socket_mutex_ = NULL /\ ~ Deleted(sockets_[f])
    /\ del_socket_mutex_' = IF sockets_[f] = NULL THEN NULL ELSE thread
    /\ IF sockets_[f] \in Conns THEN load(thread, sockets_[f]) ELSE UNCHANGED loaded
    /\ UNCHANGED kernel

\* Under the lock: close the Socket found at that index; ::close frees the descriptor, and
\* epoll forgets it.  The count is read for its release.  The lock is kept when there was one.
delSocket(thread, f) ==
    /\ del_socket_mutex_ = NULL /\ ~ Deleted(sockets_[f])
    /\ del_socket_mutex_' = IF sockets_[f] = NULL THEN NULL ELSE thread
    /\ handle' = [c \in Conns |-> IF sockets_[f] = c THEN NULL ELSE handle[c]]
    /\ interest' = interest \ ({handle[c] : c \in {c \in Conns : sockets_[f] = c}}
                               \cup {s \in {LISTEN} : sockets_[f] = s})
    /\ edges' = edges \cap interest'
    /\ IF sockets_[f] \in Conns THEN load(thread, sockets_[f]) ELSE UNCHANGED loaded

\* What follows close: the release of a client's Socket.  (The listening one has another
\* reference, the server's.)
delSocketReleases(f) == sockets_[f] \in Conns

\* sockets_[fd] = NULL, and the lock is free again.
delSocketEnds(f) ==
    /\ sockets_' = [sockets_ EXCEPT ![f] = NULL]
    /\ del_socket_mutex_' = NULL

---------------------------------------------------------------------------------
(* The IO thread.                                                            *)

\* Mutant of rest: the one of MinQueue, which shares the file.
restMinQueue(que) == QueueLength + 1 - Len(que)

\* EventQue::rest.
rest(que) == QueueLength - Len(que)

\* epoll_wait(rest): as many of the descriptors with an edge as there is room for in
\* event_que_, in any order; with no room the thread sleeps and tries again.
epollWait ==
    /\ io.pc = "wait"
    /\ rest(event_que_) > 0
    /\ LET pending == {f \in edges : Ready(f) # {}}
       IN  /\ pending # {}
           /\ \E chosen \in SUBSET pending :
                 /\ Cardinality(chosen) = Min({rest(event_que_), Cardinality(pending)})
                 /\ edges' = edges \ chosen
                 /\ \E order \in SetToSeqs(chosen) :
                       io' = [io EXCEPT !.pc = "next",
                                        !.batch = [i \in DOMAIN order |->
                                          [fd |-> order[i], events |-> Ready(order[i])]]]
    /\ UNCHANGED <<clients, handle, interest, sockets_, objects, event_que_,
                   del_socket_mutex_, sessions, main>>

\* The next event of the batch: getSocket, with no lock and no reference of its own.
nextEvent ==
    /\ io.pc = "next"
    /\ IF io.batch = <<>>
         THEN io' = [io EXCEPT !.pc = "wait"]
         ELSE LET ev   == Head(io.batch)
                  sock == sockets_[ev.fd]
              IN  io' = [pc    |-> CASE sock = NULL   -> "delSocket"
                                     [] sock = LISTEN -> "accept"
                                     [] OTHER         -> "handleSocket",
                         batch |-> Tail(io.batch), sock |-> sock,
                         ev    |-> IF sock = NULL
                                     THEN [ev EXCEPT !.events = @ \cup {"ERR"}] ELSE ev]
    /\ UNCHANGED <<clients, kernel, sockets_, objects, event_que_, del_socket_mutex_,
                   sessions, main>>

\* handleSocket returned -1.
Failed == [io EXCEPT !.pc = "delSocket", !.ev.events = @ \cup {"ERR"}]

\* Mutant of accept: all that wait are accepted, until one accept fails.
acceptAll ==
    /\ io.pc = "accept"
    /\ LET free == Fds \ {handle[c] : c \in Conns}
       IN  IF backlog = <<>> \/ free = {}
             THEN io' = Failed /\ UNCHANGED <<backlog, handle>>
             ELSE /\ backlog' = Tail(backlog)
                  /\ handle' = [handle EXCEPT ![Head(backlog)] =
                                  CHOOSE f \in free : \A g \in free : f <= g]
                  /\ io' = [io EXCEPT !.pc = "addSocket", !.sock = Head(backlog),
                                      !.batch = <<io.ev>> \o @]
    /\ UNCHANGED <<peer, asked, early, wire, interest, edges, sockets_, objects, event_que_,
                   del_socket_mutex_, sessions, main>>

\* handleSocket on the listening socket: one accept; the kernel gives the lowest
\* descriptor that is free.
accept ==
    /\ io.pc = "accept"
    /\ LET free == Fds \ {handle[c] : c \in Conns}
       IN  IF backlog = <<>> \/ free = {}
             THEN io' = Failed /\ UNCHANGED <<backlog, handle>>
             ELSE /\ backlog' = Tail(backlog)
                  /\ handle' = [handle EXCEPT ![Head(backlog)] =
                                  CHOOSE f \in free : \A g \in free : f <= g]
                  /\ io' = [io EXCEPT !.pc = "addSocket", !.sock = Head(backlog)]
    /\ UNCHANGED <<peer, asked, early, wire, interest, edges, sockets_, objects, event_que_,
                   del_socket_mutex_, sessions, main>>

\* Mutant of addSocket: a Socket left at that index is overwritten.
addSocketOver ==
    /\ io.pc = "addSocket"
    /\ io' = [io EXCEPT !.pc = "create"]
    /\ UNCHANGED <<clients, kernel, sockets_, objects, event_que_, del_socket_mutex_,
                   sessions, main>>

\* addSocket: a Socket left at that index is deleted first.  The main thread may be
\* deleting it, and then this waits for the lock and finds nothing.
addSocket ==
    /\ io.pc = "addSocket"
    /\ io' = [io EXCEPT !.pc = IF sockets_[handle[io.sock]] = NULL
                                 THEN "create" ELSE "delOld"]
    /\ UNCHANGED <<clients, kernel, sockets_, objects, event_que_, del_socket_mutex_,
                   sessions, main>>

\* The two calls of delSocket: for addSocket, and after handleSocket failed.
Old == io.pc \in {"delOld", "delOldRelease", "delOldEnds"}
ioFd == IF Old THEN handle[io.sock] ELSE io.ev.fd

ioDelSocket ==
    /\ io.pc \in {"delOld", "delSocket"}
    /\ delSocket("io", ioFd)
    /\ io' = [io EXCEPT !.pc =
                 CASE sockets_[ioFd] = NULL     -> IF Old THEN "create" ELSE "push"
                   [] delSocketReleases(ioFd)   -> IF Old THEN "delOldRelease" ELSE "release"
                   [] OTHER                     -> IF Old THEN "delOldEnds" ELSE "delSocketEnds"]
    /\ UNCHANGED <<clients, sockets_, refs, pool, vec, torn, ready_out, recv_que_, event_que_,
                   sessions, main>>

ioRelease ==
    /\ io.pc \in {"delOldRelease", "release"}
    /\ ~ Deleted(sockets_[ioFd])
    /\ release("io", sockets_[ioFd])
    /\ io' = [io EXCEPT !.pc = IF Old THEN "delOldEnds" ELSE "delSocketEnds"]
    /\ UNCHANGED <<clients, sockets_, pool, vec, ready_out, recv_que_, event_que_,
                   del_socket_mutex_, sessions, main>>

ioDelSocketEnds ==
    /\ io.pc \in {"delOldEnds", "delSocketEnds"}
    /\ delSocketEnds(ioFd)
    /\ io' = [io EXCEPT !.pc = IF Old THEN "create" ELSE "push"]
    /\ UNCHANGED <<clients, kernel, objects, event_que_, sessions, main>>

\* Socket::create: push_back reads where the pool's vector ends ...
create ==
    /\ io.pc = "create"
    /\ io' = [io EXCEPT !.pc = "addRef"]
    /\ UNCHANGED <<clients, kernel, sockets_, objects, event_que_, del_socket_mutex_,
                   sessions, main>>

\* ... and appends the new Socket, whose one reference the pool has to release.  When
\* RefPool::clear has swapped the vector in between, it may be in there, be lost, or the
\* write meet no memory.  Then the count is read for retain.
addRef ==
    /\ io.pc = "addRef"
    /\ \/ pool' = pool \cup {io.sock} /\ io' = [io EXCEPT !.pc = "init"]
       \/ io.sock \in torn /\ pool' = pool /\ io' = [io EXCEPT !.pc = "init"]
       \/ io.sock \in torn /\ pool' = pool /\ io' = [io EXCEPT !.pc = "crashed"]
    /\ refs' = [refs EXCEPT ![io.sock] = 1]
    /\ loaded' = [loaded EXCEPT !["io"] = 1]
    /\ UNCHANGED <<clients, kernel, sockets_, vec, torn, ready_out, recv_que_, event_que_,
                   del_socket_mutex_, sessions, main>>

\* The rest of addSocket, and addCtrl: what is ready already is an edge.
init ==
    /\ io.pc = "init"
    /\ ~ Deleted(io.sock)
    /\ retain("io", io.sock)
    /\ sockets_' = [sockets_ EXCEPT ![handle[io.sock]] = io.sock]
    /\ interest' = interest \cup {handle[io.sock]}
    /\ edges' = edges \cup {handle[io.sock]}
    /\ io' = [io EXCEPT !.pc = "push"]
    /\ UNCHANGED <<clients, handle, pool, vec, ready_out, recv_que_, event_que_,
                   del_socket_mutex_, sessions, main>>

\* handleSocket on a client's socket: flushRecv takes what has arrived, and fails on a
\* descriptor the main thread has closed, or a broken connection with nothing to read.
handleSocket ==
    LET sock  == io.sock
        reads == "IN" \in io.ev.events
        fails == \/ "ERR" \in io.ev.events
                 \/ reads /\ handle[sock] = NULL
                 \/ reads /\ peer[sock] = "reset" /\ wire[sock] = <<>>
    IN  /\ io.pc = "handleSocket"
        /\ ~ Deleted(sock)
        /\ IF reads /\ handle[sock] # NULL
             THEN /\ recv_que_' = [recv_que_ EXCEPT ![sock] = @ \o wire[sock]]
                  /\ wire' = [wire EXCEPT ![sock] = <<>>]
             ELSE UNCHANGED <<recv_que_, wire>>
        /\ IF fails
             THEN ready_out' = [ready_out EXCEPT ![sock] = FALSE] /\ io' = Failed
             ELSE io' = [io EXCEPT !.pc = "push"] /\ UNCHANGED ready_out
        /\ UNCHANGED <<backlog, peer, asked, early, kernel, sockets_, counts, event_que_,
                       del_socket_mutex_, sessions, main>>

\* delCtrl if there was an error, and the event is posted; a full queue would lose the
\* rest of the batch.
push ==
    /\ io.pc = "push"
    /\ IF "ERR" \in io.ev.events
         THEN interest' = interest \ {io.ev.fd} /\ edges' = edges \ {io.ev.fd}
         ELSE UNCHANGED <<interest, edges>>
    /\ IF Len(event_que_) < QueueLength
         THEN /\ event_que_' = Append(event_que_, io.ev)
              /\ io' = [io EXCEPT !.pc = "next", !.ev = NoEvent, !.sock = NULL]
         ELSE /\ io' = [io EXCEPT !.pc = "next", !.ev = NoEvent, !.sock = NULL, !.batch = <<>>]
              /\ UNCHANGED event_que_
    /\ UNCHANGED <<clients, handle, sockets_, objects, del_socket_mutex_,
                   sessions, main>>

---------------------------------------------------------------------------------
(* The main thread.                                                          *)

\* update: the events there are when the frame begins.
update ==
    /\ main.pc = "update"
    /\ main' = [main EXCEPT !.pc = "pop", !.cnt = Len(event_que_)]
    /\ UNCHANGED <<clients, kernel, sockets_, objects, event_que_, del_socket_mutex_,
                   sessions, io>>

\* On to the next event.
nextPoll == [main EXCEPT !.pc = "pop", !.ev = NoEvent, !.sock = NULL]

\* handlePollEvent: the next of them; getSocket, again with no lock and no reference.
pop ==
    /\ main.pc = "pop" /\ main.cnt > 0
    /\ event_que_' = Tail(event_que_)
    /\ LET ev   == Head(event_que_)
           sock == sockets_[ev.fd]
       IN  main' = IF sock \in {NULL, LISTEN} THEN [main EXCEPT !.cnt = @ - 1]
                   ELSE [pc |-> "recv", cnt |-> main.cnt - 1, ev |-> ev, sock |-> sock, rest |-> 0]
    /\ UNCHANGED <<clients, kernel, sockets_, objects, del_socket_mutex_,
                   sessions, io>>

\* Mutant of recv: the packets of a socket with a session wait for another event.
recvSessionLate ==
    LET sock == main.sock
    IN  /\ main.pc = "recv"
        /\ ~ Deleted(sock)
        /\ main' = IF "IN" \in main.ev.events /\ sock \notin session
                     THEN [main EXCEPT !.pc = "packets", !.rest = Len(recv_que_[sock])]
                     ELSE [main EXCEPT !.pc = "send"]
        /\ UNCHANGED <<clients, kernel, sockets_, objects, event_que_, del_socket_mutex_,
                       sessions, io>>

\* pullPacketsToSession, and handleSessionRecv takes them.
pull(sock) ==
    /\ received' = [received EXCEPT ![sock] = @ \o recv_que_[sock]]
    /\ recv_que_' = [recv_que_ EXCEPT ![sock] = <<>>]

\* KIT_POLLIN: the packets go to the session, or handleSocketRecv counts them.
recv ==
    LET sock == main.sock
    IN  /\ main.pc = "recv"
        /\ ~ Deleted(sock)
        /\ \/ /\ "IN" \in main.ev.events /\ sock \in session
              /\ pull(sock)
              /\ main' = [main EXCEPT !.pc = "send"]
           \/ /\ "IN" \in main.ev.events /\ sock \notin session
              /\ main' = [main EXCEPT !.pc = "packets", !.rest = Len(recv_que_[sock])]
              /\ UNCHANGED <<received, recv_que_>>
           \/ /\ "IN" \notin main.ev.events
              /\ main' = [main EXCEPT !.pc = "send"]
              /\ UNCHANGED <<received, recv_que_>>
        /\ UNCHANGED <<clients, kernel, sockets_, counts, ready_out, event_que_,
                       del_socket_mutex_, session, answer, released, io>>

\* handleSocketRecv's loop: up to that many packets are popped and released; C_CONNECT calls
\* pk_C_CONNECT first.  With a session made by then, what is left has come after its pull.
handleSocketRecv ==
    LET sock == main.sock
        que  == recv_que_[sock]
    IN  /\ main.pc = "packets"
        /\ ~ Deleted(sock)
        /\ \/ /\ main.rest = 0 \/ que = <<>>
              /\ main' = [main EXCEPT !.pc = "send", !.rest = 0]
              /\ UNCHANGED <<recv_que_, loaded, released>>
           \/ /\ main.rest > 0 /\ que # <<>> /\ Head(que) = C_CONNECT
              /\ main' = [main EXCEPT !.pc = "pk_C_CONNECT", !.rest = @ - 1]
              /\ recv_que_' = [recv_que_ EXCEPT ![sock] = Tail(@)]
              /\ load("main", sock)
              /\ UNCHANGED released
           \/ /\ main.rest > 0 /\ que # <<>> /\ Head(que) # C_CONNECT
              /\ main' = [main EXCEPT !.rest = @ - 1]
              /\ recv_que_' = [recv_que_ EXCEPT ![sock] = Tail(@)]
              /\ released' = [released EXCEPT ![sock] = @ \cup {Head(que)}]
              /\ UNCHANGED loaded
        /\ UNCHANGED <<clients, kernel, sockets_, refs, pool, vec, torn, ready_out, event_que_,
                       del_socket_mutex_, session, answer, received, io>>

\* pk_C_CONNECT: a Session, which keeps the Socket and takes the packets that are there, ...
pk_C_CONNECT ==
    LET sock == main.sock
    IN  /\ main.pc = "pk_C_CONNECT"
        /\ ~ Deleted(sock)
        /\ retain("main", sock)
        /\ session' = session \cup {sock}
        /\ pull(sock)
        /\ main' = [main EXCEPT !.pc = "S_CONNECT"]
        /\ UNCHANGED <<clients, kernel, sockets_, pool, vec, ready_out, event_que_,
                       del_socket_mutex_, answer, released, io>>

\* ... and S_CONNECT, which goes out at once if the socket is ready.
sendS_CONNECT ==
    LET sock == main.sock
    IN  /\ main.pc = "S_CONNECT"
        /\ ~ Deleted(sock)
        /\ answer' = [answer EXCEPT ![sock] =
                        CASE handle[sock] = NULL -> "lost"
                          [] handle[sock] # NULL /\ ~ ready_out[sock] -> "queued"
                          [] handle[sock] # NULL /\ ready_out[sock] ->
                               IF peer[sock] = "up" THEN "sent" ELSE "lost"]
        /\ main' = [main EXCEPT !.pc = "packets"]
        /\ UNCHANGED <<clients, kernel, sockets_, objects, event_que_, del_socket_mutex_,
                       session, received, released, io>>

\* Mutant of send: the first KIT_POLLOUT does not flush.
sendReadyOnly ==
    LET sock == main.sock
    IN  /\ main.pc = "send"
        /\ ~ Deleted(sock)
        /\ ready_out' = [ready_out EXCEPT ![sock] = @ \/ "OUT" \in main.ev.events]
        /\ main' = IF "ERR" \in main.ev.events THEN [main EXCEPT !.pc = "delSocket"] ELSE nextPoll
        /\ UNCHANGED <<clients, kernel, sockets_, counts, recv_que_, event_que_,
                       del_socket_mutex_, sessions, io>>

\* KIT_POLLOUT: the first one makes the socket ready and flushes; then KIT_POLLERR, or
\* a flush that failed, deletes whatever is at the descriptor.
send ==
    LET sock    == main.sock
        flushes == "OUT" \in main.ev.events /\ ~ ready_out[sock] /\ answer[sock] = "queued"
        fails   == flushes /\ (peer[sock] = "reset" \/ handle[sock] = NULL)
    IN  /\ main.pc = "send"
        /\ ~ Deleted(sock)
        /\ ready_out' = [ready_out EXCEPT ![sock] = @ \/ "OUT" \in main.ev.events]
        /\ answer' = [answer EXCEPT ![sock] =
                        IF fails THEN "lost" ELSE IF flushes THEN "sent" ELSE @]
        /\ main' = IF fails \/ "ERR" \in main.ev.events
                     THEN [main EXCEPT !.pc = "delSocket"] ELSE nextPoll
        /\ UNCHANGED <<clients, kernel, sockets_, counts, recv_que_, event_que_,
                       del_socket_mutex_, session, received, released, io>>

mainDelSocket ==
    LET f == main.ev.fd
    IN  /\ main.pc = "delSocket"
        /\ delSocket("main", f)
        /\ main' = IF sockets_[f] = NULL THEN nextPoll
                   ELSE [main EXCEPT !.pc = IF delSocketReleases(f) THEN "release"
                                            ELSE "delSocketEnds"]
        /\ UNCHANGED <<clients, sockets_, refs, pool, vec, torn, ready_out, recv_que_,
                       event_que_, sessions, io>>

mainRelease ==
    LET sock == sockets_[main.ev.fd]
    IN  /\ main.pc = "release"
        /\ ~ Deleted(sock)
        /\ release("main", sock)
        /\ main' = [main EXCEPT !.pc = "delSocketEnds"]
        /\ UNCHANGED <<clients, sockets_, pool, vec, ready_out, recv_que_, event_que_,
                       del_socket_mutex_, sessions, io>>

mainDelSocketEnds ==
    /\ main.pc = "delSocketEnds"
    /\ delSocketEnds(main.ev.fd)
    /\ main' = nextPoll
    /\ UNCHANGED <<clients, kernel, objects, event_que_, sessions, io>>

\* Mutant of spareTime: what is taken out to be released stays in the pool as well.
spareTimeKeepsPool ==
    /\ main.pc = "pop" /\ main.cnt = 0
    /\ \/ vec' = vec /\ main' = [main EXCEPT !.pc = "update"] /\ UNCHANGED torn
       \/ /\ vec' = pool
          /\ torn' = torn \cup {c \in {io.sock} : io.pc = "addRef"}
          /\ main' = [main EXCEPT !.pc = "clear"]
    /\ UNCHANGED <<clients, kernel, sockets_, refs, pool, loaded, ready_out, recv_que_,
                   event_que_, del_socket_mutex_, sessions, io>>

\* The end of the frame: with time to spare mainLoop clears the pool.  RefPool::clear swaps the
\* vector for an empty one, and the IO thread may be appending to it.
spareTime ==
    /\ main.pc = "pop" /\ main.cnt = 0
    /\ \/ main' = [main EXCEPT !.pc = "update"] /\ UNCHANGED <<pool, vec, torn>>
       \/ /\ vec' = pool /\ pool' = {}
          /\ torn' = torn \cup {c \in {io.sock} : io.pc = "addRef"}
          /\ main' = [main EXCEPT !.pc = "clear"]
    /\ UNCHANGED <<clients, kernel, sockets_, refs, loaded, ready_out, recv_que_, event_que_,
                   del_socket_mutex_, sessions, io>>

\* It releases those it took, one after the other: the count is read, ...
clear ==
    /\ main.pc = "clear"
    /\ IF vec = {} THEN main' = [main EXCEPT !.pc = "update"] /\ UNCHANGED loaded
       ELSE \E c \in vec :
              /\ ~ Deleted(c)
              /\ load("main", c)
              /\ main' = [main EXCEPT !.pc = "clearing", !.sock = c]
    /\ UNCHANGED <<clients, kernel, sockets_, refs, pool, vec, torn, ready_out, recv_que_,
                   event_que_, del_socket_mutex_, sessions, io>>

\* ... and written back.
clearing ==
    /\ main.pc = "clearing"
    /\ ~ Deleted(main.sock)
    /\ release("main", main.sock)
    /\ vec' = vec \ {main.sock}
    /\ main' = [main EXCEPT !.pc = "clear", !.sock = NULL]
    /\ UNCHANGED <<clients, sockets_, pool, ready_out, recv_que_, event_que_,
                   del_socket_mutex_, sessions, io>>

---------------------------------------------------------------------------------
\* A step that would use a deleted Socket through its raw pointer: anything may follow,
\* and here that thread does nothing more.
ioCrash ==
    /\ \/ io.pc \in {"init", "handleSocket"} /\ Deleted(io.sock)
       \/ io.pc \in {"delOldRelease", "release"} /\ Deleted(sockets_[ioFd])
       \/ /\ io.pc \in {"delOld", "delSocket"} /\ del_socket_mutex_ = NULL
          /\ Deleted(sockets_[ioFd])
    /\ io' = [io EXCEPT !.pc = "crashed"]
    /\ UNCHANGED <<clients, kernel, sockets_, objects, event_que_, del_socket_mutex_,
                   sessions, main>>

mainCrash ==
    /\ \/ /\ main.pc \in {"recv", "packets", "pk_C_CONNECT", "S_CONNECT", "send", "clearing"}
          /\ Deleted(main.sock)
       \/ main.pc = "release" /\ Deleted(sockets_[main.ev.fd])
       \/ /\ main.pc = "delSocket" /\ del_socket_mutex_ = NULL
          /\ Deleted(sockets_[main.ev.fd])
       \/ main.pc = "clear" /\ \E c \in vec : Deleted(c)
    /\ main' = [main EXCEPT !.pc = "crashed"]
    /\ UNCHANGED <<clients, kernel, sockets_, objects, event_que_, del_socket_mutex_,
                   sessions, io>>

crashed == "crashed" \in {io.pc, main.pc}

IoNext == \/ epollWait \/ nextEvent \/ accept \/ addSocket \/ ioDelSocket \/ ioRelease
          \/ ioDelSocketEnds \/ create \/ addRef \/ init \/ handleSocket \/ push \/ ioCrash
MainNext == \/ update \/ pop \/ recv \/ handleSocketRecv \/ pk_C_CONNECT \/ sendS_CONNECT
            \/ send \/ mainDelSocket \/ mainRelease \/ mainDelSocketEnds
            \/ spareTime \/ clear \/ clearing \/ mainCrash
ClientNext == \E c \in Conns : connect(c) \/ clientSend(c) \/ reset(c)
Next == IoNext \/ MainNext \/ ClientNext

Spec == Init /\ [][Next]_vars

\* The system schedules both threads.
FairSpec == Spec /\ WF_vars(IoNext) /\ WF_vars(MainNext)

---------------------------------------------------------------------------------
Sockets == Conns \cup {LISTEN, NULL}

\* The state types: in particular every index into sockets_ is a descriptor, and no
\* reference count is negative.
TypeOK ==
    /\ backlog \in Seq(Conns) /\ peer \in [Conns -> {"none", "up", "reset"}]
    /\ asked \in [Conns -> 0 .. MaxData + 1] /\ early \in [Conns -> Nat]
    /\ handle \in [Conns -> Fds \cup {NULL}]
    /\ edges \subseteq interest /\ interest \subseteq Descriptors
    /\ sockets_ \in [Descriptors -> Sockets]
    /\ refs \in [Conns -> Nat] /\ loaded \in [{"main", "io"} -> Nat]
    /\ pool \subseteq Conns /\ vec \subseteq Conns /\ torn \subseteq Conns /\ session \subseteq Conns
    /\ ready_out \in [Conns -> BOOLEAN] /\ event_que_ \in Seq(PollEvent)
    /\ del_socket_mutex_ \in {"main", "io", NULL}
    /\ answer \in [Conns -> {"none", "queued", "sent", "lost"}]
    /\ main \in [pc : {"update", "pop", "recv", "packets", "pk_C_CONNECT", "S_CONNECT", "send",
                       "delSocket", "release", "delSocketEnds", "clear", "clearing",
                       "crashed"},
                 cnt : 0 .. QueueLength, ev : PollEvent, sock : Sockets, rest : Nat]
    /\ io \in [pc : {"wait", "next", "accept", "addSocket", "delOld", "delOldRelease",
                     "delOldEnds", "create", "addRef", "init", "handleSocket", "delSocket",
                     "release", "delSocketEnds", "push", "crashed"},
              batch : Seq(PollEvent), ev : PollEvent, sock : Sockets]

\* event_que_ never refuses an event of the IO thread ("in theory this cannot happen",
\* Server_linux.cpp:201): the batch was limited to the room there was, and the main
\* thread only makes more.
PushFits == io.pc = "push" => Len(event_que_) < QueueLength

\* An open descriptor is in the table and watched, so that no connection is forgotten:
\* addSocket, addCtrl, the two callers of delSocket and the kernel's reuse of
\* descriptors together keep it so, whatever the two threads interleave.
Tracked ==
    \A c \in Conns : handle[c] # NULL =>
        \/ sockets_[handle[c]] = c /\ handle[c] \in interest
        \/ io.sock = c /\ io.pc \in {"addSocket", "delOld", "delOldRelease", "delOldEnds",
                                      "create", "addRef", "init", "crashed"}

\* The table's reference to f's Socket is gone already, and its entry not yet.
Leaving(f) == \/ main.pc = "delSocketEnds" /\ main.ev.fd = f
              \/ io.pc = "delSocketEnds" /\ io.ev.fd = f
              \/ io.pc = "delOldEnds" /\ handle[io.sock] = f

\* Until one thread's update has overwritten the other's, a Socket's count is the number of
\* its owners, the pool (or the vector being cleared), the table and its session, at every step
\* between a load and a store and whoever releases first: retain and release are paired over
\* addSocket, both threads' delSocket, the sessions and the pool, and the race of the plain ++,
\* -- and push_back (Ref.cpp:19-31, RefPool.cpp:20-46) is the only way to a wrong count.
RefsCounted ==
    LET Holds(b) == IF b THEN 1 ELSE 0
    IN  \A c \in Conns \ torn :
           refs[c] = Holds(c \in pool) + Holds(c \in vec) + Holds(c \in session)
                     + Cardinality({f \in Fds : sockets_[f] = c /\ ~ Leaving(f)})

\* The listening socket stays open until there have been more connections than
\* descriptors: an accept that fails closes it, and a stale event for its descriptor could.
ServerListens ==
    Cardinality({c \in Conns : peer[c] # "none"}) <= Cardinality(Fds)
        => sockets_[LISTEN] = LISTEN

\* A request that reached an open connection is answered, unless the connection is lost:
\* S_CONNECT goes out with the request, or with the first KIT_POLLOUT after it.
Answered ==
    \A c \in Conns : handle[c] # NULL /\ asked[c] > 0
                        ~> answer[c] = "sent" \/ handle[c] = NULL \/ crashed

\* What a client sends after its request is handed to its session, in order and none of it
\* missing, unless the connection is lost: an edge-triggered epoll never reports the same data
\* twice.  But packets that arrive between pk_C_CONNECT's pull and the end of the loop of
\* handleSocketRecv are released: at most as many as the client sent before it had an answer,
\* and so none of a client that waits for S_CONNECT.
Delivered ==
    \A c \in Conns : \A n \in 1 .. MaxData :
        handle[c] # NULL /\ asked[c] > n
            ~> \/ /\ \A i, j \in DOMAIN received[c] : i < j => received[c][i] < received[c][j]
                  /\ 1 .. n \subseteq Range(received[c]) \cup released[c]
                  /\ Cardinality(released[c]) <= early[c]
               \/ handle[c] = NULL \/ crashed

\* A connection that breaks is closed, by one thread or the other.
Closed ==
    \A c \in Resets : handle[c] # NULL /\ peer[c] = "reset" ~> handle[c] = NULL \/ crashed



\* Server.h:7 says the thread accepts: every connection would be, while it listens and
\* there are descriptors.
EveryConnectionAccepted ==
    \A c \in Conns : peer[c] = "up" ~> handle[c] # NULL \/ peer[c] = "reset" \/ crashed
================================================================================
