------------------------------- MODULE ServerProofs ------------------------------
(***************************************************************************)
(* The server's safety for any number of connections, descriptors and      *)
(* events: however the two threads interleave, whatever the pool does and  *)
(* whichever update of a count is lost, no open connection is forgotten,   *)
(* no event is refused, and the listening socket is closed only by an      *)
(* accept that found no descriptor; and a Socket's count is right until an *)
(* update of one thread overwrites the other's.                            *)
(*                                                                         *)
(* None of the five invariants is inductive alone.  What they need is who  *)
(* owns an index of sockets_ at each step of either thread: ServerInv.     *)
(***************************************************************************)
EXTENDS Server, TLAPS, FiniteSetTheorems, SequenceTheorems, WellFoundedInduction

\* The table's reference to a Socket, until delSocket has released it.
Held(c) == \E f \in Fds : sockets_[f] = c /\ ~ Leaving(f)

\* The connection waits for accept, or has not been made.
Outside(c) == peer[c] = "none" \/ \E i \in DOMAIN backlog : backlog[i] = c

Adding == io.pc \in {"addSocket", "delOld", "create", "addRef", "init"}

\* The Socket does not exist yet.
Unmade(c) == Outside(c) \/ (io.sock = c /\ io.pc \in {"addSocket", "delOld", "create", "addRef"})

Made == {c \in Conns : peer[c] # "none"}
Crowded == Cardinality(Made) > Cardinality(Fds)

\* A delSocket that found a Socket has the lock until it has cleared the entry, and addSocket
\* never gets so far: what it may meet at its index is on its way out, or deleted.
Locked ==
    /\ main.pc \in {"release", "delSocketEnds"} => del_socket_mutex_ = "main"
    /\ io.pc \in {"release", "delSocketEnds"} => del_socket_mutex_ = "io"
    /\ io.pc \notin {"delOldRelease", "delOldEnds"}

\* delSocket has closed f's Socket.
Closing(f) == \/ main.pc \in {"release", "delSocketEnds"} /\ main.ev.fd = f
              \/ io.pc \in {"release", "delSocketEnds"} /\ io.ev.fd = f

\* An entry is that of the connection with this descriptor, until delSocket has closed it, or
\* a count the two threads have spoilt has deleted its Socket; and a Socket has one entry.
Entries ==
    /\ \A f \in Fds : \A c \in Conns : sockets_[f] = c =>
          /\ handle[c] = f \/ (handle[c] = NULL /\ (Closing(f) \/ refs[c] = 0))
          /\ Closing(f) => handle[c] = NULL
    /\ \A f, g \in Fds : sockets_[f] = sockets_[g] /\ sockets_[f] \in Conns => f = g
    /\ \A f \in Fds : sockets_[f] # LISTEN
    /\ sockets_[LISTEN] \in {LISTEN, NULL}
    /\ main.pc \in {"release", "delSocketEnds"} => sockets_[main.ev.fd] # NULL
    /\ io.pc \in {"release", "delSocketEnds"} => sockets_[io.ev.fd] # NULL
    /\ \A c, d \in Conns : handle[c] # NULL /\ handle[c] = handle[d] => c = d

\* A connection enters the table once: before that, nothing knows its Socket.
Fresh ==
    /\ \A c \in Conns : Unmade(c) =>
          /\ refs[c] = 0 /\ c \notin pool /\ c \notin vec /\ c \notin session /\ main.sock # c
          /\ \A f \in Fds : sockets_[f] # c
    /\ \A c \in Conns : Outside(c) => handle[c] = NULL /\ io.sock # c
    /\ \A i, j \in DOMAIN backlog : backlog[i] = backlog[j] => i = j
    /\ \A i \in DOMAIN backlog : peer[backlog[i]] # "none"

\* The IO thread in addSocket, at an index nobody else will use; before the last step of it
\* the pool may delete its Socket.
AddingOK ==
    Adding =>
        /\ io.sock \in Conns
        /\ \/ handle[io.sock] \in Fds
           \/ io.pc = "init" /\ handle[io.sock] = NULL /\ refs[io.sock] = 0
        /\ io.ev.fd = LISTEN /\ "ERR" \notin io.ev.events
        /\ \A f \in Fds : sockets_[f] # io.sock
        /\ io.pc \in {"create", "addRef", "init"} /\ handle[io.sock] # NULL =>
              sockets_[handle[io.sock]] = NULL

\* The IO thread's batch has each descriptor once, and the listening socket in it means
\* that someone waits.
BatchOK ==
    /\ \A i \in DOMAIN io.batch : io.batch[i].fd = LISTEN =>
          "ERR" \notin io.batch[i].events /\ backlog # <<>> /\ io.pc # "accept"
    /\ \A i, j \in DOMAIN io.batch : io.batch[i].fd = io.batch[j].fd => i = j
    /\ io.pc = "accept" => /\ io.ev.fd = LISTEN /\ "ERR" \notin io.ev.events
                           /\ backlog # <<>>

\* The other steps of the IO thread, and those of the main thread.
Handling == main.pc \in {"recv", "packets", "pk_C_CONNECT", "S_CONNECT", "send", "delSocket",
                         "release", "delSocketEnds"}
IoOK ==
    /\ io.pc = "handleSocket" => io.sock \in Conns /\ io.ev.fd \in Fds
    /\ io.pc \in {"delSocket", "release", "delSocketEnds"} => "ERR" \in io.ev.events
    /\ io.pc = "push" /\ "ERR" \in io.ev.events => sockets_[io.ev.fd] = NULL
    /\ io.pc = "release" => io.ev.fd \in Fds /\ loaded["io"] # 0
MainOK ==
    /\ Handling => main.sock \in Conns /\ main.ev.fd \in Fds
    /\ main.pc \in {"release", "clearing"} => loaded["main"] # 0
    /\ main.pc = "clearing" => main.sock \in vec
    /\ main.pc \notin {"clear", "clearing", "crashed"} => vec = {}

\* A client asks once, so that its session is made once.
Asking(c) == main.pc = "pk_C_CONNECT" /\ main.sock = c
Requests ==
    /\ DOMAIN wire = Conns /\ DOMAIN recv_que_ = Conns
    /\ \A c \in Conns :
          /\ wire[c] \in Seq(Nat) /\ recv_que_[c] \in Seq(Nat)
          /\ \A i \in DOMAIN recv_que_[c] : recv_que_[c][i] = C_CONNECT =>
                i = 1 /\ c \notin session /\ ~ Asking(c)
          /\ \A i \in DOMAIN wire[c] : wire[c][i] = C_CONNECT =>
                i = 1 /\ recv_que_[c] = <<>> /\ c \notin session /\ ~ Asking(c)
          /\ asked[c] = 0 => /\ wire[c] = <<>> /\ recv_que_[c] = <<>>
                             /\ c \notin session /\ ~ Asking(c)
          /\ Asking(c) => c \notin session

One(b) == IF b THEN 1 ELSE 0

Counted ==
    \A c \in Conns \ torn :
        refs[c] = One(c \in pool) + One(c \in vec) + One(c \in session) + One(Held(c))

\* The room epoll_wait was given is there for what is left of its batch.
Room ==
    /\ Len(event_que_) + Len(io.batch) <= QueueLength
    /\ io.pc \notin {"wait", "next", "crashed"} =>
          Len(event_que_) + Len(io.batch) < QueueLength
    /\ main.cnt <= Len(event_que_)

Listening ==
    /\ IsFiniteSet(Made)
    /\ \/ sockets_[LISTEN] # LISTEN
       \/ io.pc \in {"delSocket", "delSocketEnds"} /\ io.ev.fd = LISTEN
       => Crowded

ServerInv == /\ TypeOK /\ Locked /\ Entries /\ Fresh /\ AddingOK /\ BatchOK /\ IoOK /\ MainOK
             /\ Requests /\ Counted /\ Room /\ Listening /\ Tracked

---------------------------------------------------------------------------------
(* Types.                                                                    *)

IoType ==
    [pc : {"wait", "next", "accept", "addSocket", "delOld", "delOldRelease", "delOldEnds",
           "create", "addRef", "init", "handleSocket", "delSocket", "release",
           "delSocketEnds", "push", "crashed"},
     batch : Seq(PollEvent), ev : PollEvent, sock : Sockets]
MainType ==
    [pc : {"update", "pop", "recv", "packets", "pk_C_CONNECT", "S_CONNECT", "send",
           "delSocket", "release", "delSocketEnds", "clear", "clearing", "crashed"},
     cnt : 0 .. QueueLength, ev : PollEvent, sock : Sockets, rest : Nat]
Loads == [{"main", "io"} -> Nat]

\* The first event of a queue or batch, and what is behind it.
LEMMA FirstAndRest ==
    ASSUME NEW S, NEW s \in Seq(S), s # <<>>
    PROVE  /\ Head(s) = s[1] /\ Head(s) \in S /\ 1 \in DOMAIN s
           /\ Tail(s) \in Seq(S) /\ Len(Tail(s)) = Len(s) - 1 /\ Len(s) >= 1
           /\ \A i \in DOMAIN Tail(s) : i + 1 \in DOMAIN s /\ Tail(s)[i] = s[i + 1] /\ i + 1 # 1
<1>1. Len(s) \in Nat /\ Len(s) # 0
    BY EmptySeq
<1> QED
    BY <1>1, HeadTailProperties

LEMMA NoEventIsEvent == NoEvent \in PollEvent
  BY DEF NoEvent, PollEvent, Descriptors, Events

\* What handleSocket's failure leaves.
LEMMA FailedIo ==
    ASSUME TypeOK
    PROVE  /\ Failed \in IoType /\ Failed.pc = "delSocket" /\ Failed.batch = io.batch
           /\ Failed.sock = io.sock /\ Failed.ev.fd = io.ev.fd
           /\ Failed.ev.events = io.ev.events \cup {"ERR"}
  BY DEF TypeOK, IoType, Failed, PollEvent, Events

---------------------------------------------------------------------------------
(* Counts and queues.                                                        *)

\* A load is of the thread's own, and a store takes effect on a count nobody has touched, or
\* leaves a Socket torn.
LEMMA LoadEffect ==
    ASSUME ServerInv, NEW thread \in {"main", "io"}, NEW c \in Conns, load(thread, c)
    PROVE  /\ loaded' \in Loads /\ loaded'[thread] = refs[c]
           /\ \A t \in {"main", "io"} \ {thread} : loaded'[t] = loaded[t]
  BY DEF ServerInv, TypeOK, load, Loads

LEMMA StoreEffect ==
    ASSUME ServerInv, NEW thread \in {"main", "io"}, NEW c \in Conns, NEW n \in Nat,
           store(thread, c, n)
    PROVE  /\ refs' \in [Conns -> Nat] /\ refs'[c] = n
           /\ \A x \in Conns \ {c} : refs'[x] = refs[x]
           /\ torn' \subseteq Conns /\ torn \subseteq torn'
           /\ c \notin torn' => refs[c] = loaded[thread]
           /\ loaded' \in Loads
           /\ \A t \in {"main", "io"} \ {thread} : loaded'[t] = loaded[t]
<1>1. refs \in [Conns -> Nat] /\ torn \subseteq Conns /\ loaded \in [{"main", "io"} -> Nat]
    BY DEF ServerInv, TypeOK
<1>2. /\ refs' = [refs EXCEPT ![c] = n] /\ loaded' = [loaded EXCEPT ![thread] = 0]
      /\ torn' = IF refs[c] = loaded[thread] THEN torn ELSE torn \cup {c}
    BY DEF store
<1>3. torn' \subseteq Conns /\ torn \subseteq torn' /\ (c \notin torn' => refs[c] = loaded[thread])
    BY <1>1, <1>2
<1>4. /\ loaded' \in Loads
      /\ \A t \in {"main", "io"} \ {thread} : loaded'[t] = loaded[t]
    BY <1>1, <1>2 DEF Loads
<1>5. /\ refs' \in [Conns -> Nat] /\ refs'[c] = n
      /\ \A x \in Conns \ {c} : refs'[x] = refs[x]
    BY <1>1, <1>2
<1> QED
    BY <1>3, <1>4, <1>5

\* The last release closes the Socket's descriptor, and no other.
LEMMA ReleaseEffect ==
    ASSUME ServerInv, NEW thread \in {"main", "io"}, NEW c \in Conns, loaded[thread] # 0,
           release(thread, c)
    PROVE  /\ refs' \in [Conns -> Nat]
           /\ \A x \in Conns \ {c} : refs'[x] = refs[x] /\ handle'[x] = handle[x]
           /\ torn' \subseteq Conns /\ torn \subseteq torn'
           /\ c \notin torn' => refs'[c] = refs[c] - 1
           /\ loaded' \in Loads
           /\ \A t \in {"main", "io"} \ {thread} : loaded'[t] = loaded[t]
           /\ handle' \in [Conns -> Fds \cup {NULL}]
           /\ handle'[c] = handle[c] \/ (handle'[c] = NULL /\ refs'[c] = 0)
           /\ interest' \subseteq Descriptors /\ edges' \subseteq interest'
           /\ \A x \in Conns : handle'[x] # NULL /\ handle[x] \in interest => handle[x] \in interest'
<1> DEFINE n == loaded[thread] - 1
<1>1. n \in Nat /\ loaded[thread] \in Nat /\ store(thread, c, n)
  <2>1. loaded[thread] \in Nat /\ loaded[thread] # 0
    BY DEF ServerInv, TypeOK
  <2>2. store(thread, c, loaded[thread] - 1)
    BY DEF release
  <2> QED
    BY <2>1, <2>2
<1>2. /\ refs' \in [Conns -> Nat] /\ refs'[c] = n
      /\ \A x \in Conns \ {c} : refs'[x] = refs[x]
      /\ torn' \subseteq Conns /\ torn \subseteq torn'
      /\ c \notin torn' => refs[c] = loaded[thread]
      /\ loaded' \in Loads
      /\ \A t \in {"main", "io"} \ {thread} : loaded'[t] = loaded[t]
  <2> HIDE DEF n
  <2> QED
    BY <1>1, StoreEffect
<1>3. /\ handle \in [Conns -> Fds \cup {NULL}] /\ interest \subseteq Descriptors
      /\ edges \subseteq interest
      /\ \A x, y \in Conns : handle[x] # NULL /\ handle[x] = handle[y] => x = y
    BY DEF ServerInv, TypeOK, Entries
<1>4. CASE loaded[thread] # 1
  <2>1. UNCHANGED <<handle, interest, edges>>
    BY <1>4 DEF release, kernel
  <2> QED
    BY <1>2, <1>3, <2>1
<1>5. CASE loaded[thread] = 1
  <2>1. /\ handle' = [handle EXCEPT ![c] = NULL] /\ interest' = interest \ {handle[c]}
        /\ edges' = edges \ {handle[c]}
    BY <1>5 DEF release
  <2>2. n = 0
    BY <1>5
  <2>3. /\ handle' \in [Conns -> Fds \cup {NULL}] /\ handle'[c] = NULL
        /\ \A x \in Conns \ {c} : handle'[x] = handle[x]
    BY <1>3, <2>1
  <2>4. interest' \subseteq Descriptors /\ edges' \subseteq interest'
    BY <1>3, <2>1
  <2>5. \A x \in Conns : handle'[x] # NULL /\ handle[x] \in interest => handle[x] \in interest'
    BY <1>3, <2>1, <2>3
  <2> HIDE DEF n
  <2> QED
    BY <1>1, <1>2, <2>2, <2>3, <2>4, <2>5 DEF n
<1> QED
    BY <1>4, <1>5

\* One owner less: what a release leaves of the counts.
LEMMA OneLess ==
    ASSUME ServerInv, NEW c \in Conns,
           refs' \in [Conns -> Nat], torn \subseteq torn',
           \A x \in Conns \ {c} : refs'[x] = refs[x],
           c \notin torn' => refs'[c] = refs[c] - 1,
           UNCHANGED <<pool, session>>,
           \A x \in Conns \ {c} : (x \in vec' <=> x \in vec) /\ (Held(x)' <=> Held(x)),
           \/ c \in vec /\ c \notin vec' /\ (Held(c)' <=> Held(c))
           \/ (c \in vec' <=> c \in vec) /\ Held(c) /\ ~ Held(c)'
    PROVE  Counted'
<1> SUFFICES ASSUME NEW x \in Conns, x \notin torn'
             PROVE  refs'[x] = One(x \in pool') + One(x \in vec') + One(x \in session')
                               + One(Held(x)')
    BY DEF Counted
<1>1. /\ refs[x] = One(x \in pool) + One(x \in vec) + One(x \in session) + One(Held(x))
      /\ refs[x] \in Nat
    BY DEF ServerInv, Counted, TypeOK
<1>2. CASE x # c
    BY <1>1, <1>2 DEF One
<1>3. CASE x = c
  <2>1. refs'[x] = refs[x] - 1
    BY <1>3
  <2>2. One(x \in pool') = One(x \in pool) /\ One(x \in session') = One(x \in session)
    OBVIOUS
  <2>3. One(x \in vec') + One(Held(x)') = (One(x \in vec) + One(Held(x))) - 1
    BY <1>3 DEF One
  <2>4. \A b : One(b) \in Int
    BY DEF One
  <2>5. ASSUME NEW p \in Int, NEW v \in Int, NEW s \in Int, NEW h \in Int, NEW w \in Int,
               NEW k \in Int, NEW r \in Int, r = p + v + s + h, w + k = (v + h) - 1
        PROVE  r - 1 = p + w + s + k
    BY <2>5
  <2> QED
    BY <1>1, <2>1, <2>2, <2>3, <2>4, <2>5
<1> QED
    BY <1>2, <1>3

\* Or one more.
LEMMA OneMore ==
    ASSUME ServerInv, NEW c \in Conns,
           refs' \in [Conns -> Nat], torn \subseteq torn',
           \A x \in Conns \ {c} : refs'[x] = refs[x],
           c \notin torn' => refs'[c] = refs[c] + 1,
           UNCHANGED vec,
           \A x \in Conns \ {c} : /\ x \in pool' <=> x \in pool
                                  /\ x \in session' <=> x \in session
                                  /\ Held(x)' <=> Held(x),
           c \in pool => c \in pool', c \in session => c \in session', Held(c) => Held(c)',
           c \notin torn' =>
              One(c \in pool') + One(c \in session') + One(Held(c)')
                = One(c \in pool) + One(c \in session) + One(Held(c)) + 1
    PROVE  Counted'
<1> SUFFICES ASSUME NEW x \in Conns, x \notin torn'
             PROVE  refs'[x] = One(x \in pool') + One(x \in vec') + One(x \in session')
                               + One(Held(x)')
    BY DEF Counted
<1>1. /\ refs[x] = One(x \in pool) + One(x \in vec) + One(x \in session) + One(Held(x))
      /\ refs[x] \in Nat
    BY DEF ServerInv, Counted, TypeOK
<1>2. CASE x # c
    BY <1>1, <1>2 DEF One
<1>3. CASE x = c
  <2>1. refs'[x] = refs[x] + 1 /\ One(x \in vec') = One(x \in vec)
    BY <1>3
  <2>2. One(x \in pool') + One(x \in session') + One(Held(x)')
           = One(x \in pool) + One(x \in session) + One(Held(x)) + 1
    BY <1>3
  <2>3. \A b : One(b) \in Int
    BY DEF One
  <2>4. ASSUME NEW p \in Int, NEW v \in Int, NEW s \in Int, NEW h \in Int, NEW q \in Int,
               NEW t \in Int, NEW k \in Int, NEW r \in Int, r = p + v + s + h,
               q + t + k = p + s + h + 1
        PROVE  r + 1 = q + v + t + k
    BY <2>4
  <2> QED
    BY <1>1, <2>1, <2>2, <2>3, <2>4
<1> QED
    BY <1>2, <1>3

---------------------------------------------------------------------------------
(* The IO thread's steps.                                                    *)

\* A step of the IO thread that only moves its program counter, or takes a batch; with what
\* it writes besides in fields of a Socket.
LEMMA IoMoves ==
    ASSUME ServerInv, io' \in IoType,
           UNCHANGED <<backlog, peer, asked, early, handle, interest, sockets_, refs, pool, vec,
                       loaded, torn, event_que_, del_socket_mutex_, session, answer, main>>,
           edges' \subseteq interest, ready_out' \in [Conns -> BOOLEAN],
           io.pc # "delSocketEnds",
           io.pc = "release" => refs[sockets_[io.ev.fd]] = 0,
           io'.pc \notin {"release", "delSocketEnds", "delOldRelease", "delOldEnds"},
           \A c \in Conns : Outside(c) => io'.sock # c,
           io'.pc \in {"addSocket", "delOld", "create", "addRef"} =>
              io'.sock = io.sock /\ io.pc \in {"addSocket", "delOld", "create", "addRef"},
           AddingOK', BatchOK', IoOK', Requests', Room', Listening', Tracked'
    PROVE  ServerInv'
<1> USE DEF ServerInv
<1>1. TypeOK'
    BY DEF TypeOK, IoType
<1>2. Locked' /\ MainOK'
    BY DEF Locked, MainOK, Handling
<1>3. \A f \in Fds : (Leaving(f)' <=> Leaving(f)) /\ (Closing(f)' => Closing(f))
    BY DEF Leaving, Closing, Locked
<1>4. \A c \in Conns : Held(c)' <=> Held(c)
    BY <1>3 DEF Held
<1>5. Counted'
    BY <1>4 DEF Counted, One
<1>6. Entries'
  <2>1. \A f \in Fds : \A c \in Conns : sockets_[f] = c =>
           /\ handle[c] = f \/ (handle[c] = NULL /\ (Closing(f)' \/ refs[c] = 0))
           /\ Closing(f)' => handle[c] = NULL
    <3> SUFFICES ASSUME NEW f \in Fds, NEW c \in Conns, sockets_[f] = c
                 PROVE  /\ handle[c] = f \/ (handle[c] = NULL /\ (Closing(f)' \/ refs[c] = 0))
                        /\ Closing(f)' => handle[c] = NULL
        OBVIOUS
    <3>1. Closing(f) /\ ~ Closing(f)' => refs[c] = 0
      BY DEF Closing
    <3> QED
      BY <1>3, <3>1 DEF Entries
  <2> QED
    BY <2>1 DEF Entries
<1>7. Fresh'
  <2>1. \A c \in Conns : (Unmade(c)' => Unmade(c)) /\ (Outside(c)' <=> Outside(c))
    BY DEF Unmade, Outside
  <2> QED
    BY <2>1 DEF Fresh
<1> QED
    BY <1>1, <1>2, <1>5, <1>6, <1>7

LEMMA NextEventEffect ==
    ASSUME ServerInv, nextEvent
    PROVE  /\ io' \in IoType
           /\ Len(io'.batch) <= Len(io.batch)
           /\ io.batch # <<>> => Len(io'.batch) < Len(io.batch)
           /\ \A i \in DOMAIN io'.batch : /\ i + 1 \in DOMAIN io.batch /\ i + 1 # 1
                                         /\ io'.batch[i] = io.batch[i + 1]
           /\ io.batch = <<>> => io'.pc = "wait" /\ io'.batch = <<>> /\ io'.sock = io.sock
           /\ io.batch # <<>> =>
                /\ 1 \in DOMAIN io.batch
                /\ io'.ev.fd = io.batch[1].fd /\ io'.sock = sockets_[io'.ev.fd]
                /\ io'.sock = NULL => io'.pc = "delSocket" /\ "ERR" \in io'.ev.events
                /\ io'.pc = "accept" => io'.sock = LISTEN
                /\ io'.sock = LISTEN => io'.pc = "accept" /\ io'.ev = io.batch[1]
                /\ io'.sock \notin {NULL, LISTEN} => io'.pc = "handleSocket"
<1>1. io.batch \in Seq(PollEvent) /\ io \in IoType
    BY DEF ServerInv, TypeOK, IoType
<1>2. CASE io.batch = <<>>
  <2>1. io' = [io EXCEPT !.pc = "wait"]
    BY <1>2 DEF nextEvent
  <2>2. /\ io' \in IoType /\ io'.pc = "wait" /\ io'.batch = io.batch /\ io'.sock = io.sock
    BY <1>1, <2>1 DEF IoType
  <2> QED
    BY <1>1, <1>2, <2>2
<1>3. CASE io.batch # <<>>
  <2> DEFINE ev == Head(io.batch)
             sock == sockets_[ev.fd]
             seen == IF sock = NULL THEN [ev EXCEPT !.events = @ \cup {"ERR"}] ELSE ev
             pc == CASE sock = NULL -> "delSocket" [] sock = LISTEN -> "accept"
                     [] OTHER -> "handleSocket"
  <2>1. io' = [pc |-> pc, batch |-> Tail(io.batch), sock |-> sock, ev |-> seen]
    BY <1>3 DEF nextEvent
  <2>2. /\ ev = io.batch[1] /\ ev \in PollEvent /\ 1 \in DOMAIN io.batch
        /\ Tail(io.batch) \in Seq(PollEvent) /\ Len(Tail(io.batch)) = Len(io.batch) - 1
        /\ \A i \in DOMAIN Tail(io.batch) :
              i + 1 \in DOMAIN io.batch /\ Tail(io.batch)[i] = io.batch[i + 1] /\ i + 1 # 1
    BY <1>1, <1>3, FirstAndRest
  <2>3. sock \in Sockets
    BY <2>2 DEF ServerInv, TypeOK, PollEvent
  <2>4. seen \in PollEvent /\ seen.fd = ev.fd /\ (sock = NULL => "ERR" \in seen.events)
        /\ (sock # NULL => seen = ev)
    BY <2>2 DEF PollEvent, Events
  <2>5. /\ pc \in {"delSocket", "accept", "handleSocket"} /\ (sock = NULL => pc = "delSocket")
        /\ (sock = LISTEN <=> pc = "accept") /\ (sock \notin {NULL, LISTEN} => pc = "handleSocket")
    BY ServerAssumption
  <2> HIDE DEF ev, sock, seen, pc
  <2>6. /\ io'.pc = pc /\ io'.batch = Tail(io.batch) /\ io'.sock = sock /\ io'.ev = seen
    BY <2>1
  <2>7. io' \in IoType
    BY <2>1, <2>2, <2>3, <2>4, <2>5 DEF IoType
  <2>8. io'.sock = sockets_[io'.ev.fd] /\ io'.ev.fd = io.batch[1].fd
    BY <2>2, <2>4, <2>6 DEF sock
  <2>9. Len(io.batch) \in Nat
    BY <1>1
  <2> QED
    BY <1>3, <2>2, <2>4, <2>5, <2>6, <2>7, <2>8, <2>9
<1> QED
    BY <1>2, <1>3

LEMMA NextEventStep == ASSUME ServerInv, nextEvent PROVE ServerInv'
<1> USE DEF ServerInv
<1>1. /\ UNCHANGED <<backlog, peer, asked, early, wire, handle, interest, edges, sockets_, refs,
                     pool, vec, loaded, torn>>
      /\ UNCHANGED <<ready_out, recv_que_, event_que_, del_socket_mutex_, session, answer, main>>
      /\ io.pc = "next"
    BY DEF nextEvent, clients, kernel, objects, counts, sessions
<1>2. /\ io'.pc \in {"wait", "accept", "handleSocket", "delSocket"}
      /\ io'.pc = "wait" => io.batch = <<>>
      /\ io' \in IoType
    BY NextEventEffect
<1>3. AddingOK' /\ Requests' /\ Tracked'
    BY <1>1, <1>2 DEF AddingOK, Adding, Requests, Asking, Tracked
<1>4. \A c \in Conns : Outside(c) => io'.sock # c
  <2>1. \/ io'.sock = NULL \/ io'.sock = io.sock
        \/ \E f \in Fds \cup {LISTEN} : io'.sock = sockets_[f]
    BY NextEventEffect DEF TypeOK, IoType, PollEvent, Descriptors
  <2> QED
    BY <2>1, ServerAssumption DEF Fresh, Unmade, Entries
<1>5. BatchOK'
  <2>1. CASE io.batch = <<>>
    BY <1>1, <1>2, <2>1, NextEventEffect DEF BatchOK
  <2>2. CASE io.batch # <<>>
    <3>1. \A i \in DOMAIN io'.batch : io'.batch[i].fd # io.batch[1].fd
      <4>1. \A i, j \in DOMAIN io.batch : io.batch[i].fd = io.batch[j].fd => i = j
        BY DEF BatchOK
      <4>2. /\ 1 \in DOMAIN io.batch
            /\ \A i \in DOMAIN io'.batch : /\ i + 1 \in DOMAIN io.batch /\ i + 1 # 1
                                          /\ io'.batch[i] = io.batch[i + 1]
        BY <2>2, NextEventEffect
      <4> QED
        BY ONLY <4>1, <4>2
    <3>2. io'.ev.fd \in Fds \cup {LISTEN}
      BY NextEventEffect DEF IoType, PollEvent, Descriptors
    <3>3. io'.pc = "accept" => io'.ev.fd = LISTEN /\ io'.ev = io.batch[1]
      BY <2>2, <3>2, NextEventEffect DEF Entries
    <3> QED
      BY <1>1, <2>2, <3>1, <3>3, NextEventEffect DEF BatchOK
  <2> QED
    BY <2>1, <2>2
<1>6. IoOK'
  <2>1. io'.pc = "handleSocket" => io'.sock \in Conns /\ io'.ev.fd \in Fds
    BY NextEventEffect, ServerAssumption
       DEF Entries, TypeOK, IoType, PollEvent, Descriptors, Sockets
  <2>2. io'.pc = "delSocket" => "ERR" \in io'.ev.events
    BY <1>2, NextEventEffect, ServerAssumption
  <2> QED
    BY <1>1, <1>2, <2>1, <2>2 DEF IoOK
<1>7. Room'
  <2>1. Len(io.batch) \in Nat /\ Len(io'.batch) \in Nat /\ Len(event_que_) \in Nat
    BY NextEventEffect DEF TypeOK, IoType
  <2> QED
    BY <1>1, <1>2, <2>1, NextEventEffect, ServerAssumption DEF Room
<1>8. Listening'
    BY <1>1, <1>2, NextEventEffect, ServerAssumption DEF Listening, Crowded, Made, Entries
<1>9. edges' \subseteq interest /\ ready_out' \in [Conns -> BOOLEAN]
    BY <1>1 DEF TypeOK
<1> HIDE DEF ServerInv
<1> QED
    BY <1>1, <1>2, <1>3, <1>4, <1>5, <1>6, <1>7, <1>8, <1>9, IoMoves

\* The least of a set of descriptors.
LEMMA LeastExists ==
    ASSUME NEW S \in SUBSET Nat, S # {}
    PROVE  \E f \in S : \A g \in S : f <= g
<1>1. IsWellFoundedOn(OpToRel(<, Nat), Nat)
    BY NatLessThanWellFounded
<1>2. PICK f \in S : \A g \in S : ~ (<<g, f>> \in OpToRel(<, Nat))
    BY ONLY <1>1, S \in SUBSET Nat, S # {}, WFMin, Zenon
<1>3. \A g \in S : f <= g
  <2> SUFFICES ASSUME NEW g \in S, ~ (f <= g) PROVE FALSE
      OBVIOUS
  <2>1. <<g, f>> \in OpToRel(<, Nat)
    BY DEF OpToRel
  <2> QED
    BY <1>2, <2>1
<1> QED
    BY <1>3

\* When no descriptor is free and a connection waits, there are more connections than
\* descriptors.
LEMMA NoneFree ==
    ASSUME ServerInv, backlog # <<>>, Fds \ {handle[c] : c \in Conns} = {}
    PROVE  Crowded
<1> USE DEF ServerInv
<1> DEFINE d == backlog[1]
           owner == [f \in Fds |-> CHOOSE c \in Conns : handle[c] = f]
<1>1. d \in Conns /\ Outside(d) /\ peer[d] # "none" /\ handle[d] = NULL
  <2>1. backlog \in Seq(Conns)
    BY DEF TypeOK
  <2>2. d \in Conns /\ 1 \in DOMAIN backlog
    BY <2>1, FirstAndRest
  <2> QED
    BY <2>2 DEF Fresh, Outside
<1>2. \A f \in Fds : owner[f] \in Conns /\ handle[owner[f]] = f
    OBVIOUS
<1>3. \A f \in Fds : owner[f] \in Made \ {d}
  <2> TAKE f \in Fds
  <2>1. owner[f] \in Conns /\ handle[owner[f]] = f /\ f # NULL
    BY <1>2, ServerAssumption
  <2> HIDE DEF owner, d
  <2>2. peer[owner[f]] # "none" /\ owner[f] # d
    BY <1>1, <2>1 DEF Fresh, Outside
  <2> QED
    BY <2>1, <2>2 DEF Made
<1>4. owner \in Injection(Fds, Made \ {d})
    BY <1>2, <1>3 DEF Injection, IsInjective
<1> HIDE DEF owner, d
<1>5. IsFiniteSet(Made) /\ d \in Made
    BY <1>1 DEF Listening, Made
<1>6. IsFiniteSet(Made \ {d}) /\ Cardinality(Made \ {d}) = Cardinality(Made) - 1
    BY <1>5, FS_RemoveElement
<1>7. Cardinality(Fds) <= Cardinality(Made \ {d})
    BY <1>4, <1>6, FS_Injection
<1>8. Cardinality(Made) \in Nat /\ Cardinality(Fds) \in Nat
    BY <1>5, FS_CardinalityType, ServerAssumption
<1> QED
    BY <1>6, <1>7, <1>8 DEF Crowded

LEMMA AcceptStep == ASSUME ServerInv, accept PROVE ServerInv'
<1> USE DEF ServerInv
<1> DEFINE free == Fds \ {handle[c] : c \in Conns}
<1>1. /\ UNCHANGED <<peer, asked, early, wire, interest, edges, sockets_, refs, pool, vec, loaded,
                     torn, ready_out, recv_que_, event_que_, del_socket_mutex_>>
      /\ UNCHANGED <<session, answer, main>>
      /\ io.pc = "accept" /\ io.ev.fd = LISTEN /\ "ERR" \notin io.ev.events /\ backlog # <<>>
      /\ backlog \in Seq(Conns) /\ io \in IoType
    BY DEF accept, objects, counts, sessions, BatchOK, TypeOK, IoType
<1>2. CASE free = {}
  <2>1. io' = Failed /\ UNCHANGED <<backlog, handle>>
    BY <1>2 DEF accept
  <2>2. /\ io' \in IoType /\ io'.pc = "delSocket" /\ io'.batch = io.batch
        /\ io'.ev.fd = LISTEN /\ "ERR" \in io'.ev.events /\ io'.sock = io.sock
    BY <1>1, <2>1, FailedIo
  <2>3. AddingOK' /\ Requests' /\ Tracked'
    BY <1>1, <2>1, <2>2 DEF AddingOK, Adding, Requests, Asking, Tracked
  <2>4. BatchOK' /\ IoOK' /\ Room'
    BY <1>1, <2>1, <2>2 DEF BatchOK, IoOK, Room
  <2>5. Listening'
    BY <1>1, <1>2, <2>1, NoneFree DEF Listening, Crowded, Made
  <2>6. \A c \in Conns : Outside(c) => io'.sock # c
    BY <2>2 DEF Fresh
  <2>7. edges' \subseteq interest /\ ready_out' \in [Conns -> BOOLEAN]
    BY <1>1 DEF TypeOK
  <2> HIDE DEF ServerInv
  <2> QED
    BY <1>1, <2>1, <2>2, <2>3, <2>4, <2>5, <2>6, <2>7, IoMoves
<1>3. CASE free # {}
  <2> DEFINE c == Head(backlog)
             g == CHOOSE f \in free : \A h \in free : f <= h
  <2>1. /\ backlog' = Tail(backlog) /\ handle' = [handle EXCEPT ![c] = g]
        /\ io' = [io EXCEPT !.pc = "addSocket", !.sock = c]
    BY <1>1, <1>3 DEF accept
  <2>2. g \in Fds /\ g # NULL /\ \A x \in Conns : handle[x] # g
    BY <1>3, LeastExists, ServerAssumption
  <2>3. /\ c = backlog[1] /\ c \in Conns /\ 1 \in DOMAIN backlog
        /\ Tail(backlog) \in Seq(Conns)
        /\ \A i \in DOMAIN Tail(backlog) : /\ i + 1 \in DOMAIN backlog /\ i + 1 # 1
                                           /\ Tail(backlog)[i] = backlog[i + 1]
    BY <1>1, FirstAndRest
  <2> HIDE DEF c, g, free
  <2>4. /\ io' \in IoType /\ io'.pc = "addSocket" /\ io'.sock = c
        /\ io'.batch = io.batch /\ io'.ev = io.ev
    BY <1>1, <2>1, <2>3 DEF IoType, Sockets
  <2>5. /\ handle'[c] = g /\ \A x \in Conns \ {c} : handle'[x] = handle[x]
        /\ handle' \in [Conns -> Fds \cup {NULL}]
    BY <2>1, <2>2, <2>3 DEF TypeOK
  <2>6. /\ refs[c] = 0 /\ c \notin pool /\ c \notin vec /\ c \notin session /\ main.sock # c
        /\ handle[c] = NULL /\ \A f \in Fds : sockets_[f] # c
    BY <2>3 DEF Fresh, Unmade, Outside
  <2>7. \A x \in Conns : Outside(x)' => Outside(x) /\ x # c
  <3> SUFFICES ASSUME NEW x \in Conns, Outside(x)' PROVE Outside(x) /\ x # c
      OBVIOUS
    <3>1. CASE peer[x] = "none"
      BY <3>1, <2>3 DEF Outside, Fresh
    <3>2. CASE \E i \in DOMAIN backlog' : backlog'[i] = x
      <4>1. PICK i \in DOMAIN Tail(backlog) : Tail(backlog)[i] = x
        BY <2>1, <3>2
      <4>2. i + 1 \in DOMAIN backlog /\ backlog[i + 1] = x /\ i + 1 # 1
        BY <2>3, <4>1
      <4> QED
        BY <2>3, <4>2 DEF Outside, Fresh
    <3> QED
      BY <1>1, <3>1, <3>2 DEF Outside
  <2>8. TypeOK'
    BY <1>1, <2>1, <2>3, <2>4, <2>5 DEF TypeOK, IoType
  <2>9. Locked' /\ Room' /\ IoOK' /\ MainOK' /\ Requests'
    BY <1>1, <2>1, <2>4 DEF Locked, Room, IoOK, MainOK, Handling, Requests, Asking
  <2>10. \A f \in Fds : (Leaving(f)' <=> Leaving(f)) /\ (Closing(f)' <=> Closing(f))
    BY <1>1, <2>4 DEF Leaving, Closing, Locked
  <2>11. Entries'
    <3>1. \A f \in Fds : \A x \in Conns : sockets_'[f] = x =>
             /\ handle'[x] = f \/ (handle'[x] = NULL /\ (Closing(f)' \/ refs'[x] = 0))
             /\ Closing(f)' => handle'[x] = NULL
      <4> SUFFICES ASSUME NEW f \in Fds, NEW x \in Conns, sockets_[f] = x
                   PROVE  /\ handle'[x] = f \/ (handle'[x] = NULL /\ (Closing(f) \/ refs[x] = 0))
                          /\ Closing(f) => handle'[x] = NULL
          BY <1>1, <2>10
      <4>1. handle'[x] = handle[x]
        BY <2>5, <2>6
      <4> QED
        BY <4>1 DEF Entries
    <3>2. \A x, y \in Conns : handle'[x] # NULL /\ handle'[x] = handle'[y] => x = y
      BY <2>2, <2>5 DEF Entries
    <3> QED
      BY <1>1, <2>4, <3>1, <3>2 DEF Entries
  <2>12. Fresh'
    <3>1. \A i, j \in DOMAIN backlog' : backlog'[i] = backlog'[j] => i = j
      <4> SUFFICES ASSUME NEW i \in DOMAIN Tail(backlog), NEW j \in DOMAIN Tail(backlog),
                          Tail(backlog)[i] = Tail(backlog)[j]
                   PROVE  i = j
        BY <2>1
      <4>1. i + 1 = j + 1
        BY <2>3 DEF Fresh
      <4>2. i \in Nat /\ j \in Nat
        BY <2>3
      <4> QED
        BY <4>1, <4>2
    <3>2. \A i \in DOMAIN backlog' : peer'[backlog'[i]] # "none"
      BY <1>1, <2>1, <2>3 DEF Fresh
    <3>3. \A x \in Conns : Outside(x)' => handle'[x] = NULL /\ io'.sock # x
      BY <2>4, <2>5, <2>7 DEF Fresh
    <3>4. \A x \in Conns : Unmade(x)' => Unmade(x)
      BY <2>3, <2>4, <2>7 DEF Unmade, Outside
    <3> QED
      BY <1>1, <3>1, <3>2, <3>3, <3>4 DEF Fresh
  <2>13. AddingOK'
    BY <1>1, <2>2, <2>3, <2>4, <2>5, <2>6 DEF AddingOK, Adding
  <2>14. BatchOK'
    BY <1>1, <2>4 DEF BatchOK
  <2>15. Counted'
    BY <1>1, <2>10 DEF Counted, Held, One
  <2>16. Listening'
    BY <1>1, <2>4 DEF Listening, Crowded, Made
  <2>17. Tracked'
    BY <1>1, <2>4, <2>5 DEF Tracked
  <2> QED
    BY <2>8, <2>9, <2>11, <2>12, <2>13, <2>14, <2>15, <2>16, <2>17
<1> QED
    BY <1>2, <1>3

\* Neither addSocket before its delSocket, nor create's read of the vector, does anything that
\* others see.
LEMMA AddingMoves ==
    ASSUME ServerInv,
           UNCHANGED <<backlog, peer, asked, early, wire, handle, interest, edges, sockets_, refs,
                       pool, vec, loaded, torn>>,
           UNCHANGED <<ready_out, recv_que_, event_que_, del_socket_mutex_, session, answer, main>>,
           io' \in IoType, io.pc \in {"addSocket", "create"},
           io'.pc \in {"delOld", "create", "addRef"}, io'.pc = "addRef" => io.pc = "create",
           io'.pc = "create" => sockets_[handle[io.sock]] = NULL,
           io'.batch = io.batch, io'.ev = io.ev, io'.sock = io.sock
    PROVE  ServerInv'
<1> USE DEF ServerInv
<1>1. AddingOK' /\ Requests' /\ Tracked' /\ BatchOK'
    BY DEF AddingOK, Adding, Requests, Asking, Tracked, BatchOK
<1>2. IoOK' /\ Room' /\ Listening'
    BY DEF IoOK, Room, Listening, Crowded, Made
<1>3. edges' \subseteq interest /\ ready_out' \in [Conns -> BOOLEAN]
    BY DEF TypeOK
<1>4. \A c \in Conns : Outside(c) => io'.sock # c
    BY DEF Fresh
<1> HIDE DEF ServerInv
<1> QED
    BY <1>1, <1>2, <1>3, <1>4, IoMoves

LEMMA AddSocketStep == ASSUME ServerInv, addSocket PROVE ServerInv'
<1>1. /\ UNCHANGED <<backlog, peer, asked, early, wire, handle, interest, edges, sockets_, refs,
                     pool, vec, loaded, torn>>
      /\ UNCHANGED <<ready_out, recv_que_, event_que_, del_socket_mutex_, session, answer, main>>
      /\ io.pc = "addSocket" /\ io \in IoType
    BY DEF addSocket, clients, kernel, objects, counts, sessions, ServerInv, TypeOK, IoType
<1>2. /\ io' \in IoType /\ io'.pc \in {"create", "delOld"}
      /\ io'.pc = "create" => sockets_[handle[io.sock]] = NULL
      /\ io'.batch = io.batch /\ io'.ev = io.ev /\ io'.sock = io.sock
    BY <1>1 DEF addSocket, IoType
<1> QED
    BY <1>1, <1>2, AddingMoves

LEMMA CreateStep == ASSUME ServerInv, create PROVE ServerInv'
<1>1. /\ UNCHANGED <<backlog, peer, asked, early, wire, handle, interest, edges, sockets_, refs,
                     pool, vec, loaded, torn>>
      /\ UNCHANGED <<ready_out, recv_que_, event_que_, del_socket_mutex_, session, answer, main>>
      /\ io.pc = "create" /\ io \in IoType
    BY DEF create, clients, kernel, objects, counts, sessions, ServerInv, TypeOK, IoType
<1>2. /\ io' \in IoType /\ io'.pc = "addRef"
      /\ io'.batch = io.batch /\ io'.ev = io.ev /\ io'.sock = io.sock
    BY <1>1 DEF create, IoType
<1> QED
    BY <1>1, <1>2, AddingMoves

\* Who may take the lock finds the table at rest, and closes the connection whose entry it is.
LEMMA DelSocketEffect ==
    ASSUME ServerInv, NEW thread \in {"main", "io"}, NEW f \in Descriptors, delSocket(thread, f)
    PROVE  /\ \A g \in Fds : ~ Closing(g) /\ ~ Leaving(g)
           /\ main.pc \notin {"release", "delSocketEnds"}
           /\ io.pc \notin {"release", "delSocketEnds"}
           /\ del_socket_mutex_' = IF sockets_[f] = NULL THEN NULL ELSE thread
           /\ \A x \in Conns : sockets_[f] = x =>
                 f \in Fds /\ handle'[x] = NULL /\ loaded'[thread] # 0
           /\ \A x \in Conns : sockets_[f] # x => handle'[x] = handle[x]
           /\ loaded' \in Loads
           /\ \A t \in {"main", "io"} \ {thread} : loaded'[t] = loaded[t]
           /\ handle' \in [Conns -> Fds \cup {NULL}]
           /\ \A x, y \in Conns : handle'[x] # NULL /\ handle'[x] = handle'[y] => x = y
           /\ interest' \subseteq Descriptors /\ edges' \subseteq interest'
           /\ \A x \in Conns : handle'[x] # NULL /\ handle[x] \in interest => handle[x] \in interest'
<1> USE DEF ServerInv
<1>1. /\ del_socket_mutex_ = NULL
      /\ main.pc \notin {"release", "delSocketEnds"} /\ io.pc \notin {"release", "delSocketEnds"}
      /\ \A g \in Fds : ~ Closing(g) /\ ~ Leaving(g)
    BY ServerAssumption DEF delSocket, Locked, Leaving, Closing
<1>2. \A x \in Conns : sockets_[f] = x => f \in Fds
    BY ServerAssumption DEF Entries, Descriptors
<1>3. /\ handle' = [x \in Conns |-> IF sockets_[f] = x THEN NULL ELSE handle[x]]
      /\ del_socket_mutex_' = IF sockets_[f] = NULL THEN NULL ELSE thread
      /\ handle \in [Conns -> Fds \cup {NULL}] /\ interest \subseteq Descriptors
    BY DEF delSocket, TypeOK
<1>4. /\ interest' = interest \ ({handle[x] : x \in {y \in Conns : sockets_[f] = y}}
                                 \cup {s \in {LISTEN} : sockets_[f] = s})
      /\ edges' = edges \cap interest'
    BY DEF delSocket
<1>5. /\ loaded' \in Loads /\ \A x \in Conns : sockets_[f] = x => loaded'[thread] # 0
      /\ \A t \in {"main", "io"} \ {thread} : loaded'[t] = loaded[t]
  <2>1. CASE sockets_[f] \in Conns
    <3>1. load(thread, sockets_[f]) /\ refs[sockets_[f]] # 0
      BY <2>1 DEF delSocket, Deleted
    <3> QED
      BY <2>1, <3>1, LoadEffect
  <2>2. CASE sockets_[f] \notin Conns
    BY <2>2 DEF delSocket, TypeOK, Loads
  <2> QED
    BY <2>1, <2>2
<1>6. \A x, y \in Conns : handle'[x] # NULL /\ handle'[x] = handle'[y] => x = y
    BY <1>3 DEF Entries
<1>7. ASSUME NEW x \in Conns, handle'[x] # NULL, handle[x] \in interest
      PROVE  handle[x] \in interest'
  <2>1. sockets_[f] # x /\ handle[x] \in Fds
    BY <1>3, <1>7
  <2>2. \A y \in Conns : sockets_[f] = y => handle[x] # handle[y]
    BY <1>3, <2>1, <1>7 DEF Entries
  <2>3. handle[x] # LISTEN
    BY <2>1, ServerAssumption
  <2> QED
    BY <1>4, <1>7, <2>2, <2>3
<1>8. \A x \in Conns : sockets_[f] = x => handle'[x] = NULL
    BY <1>3
<1>9. \A x \in Conns : sockets_[f] # x => handle'[x] = handle[x]
    BY <1>3
<1>10. interest' \subseteq Descriptors /\ edges' \subseteq interest'
    BY <1>3, <1>4
<1>11. handle' \in [Conns -> Fds \cup {NULL}]
    BY <1>3
<1> QED
    BY <1>1, <1>2, <1>3, <1>5, <1>6, <1>7, <1>8, <1>9, <1>10, <1>11

\* What either thread's delSocket leaves of the counts, the table and the Sockets that are not
\* in it.
LEMMA DelSocketKeeps ==
    ASSUME ServerInv, NEW thread \in {"main", "io"}, NEW f \in Descriptors, delSocket(thread, f),
           UNCHANGED <<backlog, peer, sockets_, refs, pool, vec, torn, session>>,
           \A g \in Fds : ~ Leaving(g)',
           \A g \in Fds : Closing(g)' <=> g = f /\ sockets_[f] # NULL,
           \A x \in Conns : Unmade(x)' => Unmade(x),
           main'.sock = main.sock \/ main'.sock = NULL, io'.sock = io.sock,
           main'.pc \in {"release", "delSocketEnds"} => sockets_[main'.ev.fd] # NULL,
           io'.pc \in {"release", "delSocketEnds"} => sockets_[io'.ev.fd] # NULL,
           \A x \in Conns : io.sock = x /\ sockets_[f] # x /\ handle[x] # NULL
              /\ io.pc \in {"addSocket", "delOld", "delOldRelease", "delOldEnds", "create",
                            "addRef", "init", "crashed"}
              => io'.pc \in {"addSocket", "delOld", "delOldRelease", "delOldEnds", "create",
                             "addRef", "init", "crashed"}
    PROVE  Counted' /\ Entries' /\ Fresh' /\ Tracked'
<1> USE DEF ServerInv
<1>1. /\ \A g \in Fds : ~ Closing(g) /\ ~ Leaving(g)
      /\ \A x \in Conns : sockets_[f] = x => f \in Fds /\ handle'[x] = NULL
      /\ \A x \in Conns : sockets_[f] # x => handle'[x] = handle[x]
      /\ \A x, y \in Conns : handle'[x] # NULL /\ handle'[x] = handle'[y] => x = y
      /\ \A x \in Conns : handle'[x] # NULL /\ handle[x] \in interest => handle[x] \in interest'
    BY DelSocketEffect
<1>2. Counted'
  <2>1. \A x \in Conns : Held(x)' <=> Held(x)
    BY <1>1 DEF Held
  <2> QED
    BY <2>1 DEF Counted, One
<1>3. Entries'
  <2>1. \A g \in Fds : \A x \in Conns : sockets_[g] = x =>
           /\ handle'[x] = g \/ (handle'[x] = NULL /\ (Closing(g)' \/ refs[x] = 0))
           /\ Closing(g)' => handle'[x] = NULL
    <3> SUFFICES ASSUME NEW g \in Fds, NEW x \in Conns, sockets_[g] = x
                 PROVE  /\ handle'[x] = g \/ (handle'[x] = NULL /\ (Closing(g)' \/ refs[x] = 0))
                        /\ Closing(g)' => handle'[x] = NULL
        OBVIOUS
    <3>1. CASE g = f
      <4>1. x # NULL
        BY ServerAssumption
      <4> QED
        BY <1>1, <3>1, <4>1
    <3>2. CASE g # f
      <4>1. sockets_[f] # x
        BY <1>1, <3>2 DEF Entries
      <4> QED
        BY <1>1, <3>2, <4>1 DEF Entries
    <3> QED
      BY <3>1, <3>2
  <2> QED
    BY <1>1, <2>1 DEF Entries
<1>4. Fresh'
  <2>1. \A x \in Conns : Outside(x)' <=> Outside(x)
    BY DEF Outside
  <2>2. \A x \in Conns : Unmade(x) => main'.sock # x
    BY ServerAssumption DEF Fresh
  <2>3. \A x \in Conns : Outside(x) => handle'[x] = NULL
    BY <1>1 DEF Fresh
  <2> QED
    BY <2>1, <2>2, <2>3 DEF Fresh
<1>5. Tracked'
  <2> SUFFICES ASSUME NEW x \in Conns, handle'[x] # NULL
               PROVE  \/ sockets_'[handle'[x]] = x /\ handle'[x] \in interest'
                      \/ io'.sock = x /\ io'.pc \in {"addSocket", "delOld", "delOldRelease",
                                            "delOldEnds", "create", "addRef", "init", "crashed"}
      BY DEF Tracked
  <2>1. sockets_[f] # x /\ handle'[x] = handle[x]
    BY <1>1
  <2>2. CASE sockets_[handle[x]] = x /\ handle[x] \in interest
    BY <1>1, <2>1, <2>2
  <2>3. CASE ~ (sockets_[handle[x]] = x /\ handle[x] \in interest)
    BY <2>1, <2>3 DEF Tracked
  <2> QED
    BY <2>2, <2>3
<1> QED
    BY <1>2, <1>3, <1>4, <1>5

LEMMA IoDelSocketStep == ASSUME ServerInv, ioDelSocket PROVE ServerInv'
<1> USE DEF ServerInv
<1> DEFINE f == ioFd
<1>1. /\ UNCHANGED <<backlog, peer, asked, early, wire, sockets_, refs, pool, vec, torn,
                     ready_out, recv_que_, event_que_, session, answer, main>>
      /\ delSocket("io", f) /\ io.pc \in {"delOld", "delSocket"} /\ io \in IoType
      /\ f = IF io.pc = "delOld" THEN handle[io.sock] ELSE io.ev.fd
    BY DEF ioDelSocket, clients, sessions, TypeOK, IoType, ioFd, Old
<1>2. f \in Descriptors /\ (io.pc = "delOld" => f \in Fds) /\ f # NULL
    BY <1>1, ServerAssumption DEF AddingOK, Adding, Descriptors, IoType, PollEvent
<1>3. io.pc = "delOld" => sockets_[f] = NULL
  <2> SUFFICES ASSUME io.pc = "delOld", sockets_[f] # NULL PROVE FALSE
      OBVIOUS
  <2>1. sockets_[f] \in Conns /\ io.sock \in Conns /\ sockets_[f] # io.sock /\ handle[io.sock] = f
    BY <1>1, <1>2 DEF AddingOK, Adding, TypeOK, Sockets, Entries, Descriptors
  <2>2. ~ Closing(f) /\ refs[sockets_[f]] # 0
    BY <1>1, <1>2, <2>1, DelSocketEffect DEF delSocket, Deleted
  <2>3. handle[sockets_[f]] = f
    BY <1>2, <2>1, <2>2 DEF Entries
  <2> QED
    BY <1>2, <2>1, <2>3 DEF Entries
<1>4. /\ io' \in IoType /\ io'.batch = io.batch /\ io'.sock = io.sock /\ io'.ev = io.ev
      /\ sockets_[f] = NULL /\ io.pc = "delOld" => io'.pc = "create"
      /\ sockets_[f] = NULL /\ io.pc # "delOld" => io'.pc = "push"
      /\ sockets_[f] \in Conns => io'.pc = "release"
      /\ sockets_[f] \notin Conns \cup {NULL} => io'.pc = "delSocketEnds"
  <2> DEFINE pc == CASE sockets_[f] = NULL   -> IF Old THEN "create" ELSE "push"
                     [] delSocketReleases(f) -> IF Old THEN "delOldRelease" ELSE "release"
                     [] OTHER                -> IF Old THEN "delOldEnds" ELSE "delSocketEnds"
  <2>1. io' = [io EXCEPT !.pc = pc]
    BY DEF ioDelSocket
  <2>2. /\ Old <=> io.pc = "delOld"
        /\ delSocketReleases(f) <=> sockets_[f] \in Conns
        /\ sockets_[f] # NULL => io.pc # "delOld"
    BY <1>1, <1>3 DEF Old, delSocketReleases
  <2> HIDE DEF f
  <2>3. /\ sockets_[f] = NULL /\ io.pc = "delOld" => pc = "create"
        /\ sockets_[f] = NULL /\ io.pc # "delOld" => pc = "push"
    BY <2>2, ServerAssumption
  <2>4. /\ sockets_[f] \in Conns => pc = "release"
        /\ sockets_[f] \notin Conns \cup {NULL} => pc = "delSocketEnds"
    BY <2>2, ServerAssumption
  <2>5. pc \in {"create", "push", "release", "delSocketEnds"}
    BY <2>3, <2>4
  <2> HIDE DEF pc
  <2>6. /\ io' \in IoType /\ io'.batch = io.batch /\ io'.sock = io.sock /\ io'.ev = io.ev
        /\ io'.pc = pc
    BY <1>1, <2>1, <2>5 DEF IoType
  <2> QED
    BY <2>3, <2>4, <2>6
<1> HIDE DEF f
<1>5. \/ /\ sockets_[f] = NULL /\ io'.pc \in {"create", "push"}
         /\ (io'.pc = "create" <=> io.pc = "delOld")
      \/ sockets_[f] \in Conns /\ io'.pc = "release" /\ io.pc = "delSocket" /\ f = io.ev.fd
      \/ /\ sockets_[f] = LISTEN /\ f = LISTEN /\ io'.pc = "delSocketEnds" /\ io.pc = "delSocket"
         /\ f = io.ev.fd
  <2>1. sockets_[f] \in Sockets /\ \A g \in Fds : sockets_[g] # LISTEN
    BY <1>2 DEF TypeOK, Entries
  <2>2. sockets_[f] = LISTEN => f = LISTEN
    BY <1>2, <2>1 DEF Descriptors
  <2>3. io.pc # "delOld" => io.pc = "delSocket" /\ f = io.ev.fd
    BY <1>1
  <2>4. CASE sockets_[f] = NULL
    BY <1>1, <1>4, <2>4
  <2>5. CASE sockets_[f] \in Conns
    BY <1>3, <1>4, <2>3, <2>5, ServerAssumption
  <2>6. CASE sockets_[f] = LISTEN
    <3>1. sockets_[f] # NULL /\ sockets_[f] \notin Conns
      BY <2>6, ServerAssumption
    <3>2. io'.pc = "delSocketEnds"
      BY <1>4, <3>1
    <3> QED
      BY <1>3, <2>2, <2>3, <2>6, <3>1, <3>2
  <2> QED
    BY <2>1, <2>4, <2>5, <2>6 DEF Sockets
<1>6. /\ handle' \in [Conns -> Fds \cup {NULL}] /\ del_socket_mutex_' \in {NULL, "io"}
      /\ (sockets_[f] # NULL => del_socket_mutex_' = "io")
      /\ edges' \subseteq interest' /\ interest' \subseteq Descriptors /\ loaded' \in Loads
      /\ loaded'["main"] = loaded["main"] /\ (sockets_[f] \in Conns => loaded'["io"] # 0 /\ f \in Fds)
      /\ main.pc \notin {"release", "delSocketEnds"}
      /\ \A x \in Conns : sockets_[f] # x => handle'[x] = handle[x]
    BY <1>1, <1>2, DelSocketEffect
<1>7. TypeOK'
    BY <1>1, <1>4, <1>6 DEF TypeOK, IoType, Loads
<1>8. Locked'
    BY <1>1, <1>4, <1>5, <1>6, ServerAssumption DEF Locked
<1>9. Counted' /\ Entries' /\ Fresh' /\ Tracked'
  <2>1. \A g \in Fds : ~ Leaving(g)'
    BY <1>1, <1>4, <1>5, <1>6, ServerAssumption DEF Leaving
  <2>2. \A g \in Fds : Closing(g)' <=> g = f /\ sockets_[f] # NULL
    BY <1>1, <1>4, <1>5, <1>6, ServerAssumption DEF Closing
  <2>3. \A x \in Conns : Unmade(x)' => Unmade(x)
    BY <1>1, <1>4, <1>5 DEF Unmade, Outside
  <2>4. io'.pc \in {"release", "delSocketEnds"} => sockets_[io'.ev.fd] # NULL
    BY <1>4, <1>5, ServerAssumption
  <2>5. \A x \in Conns : io.sock = x /\ sockets_[f] # x /\ handle[x] # NULL
           /\ io.pc \in {"addSocket", "delOld", "delOldRelease", "delOldEnds", "create",
                         "addRef", "init", "crashed"}
           => io'.pc \in {"addSocket", "delOld", "delOldRelease", "delOldEnds", "create",
                          "addRef", "init", "crashed"}
    BY <1>1, <1>5
  <2>6. main'.pc \in {"release", "delSocketEnds"} => sockets_[main'.ev.fd] # NULL
    BY <1>1, <1>6
  <2> HIDE DEF ServerInv
  <2> QED
    BY <1>1, <1>2, <1>4, <2>1, <2>2, <2>3, <2>4, <2>5, <2>6, DelSocketKeeps
<1>10. AddingOK'
  <2>1. io.pc = "delOld" => handle'[io.sock] = f /\ f = handle[io.sock] /\ io.sock \in Conns
    BY <1>1, <1>2, <1>3, <1>6, ServerAssumption DEF AddingOK, Adding
  <2> QED
    BY <1>1, <1>2, <1>3, <1>4, <1>5, <2>1 DEF AddingOK, Adding
<1>11. BatchOK' /\ Room'
    BY <1>1, <1>4, <1>5 DEF BatchOK, Room
<1>12. Listening'
    BY <1>1, <1>4, <1>5 DEF Listening, Crowded, Made
<1>13. IoOK'
    BY <1>1, <1>4, <1>5, <1>6 DEF IoOK
<1>14. MainOK' /\ Requests'
    BY <1>1, <1>6 DEF MainOK, Handling, Requests, Asking
<1> QED
    BY <1>7, <1>8, <1>9, <1>10, <1>11, <1>12, <1>13, <1>14

\* The release in either thread's delSocket: its Socket is closed already.
LEMMA DelSocketReleases ==
    ASSUME ServerInv, NEW thread \in {"main", "io"}, NEW f \in Fds, NEW c \in Conns,
           sockets_[f] = c, loaded[thread] # 0, release(thread, c),
           UNCHANGED <<backlog, peer, sockets_, pool, vec, session>>,
           Closing(f), \A g \in Fds : ~ Leaving(g),
           \A g \in Fds : Leaving(g)' <=> g = f,
           \A g \in Fds : Closing(g)' <=> Closing(g),
           \A x \in Conns : (Unmade(x)' <=> Unmade(x)) /\ (Outside(x)' <=> Outside(x)),
           main'.sock = main.sock, io'.sock = io.sock,
           main'.pc \in {"release", "delSocketEnds"} => sockets_[main'.ev.fd] # NULL,
           io'.pc \in {"release", "delSocketEnds"} => sockets_[io'.ev.fd] # NULL,
           io'.pc = io.pc \/ io.pc = "release"
    PROVE  /\ Counted' /\ Entries' /\ Fresh' /\ Tracked'
           /\ handle' = handle /\ \A x \in Conns \ {c} : refs'[x] = refs[x]
<1> USE DEF ServerInv
<1>1. /\ refs' \in [Conns -> Nat]
      /\ \A x \in Conns \ {c} : refs'[x] = refs[x] /\ handle'[x] = handle[x]
      /\ torn \subseteq torn' /\ (c \notin torn' => refs'[c] = refs[c] - 1)
      /\ handle' \in [Conns -> Fds \cup {NULL}]
      /\ handle'[c] = handle[c] \/ (handle'[c] = NULL /\ refs'[c] = 0)
      /\ \A x \in Conns : handle'[x] # NULL /\ handle[x] \in interest => handle[x] \in interest'
    BY ReleaseEffect
<1>2. handle[c] = NULL /\ handle'[c] = NULL
    BY <1>1 DEF Entries
<1>3. handle' = handle
  <2>1. \A x \in Conns : handle'[x] = handle[x]
    BY <1>1, <1>2
  <2>2. handle \in [Conns -> Fds \cup {NULL}]
    BY DEF TypeOK
  <2> QED
    BY <1>1, <2>1, <2>2
<1>4. Held(c) /\ ~ Held(c)' /\ \A x \in Conns \ {c} : Held(x)' <=> Held(x)
  <2>1. \A g \in Fds : sockets_[g] = c => g = f
    BY DEF Entries
  <2>2. Held(c)
    BY DEF Held
  <2>3. ~ Held(c)'
    BY <2>1 DEF Held
  <2>4. \A x \in Conns \ {c} : Held(x)' <=> Held(x)
    BY <2>1 DEF Held
  <2> QED
    BY <2>2, <2>3, <2>4
<1>5. Counted'
  <2> HIDE DEF ServerInv
  <2> QED
    BY <1>1, <1>4, OneLess
<1>6. Entries'
  <2>1. \A g \in Fds : \A x \in Conns : sockets_[g] = x =>
           /\ handle'[x] = g \/ (handle'[x] = NULL /\ (Closing(g)' \/ refs'[x] = 0))
           /\ Closing(g)' => handle'[x] = NULL
    <3> SUFFICES ASSUME NEW g \in Fds, NEW x \in Conns, sockets_[g] = x
                 PROVE  /\ handle[x] = g \/ (handle[x] = NULL /\ (Closing(g) \/ refs'[x] = 0))
                        /\ Closing(g) => handle[x] = NULL
        BY <1>3
    <3>1. CASE x = c
      <4>1. g = f
        BY <3>1 DEF Entries
      <4> QED
        BY <1>2, <3>1, <4>1
    <3>2. CASE x # c
      <4>1. refs'[x] = refs[x]
        BY <1>1, <3>2
      <4> QED
        BY <4>1 DEF Entries
    <3> QED
      BY <3>1, <3>2
  <2> QED
    BY <1>3, <2>1 DEF Entries
<1>7. Fresh'
  <2>1. \A x \in Conns : Unmade(x) => x # c
    BY DEF Fresh
  <2>2. \A x \in Conns : Unmade(x) => refs'[x] = refs[x]
    BY <1>1, <2>1
  <2> QED
    BY <1>3, <2>2 DEF Fresh
<1>8. Tracked'
    BY <1>1, <1>3 DEF Tracked
<1> QED
    BY <1>1, <1>3, <1>5, <1>6, <1>7, <1>8

LEMMA IoReleaseStep == ASSUME ServerInv, ioRelease PROVE ServerInv'
<1> USE DEF ServerInv
<1> DEFINE f == io.ev.fd
           c == sockets_[f]
<1>1. /\ UNCHANGED <<backlog, peer, asked, early, wire, sockets_, pool, vec, ready_out, recv_que_,
                     event_que_, del_socket_mutex_, session, answer, main>>
      /\ io.pc = "release" /\ io \in IoType /\ release("io", c)
      /\ io' = [io EXCEPT !.pc = "delSocketEnds"]
    BY DEF ioRelease, ioFd, Old, clients, sessions, TypeOK, IoType, Locked
<1>2. /\ io' \in IoType /\ io'.pc = "delSocketEnds" /\ io'.batch = io.batch /\ io'.sock = io.sock
      /\ io'.ev = io.ev
    BY <1>1 DEF IoType
<1>3. /\ f \in Fds /\ c \in Conns /\ loaded["io"] # 0 /\ Closing(f)
      /\ main.pc \notin {"release", "delSocketEnds"} /\ f # LISTEN
    BY <1>1, ServerAssumption
    DEF IoOK, Entries, TypeOK, Sockets, Descriptors, Closing, Locked
<1>4. /\ \A g \in Fds : ~ Leaving(g) /\ (Leaving(g)' <=> g = f) /\ (Closing(g)' <=> Closing(g))
      /\ \A x \in Conns : (Unmade(x)' <=> Unmade(x)) /\ (Outside(x)' <=> Outside(x))
    BY <1>1, <1>2, <1>3 DEF Leaving, Closing, Unmade, Outside
<1>5. /\ refs' \in [Conns -> Nat] /\ torn' \subseteq Conns /\ loaded' \in Loads
      /\ interest' \subseteq Descriptors /\ edges' \subseteq interest'
      /\ loaded'["main"] = loaded["main"]
  <2> HIDE DEF ServerInv, f, c
  <2> QED
    BY <1>1, <1>3, ReleaseEffect
<1>6. /\ Counted' /\ Entries' /\ Fresh' /\ Tracked'
      /\ handle' = handle /\ \A x \in Conns \ {c} : refs'[x] = refs[x]
  <2>1. c # NULL
    BY <1>3, ServerAssumption
  <2>2. main'.sock = main.sock /\ (main'.pc \in {"release", "delSocketEnds"} => sockets_[main'.ev.fd] # NULL)
    BY <1>1, <1>3
  <2>3. sockets_[io'.ev.fd] # NULL
    BY <1>2, <2>1
  <2> HIDE DEF ServerInv, f, c
  <2>4. c = sockets_[f]
    BY DEF c
  <2> QED
    BY <1>1, <1>2, <1>3, <1>4, <2>2, <2>3, <2>4, DelSocketReleases
<1> HIDE DEF c
<1>7. TypeOK'
    BY <1>1, <1>2, <1>5, <1>6 DEF TypeOK, IoType, Loads
<1>8. Locked' /\ Room' /\ BatchOK' /\ IoOK' /\ AddingOK'
    BY <1>1, <1>2, <1>3 DEF Locked, Room, BatchOK, IoOK, AddingOK, Adding
<1>9. MainOK' /\ Requests'
    BY <1>1, <1>5 DEF MainOK, Handling, Requests, Asking
<1>10. Listening'
    BY <1>1, <1>2, <1>3 DEF Listening, Crowded, Made
<1> QED
    BY <1>6, <1>7, <1>8, <1>9, <1>10

\* The entry that goes is one on its way out: no count and no open connection depends on it.
LEMMA DelSocketEndsEffect ==
    ASSUME ServerInv, NEW f \in Descriptors, delSocketEnds(f),
           \A g \in Fds : ~ Leaving(g)' /\ ~ Closing(g)',
           \A g \in Fds : (Leaving(g) <=> g = f) /\ (Closing(g) <=> g = f),
           UNCHANGED <<backlog, peer, handle, interest, refs, pool, vec, torn, session>>,
           \A x \in Conns : (Unmade(x)' => Unmade(x)) /\ (Outside(x)' <=> Outside(x)),
           main'.sock = main.sock \/ main'.sock = NULL, io'.sock = io.sock,
           main'.pc \notin {"release", "delSocketEnds"},
           io'.pc \notin {"release", "delSocketEnds"},
           io'.pc = io.pc \/ io.pc = "delSocketEnds"
    PROVE  /\ Counted' /\ Entries' /\ Fresh' /\ Tracked'
           /\ sockets_' \in [Descriptors -> Sockets]
           /\ \A g \in Descriptors : sockets_'[g] = (IF g = f THEN NULL ELSE sockets_[g])
           /\ del_socket_mutex_' = NULL
<1> USE DEF ServerInv
<1>1. /\ sockets_ \in [Descriptors -> Sockets] /\ sockets_' = [sockets_ EXCEPT ![f] = NULL]
      /\ NULL \in Sockets /\ handle \in [Conns -> Fds \cup {NULL}] /\ del_socket_mutex_' = NULL
    BY DEF delSocketEnds, TypeOK, Sockets
<1>2. /\ sockets_' \in [Descriptors -> Sockets]
      /\ \A g \in Descriptors : sockets_'[g] = (IF g = f THEN NULL ELSE sockets_[g])
    BY <1>1
<1>3. LISTEN \in Descriptors /\ \A g \in Fds : g \in Descriptors
    BY DEF Descriptors
<1>4. NULL \notin Conns /\ NULL # LISTEN
    BY ServerAssumption
<1>5. \A g \in Fds : g # f => sockets_'[g] = sockets_[g]
    BY <1>2, <1>3
<1>6. \A g \in Fds : \A x \in Conns : sockets_'[g] = x => g # f /\ sockets_[g] = x
    BY <1>2, <1>3, <1>4
<1>7. \A x \in Conns : Held(x)' <=> Held(x)
    BY <1>5, <1>6 DEF Held
<1>8. Counted'
    BY <1>7 DEF Counted, One
<1>9. Entries'
  <2>1. \A g \in Fds : \A x \in Conns : sockets_'[g] = x =>
           handle'[x] = g \/ (handle'[x] = NULL /\ refs'[x] = 0)
    BY <1>6 DEF Entries
  <2>2. \A g, h \in Fds : sockets_'[g] = sockets_'[h] /\ sockets_'[g] \in Conns => g = h
    BY <1>6 DEF Entries
  <2>3. \A g \in Fds : sockets_'[g] # LISTEN
    BY <1>2, <1>3, <1>4 DEF Entries
  <2>4. sockets_'[LISTEN] \in {LISTEN, NULL}
    BY <1>2, <1>3 DEF Entries
  <2>5. \A x, y \in Conns : handle'[x] # NULL /\ handle'[x] = handle'[y] => x = y
    BY DEF Entries
  <2> HIDE DEF ServerInv
  <2> QED
    BY <2>1, <2>2, <2>3, <2>4, <2>5 DEF Entries
<1>10. Fresh'
  <2>1. \A x \in Conns : Unmade(x) => \A g \in Fds : sockets_'[g] # x
    BY <1>6 DEF Fresh
  <2>2. \A x \in Conns : Unmade(x) => main'.sock # x
    BY <1>4 DEF Fresh
  <2> QED
    BY <2>1, <2>2 DEF Fresh
<1>11. Tracked'
  <2> SUFFICES ASSUME NEW x \in Conns, handle[x] # NULL,
                      sockets_[handle[x]] = x /\ handle[x] \in interest
               PROVE  sockets_'[handle[x]] = x
      BY DEF Tracked
  <2>1. handle[x] \in Fds
    BY <1>1
  <2>2. handle[x] # f
    BY <2>1 DEF Entries
  <2> QED
    BY <1>5, <2>1, <2>2
<1> QED
    BY <1>1, <1>2, <1>8, <1>9, <1>10, <1>11

LEMMA IoDelSocketEndsStep == ASSUME ServerInv, ioDelSocketEnds PROVE ServerInv'
<1> USE DEF ServerInv
<1> DEFINE f == io.ev.fd
<1>1. /\ UNCHANGED <<backlog, peer, asked, early, wire, handle, interest, edges, refs, pool, vec,
                     loaded, torn, ready_out>>
      /\ UNCHANGED <<recv_que_, event_que_, session, answer, main>>
      /\ io.pc = "delSocketEnds" /\ io \in IoType /\ delSocketEnds(f)
      /\ io' = [io EXCEPT !.pc = "push"]
    BY DEF ioDelSocketEnds, ioFd, Old, clients, kernel, objects, counts, sessions, TypeOK,
           IoType, Locked
<1>2. /\ io' \in IoType /\ io'.pc = "push" /\ io'.batch = io.batch /\ io'.sock = io.sock
      /\ io'.ev = io.ev
    BY <1>1 DEF IoType
<1>3. /\ f \in Descriptors /\ main.pc \notin {"release", "delSocketEnds"}
      /\ "ERR" \in io.ev.events
    BY <1>1, ServerAssumption DEF IoType, PollEvent, Locked, IoOK
<1>4. /\ \A g \in Fds : ~ Leaving(g)' /\ ~ Closing(g)'
      /\ \A g \in Fds : (Leaving(g) <=> g = f) /\ (Closing(g) <=> g = f)
      /\ \A x \in Conns : (Unmade(x)' => Unmade(x)) /\ (Outside(x)' <=> Outside(x))
    BY <1>1, <1>2, <1>3 DEF Leaving, Closing, Unmade, Outside
<1>5. /\ Counted' /\ Entries' /\ Fresh' /\ Tracked'
      /\ sockets_' \in [Descriptors -> Sockets]
      /\ \A g \in Descriptors : sockets_'[g] = (IF g = f THEN NULL ELSE sockets_[g])
      /\ del_socket_mutex_' = NULL
  <2> HIDE DEF ServerInv, f
  <2> QED
    BY <1>1, <1>2, <1>3, <1>4, DelSocketEndsEffect
<1>6. TypeOK'
    BY <1>1, <1>2, <1>5 DEF TypeOK, IoType
<1>7. Locked' /\ Room' /\ BatchOK' /\ AddingOK'
    BY <1>1, <1>2, <1>3 DEF Locked, Room, BatchOK, AddingOK, Adding
<1>8. IoOK' /\ MainOK' /\ Requests'
    BY <1>1, <1>2, <1>3, <1>5 DEF IoOK, MainOK, Handling, Requests, Asking
<1>9. Listening'
    BY <1>1, <1>2, <1>3, <1>5 DEF Listening, Crowded, Made, Descriptors
<1> QED
    BY <1>5, <1>6, <1>7, <1>8, <1>9

LEMMA AddRefStep == ASSUME ServerInv, addRef PROVE ServerInv'
<1> USE DEF ServerInv
<1> SUFFICES ASSUME NEW c \in Conns, io.sock = c PROVE ServerInv'
    BY DEF addRef, AddingOK, Adding
<1>1. /\ UNCHANGED <<backlog, peer, asked, early, wire, handle, interest, edges, sockets_, vec, torn,
                     ready_out, recv_que_, event_que_, del_socket_mutex_, session, answer, main>>
      /\ io.pc = "addRef" /\ io \in IoType /\ refs' = [refs EXCEPT ![c] = 1]
      /\ loaded' = [loaded EXCEPT !["io"] = 1]
    BY DEF addRef, clients, kernel, sessions, TypeOK, IoType
<1>2. /\ \E pc \in {"init", "crashed"} : io' = [io EXCEPT !.pc = pc]
      /\ pool' = pool \cup {c} \/ (c \in torn /\ pool' = pool)
    BY DEF addRef
<1>3. /\ io' \in IoType /\ io'.pc \in {"init", "crashed"} /\ io'.batch = io.batch /\ io'.sock = c
      /\ io'.ev = io.ev
    BY <1>1, <1>2 DEF IoType
<1>4. /\ c \in Conns /\ refs[c] = 0 /\ c \notin pool /\ c \notin session /\ ~ Outside(c)
      /\ \A f \in Fds : sockets_[f] # c
    BY <1>1 DEF AddingOK, Adding, Fresh, Unmade
<1>5. \A f \in Fds : (Leaving(f)' <=> Leaving(f)) /\ (Closing(f)' <=> Closing(f))
    BY <1>1, <1>3 DEF Leaving, Closing
<1>6. \A x \in Conns : Held(x)' <=> Held(x)
    BY <1>1, <1>5 DEF Held
<1>7. /\ refs' \in [Conns -> Nat] /\ refs'[c] = 1 /\ \A x \in Conns \ {c} : refs'[x] = refs[x]
      /\ loaded' \in Loads /\ loaded'["main"] = loaded["main"]
    BY <1>1, <1>4 DEF TypeOK, Loads
<1>8. pool' \subseteq Conns /\ pool \subseteq pool' /\ \A x \in Conns \ {c} : x \in pool' <=> x \in pool
    BY <1>2, <1>4 DEF TypeOK
<1>9. Counted'
  <2>1. refs'[c] = refs[c] + 1
    BY <1>4, <1>7
  <2>2. c \notin torn' => One(c \in pool') = 1 /\ One(c \in pool) = 0
    BY <1>1, <1>2, <1>4 DEF One
  <2>3. One(c \in session') = One(c \in session) /\ One(Held(c)') = One(Held(c))
    BY <1>1, <1>4, <1>6 DEF One
  <2>4. One(c \in session) \in Nat /\ One(Held(c)) \in Nat
    BY DEF One
  <2>5. c \notin torn' =>
           One(c \in pool') + One(c \in session') + One(Held(c)')
             = One(c \in pool) + One(c \in session) + One(Held(c)) + 1
    BY <2>2, <2>3, <2>4
  <2> HIDE DEF ServerInv
  <2> QED
    BY <1>1, <1>4, <1>6, <1>7, <1>8, <2>1, <2>5, OneMore
<1>10. TypeOK'
    BY <1>1, <1>3, <1>7, <1>8 DEF TypeOK, IoType, Loads
<1>11. Locked' /\ Tracked' /\ MainOK' /\ Requests'
    BY <1>1, <1>3, <1>7 DEF Locked, Tracked, MainOK, Handling, Requests, Asking
<1>12. Entries'
  <2>1. \A f \in Fds : \A x \in Conns : sockets_[f] = x => refs'[x] = refs[x]
    BY <1>4, <1>7
  <2> QED
    BY <1>1, <1>3, <1>5, <2>1 DEF Entries
<1>13. Fresh'
  <2>1. \A x \in Conns : (Unmade(x)' => Unmade(x) /\ x # c) /\ (Outside(x)' <=> Outside(x))
    BY <1>1, <1>3, <1>4 DEF Unmade, Outside
  <2> QED
    BY <1>1, <1>3, <1>7, <1>8, <2>1 DEF Fresh
<1>14. AddingOK' /\ BatchOK' /\ IoOK'
    BY <1>1, <1>3 DEF AddingOK, Adding, BatchOK, IoOK
<1>15. Room' /\ Listening'
    BY <1>1, <1>3 DEF Room, Listening, Crowded, Made
<1> QED
    BY <1>9, <1>10, <1>11, <1>12, <1>13, <1>14, <1>15

LEMMA InitStep == ASSUME ServerInv, init PROVE ServerInv'
<1> USE DEF ServerInv
<1> SUFFICES ASSUME NEW c \in Conns, NEW g \in Fds, io.sock = c, handle[c] = g
             PROVE  ServerInv'
  <2>1. io.pc = "init" /\ io.sock \in Conns /\ refs[io.sock] # 0
    BY DEF init, Deleted, AddingOK, Adding
  <2> QED
    BY <2>1 DEF AddingOK, Adding
<1> DEFINE n == loaded["io"] + 1
<1>1. /\ UNCHANGED <<backlog, peer, asked, early, wire, handle, pool, vec, ready_out, recv_que_,
                     event_que_, del_socket_mutex_, session, answer, main>>
      /\ io.pc = "init" /\ io \in IoType /\ store("io", c, n)
      /\ sockets_' = [sockets_ EXCEPT ![g] = c]
      /\ interest' = interest \cup {g} /\ edges' = edges \cup {g}
      /\ io' = [io EXCEPT !.pc = "push"]
    BY DEF init, retain, clients, sessions, TypeOK, IoType
<1>2. /\ io' \in IoType /\ io'.pc = "push" /\ io'.batch = io.batch /\ io'.sock = c
      /\ io'.ev = io.ev
    BY <1>1 DEF IoType
<1>3. /\ c \in Conns /\ g \in Fds /\ sockets_[g] = NULL /\ c # NULL /\ c # LISTEN
      /\ g # LISTEN /\ g # NULL
      /\ io.ev.fd = LISTEN /\ "ERR" \notin io.ev.events /\ \A f \in Fds : sockets_[f] # c
    BY <1>1, ServerAssumption DEF AddingOK, Adding
<1>4. /\ sockets_' \in [Descriptors -> Sockets] /\ sockets_'[g] = c
      /\ \A f \in Descriptors : f # g => sockets_'[f] = sockets_[f]
    BY <1>1, <1>3 DEF TypeOK, Descriptors, Sockets
<1>5. \A f \in Fds : f \in Descriptors /\ LISTEN \in Descriptors
    BY DEF Descriptors
<1>6. /\ \A f \in Fds : (Leaving(f)' <=> Leaving(f)) /\ (Closing(f)' <=> Closing(f))
      /\ ~ Leaving(g) /\ ~ Closing(g)
  <2>1. ~ Closing(g)
    BY <1>3 DEF Closing, Entries
  <2>2. ~ Leaving(g)
    BY <1>1, <2>1 DEF Closing, Leaving
  <2> QED
    BY <1>1, <1>2, <2>1, <2>2 DEF Leaving, Closing
<1>7. n \in Nat /\ loaded["io"] \in Nat
    BY DEF TypeOK
<1> HIDE DEF n
<1>8. /\ refs' \in [Conns -> Nat] /\ refs'[c] = n
      /\ \A x \in Conns \ {c} : refs'[x] = refs[x]
      /\ torn' \subseteq Conns /\ torn \subseteq torn' /\ (c \notin torn' => refs[c] = loaded["io"])
      /\ loaded' \in Loads /\ loaded'["main"] = loaded["main"]
  <2> HIDE DEF ServerInv
  <2> QED
    BY <1>1, <1>3, <1>7, StoreEffect
<1>9. /\ ~ Held(c) /\ Held(c)' /\ \A x \in Conns \ {c} : Held(x)' <=> Held(x)
      /\ \A f \in Fds : \A x \in Conns \ {c} : sockets_'[f] = x <=> sockets_[f] = x
  <2>1. \A f \in Fds : \A x \in Conns \ {c} : sockets_'[f] = x <=> sockets_[f] = x
    BY <1>3, <1>4, <1>5, ServerAssumption
  <2>2. \A x \in Conns \ {c} : Held(x)' <=> Held(x)
    BY <1>6, <2>1 DEF Held
  <2>3. ~ Held(c) /\ Held(c)'
    BY <1>3, <1>4, <1>6 DEF Held
  <2> QED
    BY <2>1, <2>2, <2>3
<1>10. Counted'
  <2>1. c \notin torn' => refs'[c] = refs[c] + 1
    BY <1>8 DEF n
  <2>2. One(Held(c)') = 1 /\ One(Held(c)) = 0
    BY <1>9 DEF One
  <2>3. One(c \in pool') = One(c \in pool) /\ One(c \in session') = One(c \in session)
    BY <1>1 DEF One
  <2>4. One(c \in pool) \in Nat /\ One(c \in session) \in Nat
    BY DEF One
  <2>5. One(c \in pool') + One(c \in session') + One(Held(c)')
          = One(c \in pool) + One(c \in session) + One(Held(c)) + 1
    BY <2>2, <2>3, <2>4
  <2> HIDE DEF ServerInv
  <2> QED
    BY <1>1, <1>3, <1>8, <1>9, <2>1, <2>5, OneMore
<1>11. TypeOK'
    BY SMTT(30), <1>1, <1>2, <1>3, <1>4, <1>5, <1>8 DEF TypeOK, IoType, Loads
<1>12. Locked' /\ BatchOK' /\ Room' /\ AddingOK' /\ MainOK' /\ Requests'
    BY <1>1, <1>2, <1>8
    DEF Locked, BatchOK, Room, AddingOK, Adding, MainOK, Handling, Requests, Asking
<1>13. Entries'
  <2>1. main.ev.fd \in Descriptors /\ io.ev.fd \in Descriptors
    BY DEF TypeOK, PollEvent
  <2>2. \A f \in Fds : \A x \in Conns : sockets_'[f] = x =>
           /\ handle'[x] = f \/ (handle'[x] = NULL /\ (Closing(f)' \/ refs'[x] = 0))
           /\ Closing(f)' => handle'[x] = NULL
    <3> SUFFICES ASSUME NEW f \in Fds, NEW x \in Conns, sockets_'[f] = x
                 PROVE  /\ handle[x] = f \/ (handle[x] = NULL /\ (Closing(f) \/ refs'[x] = 0))
                        /\ Closing(f) => handle[x] = NULL
        BY <1>1, <1>6
    <3>1. CASE x = c
      <4>1. f = g
        BY <1>3, <1>4, <1>5, <3>1
      <4> QED
        BY <1>6, <3>1, <4>1
    <3>2. CASE x # c
      <4>1. sockets_[f] = x /\ refs'[x] = refs[x]
        BY <1>8, <1>9, <3>2
      <4> QED
        BY <4>1 DEF Entries
    <3> QED
      BY <3>1, <3>2
  <2>3. \A f, h \in Fds : sockets_'[f] = sockets_'[h] /\ sockets_'[f] \in Conns => f = h
    <3> SUFFICES ASSUME NEW f \in Fds, NEW h \in Fds, sockets_'[f] = sockets_'[h],
                        sockets_'[f] \in Conns
                 PROVE  f = h
        OBVIOUS
    <3>1. CASE sockets_'[f] = c
      BY <1>3, <1>4, <1>5, <3>1
    <3>2. CASE sockets_'[f] # c
      BY <1>9, <3>2 DEF Entries
    <3> QED
      BY <3>1, <3>2
  <2>4. \A f \in Fds : sockets_'[f] # LISTEN
    BY <1>3, <1>4, <1>5 DEF Entries
  <2>5. sockets_'[LISTEN] \in {LISTEN, NULL}
    BY <1>3, <1>4, <1>5 DEF Entries
  <2>6. main.pc \in {"release", "delSocketEnds"} => sockets_'[main.ev.fd] # NULL
    BY <1>3, <1>4, <2>1 DEF Entries
  <2> QED
    BY <1>1, <1>2, <2>2, <2>3, <2>4, <2>5, <2>6 DEF Entries
<1>14. Fresh'
  <2>1. \A x \in Conns : (Unmade(x)' => Unmade(x) /\ x # c) /\ (Outside(x)' <=> Outside(x))
    BY <1>1, <1>2, <1>3 DEF Unmade, Outside, Fresh
  <2> QED
    BY <1>1, <1>2, <1>8, <1>9, <2>1 DEF Fresh
<1>15. IoOK'
    BY <1>1, <1>2, <1>3 DEF IoOK
<1>16. Listening'
    BY <1>1, <1>2, <1>3, <1>4, <1>5 DEF Listening, Crowded, Made
<1>17. Tracked'
  <2> SUFFICES ASSUME NEW x \in Conns, handle[x] # NULL
               PROVE  sockets_'[handle[x]] = x /\ handle[x] \in interest'
      BY <1>1 DEF Tracked
  <2>1. CASE x = c
    BY <1>1, <1>4, <2>1
  <2>2. CASE x # c
    <3>1. sockets_[handle[x]] = x /\ handle[x] \in interest /\ handle[x] \in Fds
      BY <2>2 DEF Tracked, TypeOK
    <3> QED
      BY <1>1, <1>9, <2>2, <3>1
  <2> QED
    BY <2>1, <2>2
<1> QED
    BY <1>10, <1>11, <1>12, <1>13, <1>14, <1>15, <1>16, <1>17

LEMMA HandleSocketStep == ASSUME ServerInv, handleSocket PROVE ServerInv'
<1> USE DEF ServerInv
<1> SUFFICES ASSUME NEW c \in Conns, io.sock = c PROVE ServerInv'
    BY DEF handleSocket, IoOK
<1>1. /\ UNCHANGED <<backlog, peer, asked, early, handle, interest, edges, sockets_, refs, pool, vec,
                     loaded, torn, event_que_, del_socket_mutex_, session, answer, main>>
      /\ io.pc = "handleSocket" /\ io \in IoType /\ io.sock \in Conns /\ io.ev.fd \in Fds
    BY DEF handleSocket, kernel, counts, sessions, TypeOK, IoType, IoOK
<1>2. ready_out' \in [Conns -> BOOLEAN]
    BY <1>1 DEF handleSocket, TypeOK
<1>3. /\ io' \in IoType /\ io'.batch = io.batch /\ io'.sock = io.sock
      /\ io'.ev.fd = io.ev.fd
      /\ \/ io'.pc = "push" /\ "ERR" \notin io'.ev.events
         \/ io'.pc = "delSocket" /\ "ERR" \in io'.ev.events
  <2>1. io' = Failed \/ ("ERR" \notin io.ev.events /\ io' = [io EXCEPT !.pc = "push"])
    BY DEF handleSocket
  <2>2. CASE io' = Failed
    BY <2>2, FailedIo
  <2>3. CASE "ERR" \notin io.ev.events /\ io' = [io EXCEPT !.pc = "push"]
    BY <1>1, <2>3 DEF IoType
  <2> QED
    BY <2>1, <2>2, <2>3
<1>4. AddingOK' /\ BatchOK' /\ Tracked'
    BY <1>1, <1>3 DEF AddingOK, Adding, BatchOK, Tracked
<1>5. IoOK'
    BY <1>1, <1>3 DEF IoOK
<1>6. Room'
    BY <1>1, <1>3 DEF Room
<1>7. Listening'
    BY <1>1, <1>3, ServerAssumption DEF Listening, Crowded, Made
<1>8. Requests'
  <2>1. CASE UNCHANGED <<recv_que_, wire>>
    BY <1>1, <2>1 DEF Requests, Asking
  <2>2. CASE /\ recv_que_' = [recv_que_ EXCEPT ![c] = @ \o wire[c]]
             /\ wire' = [wire EXCEPT ![c] = <<>>]
    <3>1. /\ DOMAIN wire = Conns /\ DOMAIN recv_que_ = Conns
          /\ wire[c] \in Seq(Nat) /\ recv_que_[c] \in Seq(Nat)
      BY <1>1 DEF Requests
    <3>2. /\ DOMAIN wire' = Conns /\ DOMAIN recv_que_' = Conns
          /\ \A x \in Conns \ {c} : wire'[x] = wire[x] /\ recv_que_'[x] = recv_que_[x]
          /\ wire'[c] = <<>> /\ recv_que_'[c] = recv_que_[c] \o wire[c]
      BY <1>1, <2>2, <3>1
    <3>3. /\ <<>> \in Seq(Nat) /\ recv_que_[c] \o wire[c] \in Seq(Nat)
          /\ recv_que_[c] = <<>> => recv_que_[c] \o wire[c] = wire[c]
          /\ wire[c] = <<>> => recv_que_[c] \o wire[c] = recv_que_[c]
      BY <3>1, EmptySeq, ConcatProperties, ConcatEmptySeq
    <3>4. ASSUME NEW i \in DOMAIN recv_que_'[c], recv_que_'[c][i] = C_CONNECT
          PROVE  i = 1 /\ c \notin session /\ ~ Asking(c)
      <4> DEFINE q == recv_que_[c]
                 w == wire[c]
      <4>1. q \in Seq(Nat) /\ w \in Seq(Nat) /\ recv_que_'[c] = q \o w
        BY <3>1, <3>2
      <4>2. Len(q) \in Nat /\ Len(w) \in Nat /\ DOMAIN w = 1 .. Len(w) /\ DOMAIN q = 1 .. Len(q)
        BY <4>1
      <4>3. CASE i \in DOMAIN q
        <5>1. q[i] = C_CONNECT
          BY <3>4, <4>1, <4>3
        <5> QED
          BY <1>1, <4>3, <5>1 DEF Requests
      <4>4. CASE i \notin DOMAIN q
        <5>1. i - Len(q) \in DOMAIN w /\ w[i - Len(q)] = C_CONNECT
          <6> HIDE DEF q, w
          <6>1. /\ Len(q \o w) = Len(q) + Len(w)
                /\ \A j \in 1 .. Len(q) + Len(w) : (q \o w)[j] =
                       IF j <= Len(q) THEN q[j] ELSE w[j - Len(q)]
            BY ONLY <4>1, ConcatProperties
          <6>2. i \in 1 .. Len(q) + Len(w) /\ (q \o w)[i] = C_CONNECT
            BY <3>1, <3>4, <4>1, <6>1
          <6>3. i \in Int /\ ~ (i <= Len(q))
            BY <4>2, <4>4, <6>2
          <6> QED
            BY <4>2, <6>1, <6>2, <6>3
        <5>2. i - Len(q) = 1 /\ q = <<>> /\ c \notin session /\ ~ Asking(c)
          BY <1>1, <5>1 DEF Requests
        <5>3. Len(q) = 0 /\ i \in Int
          BY <3>4, <4>1, <4>2, <5>2
        <5> QED
          BY <5>2, <5>3
      <4> QED
        BY <4>3, <4>4
    <3>5. asked[c] = 0 => recv_que_'[c] = <<>>
      BY <1>1, <3>2, <3>3 DEF Requests
    <3>6. \A x \in Conns : Asking(x)' <=> Asking(x)
      BY <1>1 DEF Asking
    <3>7. ASSUME NEW x \in Conns
          PROVE  /\ wire'[x] \in Seq(Nat) /\ recv_que_'[x] \in Seq(Nat)
                 /\ \A i \in DOMAIN recv_que_'[x] : recv_que_'[x][i] = C_CONNECT =>
                       i = 1 /\ x \notin session /\ ~ Asking(x)
                 /\ \A i \in DOMAIN wire'[x] : wire'[x][i] = C_CONNECT =>
                       i = 1 /\ recv_que_'[x] = <<>> /\ x \notin session /\ ~ Asking(x)
                 /\ asked[x] = 0 => /\ wire'[x] = <<>> /\ recv_que_'[x] = <<>>
                                    /\ x \notin session /\ ~ Asking(x)
                 /\ Asking(x) => x \notin session
      <4>1. CASE x = c
        <5>1. (Asking(c) => c \notin session) /\ (asked[c] = 0 => c \notin session /\ ~ Asking(c))
          BY DEF Requests
        <5>2. DOMAIN wire'[c] = {}
          BY <3>2
        <5> QED
          BY <3>2, <3>3, <3>4, <3>5, <4>1, <5>1, <5>2
      <4>2. CASE x # c
        BY <3>2, <4>2 DEF Requests
      <4> QED
        BY <4>1, <4>2
    <3> QED
      BY <1>1, <3>2, <3>6, <3>7 DEF Requests
  <2> QED
    BY <2>1, <2>2 DEF handleSocket
<1>9. edges' \subseteq interest
    BY <1>1 DEF TypeOK
<1>10. \A x \in Conns : Outside(x) => io'.sock # x
    BY <1>3 DEF Fresh
<1> HIDE DEF ServerInv
<1> QED
    BY <1>1, <1>2, <1>3, <1>4, <1>5, <1>6, <1>7, <1>8, <1>9, <1>10, IoMoves

LEMMA PushStep == ASSUME ServerInv, push PROVE ServerInv'
<1> USE DEF ServerInv
<1>1. /\ UNCHANGED <<backlog, peer, asked, early, wire, handle, sockets_, refs, pool, vec, loaded,
                     torn, ready_out, recv_que_, del_socket_mutex_, session, answer, main>>
      /\ io.pc = "push" /\ io \in IoType
    BY DEF push, clients, objects, counts, sessions, TypeOK, IoType
<1>2. Len(event_que_) \in Nat /\ Len(io.batch) \in Nat /\ event_que_ \in Seq(PollEvent)
      /\ io.ev \in PollEvent /\ main.cnt \in Nat /\ QueueLength \in Nat
    BY <1>1, ServerAssumption DEF TypeOK, IoType
<1>3. Len(event_que_) < QueueLength
    BY <1>1, <1>2 DEF Room
<1>4. /\ event_que_' = Append(event_que_, io.ev)
      /\ io' = [io EXCEPT !.pc = "next", !.ev = NoEvent, !.sock = NULL]
    BY <1>3 DEF push
<1>5. io' \in IoType /\ io'.pc = "next" /\ io'.batch = io.batch /\ io'.sock = NULL
    BY <1>1, <1>4, NoEventIsEvent DEF IoType, Sockets
<1>6. event_que_' \in Seq(PollEvent) /\ Len(event_que_') = Len(event_que_) + 1
    BY <1>2, <1>4
<1>7. /\ edges' \subseteq interest' /\ interest' \subseteq Descriptors
      /\ \A f \in interest : f \notin interest' => f = io.ev.fd /\ "ERR" \in io.ev.events
    BY DEF push, TypeOK
<1>8. TypeOK'
    BY <1>1, <1>5, <1>6, <1>7 DEF TypeOK, IoType
<1>9. Locked' /\ AddingOK' /\ MainOK' /\ Requests'
    BY <1>1, <1>5 DEF Locked, AddingOK, Adding, MainOK, Handling, Requests, Asking
<1>10. \A f \in Fds : (Leaving(f)' <=> Leaving(f)) /\ (Closing(f)' <=> Closing(f))
    BY <1>1, <1>5 DEF Leaving, Closing
<1>11. Counted'
    BY <1>1, <1>10 DEF Counted, Held, One
<1>12. Entries'
    BY <1>1, <1>5, <1>10 DEF Entries
<1>13. Fresh'
    BY <1>1, <1>5, ServerAssumption DEF Fresh, Unmade, Outside
<1>14. BatchOK' /\ IoOK' /\ Listening'
    BY <1>1, <1>5 DEF BatchOK, IoOK, Listening, Crowded, Made
<1>15. Room'
  <2>1. Len(event_que_) + Len(io.batch) < QueueLength /\ main.cnt <= Len(event_que_)
    BY <1>1 DEF Room
  <2> DEFINE n == Len(event_que_)
             m == Len(io.batch)
             k == main.cnt
  <2>2. n \in Nat /\ m \in Nat /\ k \in Nat /\ n + m < QueueLength /\ k <= n /\ QueueLength \in Nat
    BY <1>2, <2>1
  <2>3. Len(event_que_') = n + 1
    BY <1>6
  <2> HIDE DEF n, m, k
  <2>4. n + 1 + m <= QueueLength /\ k <= n + 1
    BY <2>2
  <2>5. /\ Len(event_que_') + Len(io.batch) <= QueueLength
        /\ main.cnt <= Len(event_que_')
    BY <2>3, <2>4 DEF m, k
  <2> QED
    BY <1>1, <1>5, <2>5 DEF Room
<1>16. Tracked'
  <2> SUFFICES ASSUME NEW x \in Conns, handle[x] # NULL
               PROVE  sockets_[handle[x]] = x /\ handle[x] \in interest'
      BY <1>1 DEF Tracked
  <2>1. sockets_[handle[x]] = x /\ handle[x] \in interest
    BY <1>1 DEF Tracked
  <2>2. ~ (handle[x] = io.ev.fd /\ "ERR" \in io.ev.events)
    BY <1>1, <2>1, ServerAssumption DEF IoOK
  <2> QED
    BY <1>7, <2>1, <2>2
<1> QED
    BY <1>8, <1>9, <1>11, <1>12, <1>13, <1>14, <1>15, <1>16

LEMMA IoCrashStep == ASSUME ServerInv, ioCrash PROVE ServerInv'
<1> USE DEF ServerInv
<1>1. /\ UNCHANGED <<backlog, peer, asked, early, wire, handle, interest, edges, sockets_, refs,
                     pool, vec, loaded, torn>>
      /\ UNCHANGED <<ready_out, recv_que_, event_que_, del_socket_mutex_, session, answer, main>>
      /\ io.pc \in {"init", "handleSocket", "delOld", "delSocket", "release"}
      /\ io \in IoType /\ io' = [io EXCEPT !.pc = "crashed"]
      /\ io.pc = "release" => refs[sockets_[io.ev.fd]] = 0
    BY DEF ioCrash, clients, kernel, objects, counts, sessions, TypeOK, IoType, Locked, Deleted,
           ioFd, Old
<1>2. /\ io' \in IoType /\ io'.pc = "crashed" /\ io'.batch = io.batch /\ io'.sock = io.sock
      /\ io'.ev = io.ev
    BY <1>1 DEF IoType
<1>3. AddingOK' /\ Requests' /\ Tracked'
    BY <1>1, <1>2 DEF AddingOK, Adding, Requests, Asking, Tracked
<1>4. BatchOK' /\ IoOK' /\ Room'
    BY <1>1, <1>2 DEF BatchOK, IoOK, Room
<1>5. Listening'
    BY <1>1, <1>2 DEF Listening, Crowded, Made
<1>6. edges' \subseteq interest /\ ready_out' \in [Conns -> BOOLEAN]
    BY <1>1 DEF TypeOK
<1>7. \A c \in Conns : Outside(c) => io'.sock # c
    BY <1>2 DEF Fresh
<1> HIDE DEF ServerInv
<1> QED
    BY <1>1, <1>2, <1>3, <1>4, <1>5, <1>6, <1>7, IoMoves

\* What epoll_wait returns: descriptors with an edge and something ready, each once, and no
\* more than there is room for.
LEMMA EpollWaitEffect ==
    ASSUME ServerInv, epollWait
    PROVE  /\ io' \in IoType /\ io'.pc = "next" /\ io'.sock = io.sock /\ io'.ev = io.ev
           /\ edges' \subseteq edges
           /\ Len(io'.batch) <= rest(event_que_)
           /\ \A i \in DOMAIN io'.batch : /\ io'.batch[i].fd \in edges
                                          /\ Ready(io'.batch[i].fd) # {}
                                          /\ io'.batch[i].events = Ready(io'.batch[i].fd)
           /\ \A i, j \in DOMAIN io'.batch : io'.batch[i].fd = io'.batch[j].fd => i = j
<1> USE DEF ServerInv
<1> DEFINE pending == {f \in edges : Ready(f) # {}}
<1>1. PICK chosen \in SUBSET pending :
         /\ Cardinality(chosen) = Min({rest(event_que_), Cardinality(pending)})
         /\ edges' = edges \ chosen
         /\ \E order \in SetToSeqs(chosen) :
               io' = [io EXCEPT !.pc = "next",
                                !.batch = [i \in DOMAIN order |->
                                  [fd |-> order[i], events |-> Ready(order[i])]]]
    BY DEF epollWait
<1>2. PICK order \in SetToSeqs(chosen) :
         io' = [io EXCEPT !.pc = "next",
                          !.batch = [i \in DOMAIN order |->
                            [fd |-> order[i], events |-> Ready(order[i])]]]
    BY <1>1
<1> DEFINE batch == [i \in DOMAIN order |-> [fd |-> order[i], events |-> Ready(order[i])]]
<1>3. pending \subseteq edges /\ edges \subseteq Descriptors /\ io \in IoType /\ event_que_ \in Seq(PollEvent)
    BY DEF TypeOK, IoType
<1>4. IsFiniteSet(Descriptors)
    BY FS_AddElement, ServerAssumption DEF Descriptors
<1>5. IsFiniteSet(pending) /\ IsFiniteSet(chosen)
    BY <1>3, <1>4, FS_Subset
<1>6. Cardinality(pending) \in Nat /\ Cardinality(chosen) \in Nat /\ rest(event_que_) \in Int
    BY <1>3, <1>5, FS_CardinalityType, ServerAssumption DEF rest
<1>7. Cardinality(chosen) <= rest(event_que_)
  <2> DEFINE a == rest(event_que_)
             b == Cardinality(pending)
  <2>1. a \in Int /\ b \in Int
    BY <1>6
  <2> HIDE DEF a, b
  <2>2. \E x \in {a, b} : \A y \in {a, b} : x <= y
    BY <2>1
  <2>3. \A y \in {a, b} : Min({a, b}) <= y
    BY <2>2 DEF Min
  <2> QED
    BY <1>1, <2>3 DEF a, b
<1>8. /\ order \in [1 .. Cardinality(chosen) -> chosen]
      /\ \A i, j \in DOMAIN order : order[i] = order[j] => i = j
    BY DEF SetToSeqs
<1>9. DOMAIN order = 1 .. Cardinality(chosen) /\ \A i \in DOMAIN order : order[i] \in pending
    BY <1>8
<1>10. \A f : Ready(f) \subseteq Events
    BY DEF Ready, Events
<1>11. \A i \in DOMAIN order : /\ batch[i].fd = order[i] /\ batch[i].events = Ready(order[i])
                               /\ batch[i] \in PollEvent
    BY <1>3, <1>9, <1>10 DEF PollEvent
<1>12. batch \in [1 .. Cardinality(chosen) -> PollEvent] /\ DOMAIN batch = DOMAIN order
    BY <1>9, <1>11
<1>13. batch \in Seq(PollEvent) /\ Len(batch) = Cardinality(chosen)
    BY <1>6, <1>12
<1> HIDE DEF batch, pending
<1>14. io' = [io EXCEPT !.pc = "next", !.batch = batch]
    BY <1>2 DEF batch
<1>15. io' \in IoType /\ io'.pc = "next" /\ io'.sock = io.sock /\ io'.ev = io.ev /\ io'.batch = batch
    BY <1>3, <1>13, <1>14 DEF IoType
<1>16. \A i \in DOMAIN batch : batch[i].fd \in edges /\ Ready(batch[i].fd) # {}
                               /\ batch[i].events = Ready(batch[i].fd)
    BY <1>9, <1>11, <1>12 DEF pending
<1>17. \A i, j \in DOMAIN batch : batch[i].fd = batch[j].fd => i = j
    BY <1>8, <1>11, <1>12
<1> QED
    BY <1>1, <1>7, <1>13, <1>15, <1>16, <1>17

LEMMA EpollWaitStep == ASSUME ServerInv, epollWait PROVE ServerInv'
<1> USE DEF ServerInv
<1>1. /\ UNCHANGED <<backlog, peer, asked, early, wire, handle, interest, sockets_, refs, pool, vec,
                     loaded, torn>>
      /\ UNCHANGED <<ready_out, recv_que_, event_que_, del_socket_mutex_, session, answer, main>>
      /\ io.pc = "wait"
    BY DEF epollWait, clients, objects, counts, sessions
<1>2. io' \in IoType /\ io'.pc = "next" /\ io'.sock = io.sock /\ io'.ev = io.ev
    BY EpollWaitEffect
<1>3. AddingOK' /\ Requests' /\ Tracked'
    BY <1>1, <1>2 DEF AddingOK, Adding, Requests, Asking, Tracked
<1>4. IoOK' /\ Listening'
    BY <1>1, <1>2 DEF IoOK, Listening, Crowded, Made
<1>5. BatchOK'
  <2>1. Ready(LISTEN) # {} => backlog # <<>> /\ Ready(LISTEN) = {"IN"}
    BY DEF Ready
  <2>2. \A i \in DOMAIN io'.batch : io'.batch[i].fd = LISTEN =>
           "ERR" \notin io'.batch[i].events /\ backlog # <<>>
    BY <2>1, EpollWaitEffect
  <2> QED
    BY <1>1, <1>2, <2>2, EpollWaitEffect DEF BatchOK
<1>6. Room'
  <2>1. Len(io'.batch) \in Nat /\ Len(event_que_) \in Nat
    BY <1>2 DEF TypeOK, IoType
  <2> QED
    BY <1>1, <1>2, <2>1, EpollWaitEffect, ServerAssumption DEF Room, rest
<1>7. edges' \subseteq interest /\ ready_out' \in [Conns -> BOOLEAN]
    BY <1>1, EpollWaitEffect DEF TypeOK
<1>8. \A c \in Conns : Outside(c) => io'.sock # c
    BY <1>2 DEF Fresh
<1> HIDE DEF ServerInv
<1> QED
    BY <1>1, <1>2, <1>3, <1>4, <1>5, <1>6, <1>7, <1>8, IoMoves

---------------------------------------------------------------------------------
(* The main thread's steps.                                                  *)

\* A step of the main thread that only moves its program counter, learns the number of the
\* events or reads a count; with what it writes besides in fields of the Sockets.
LEMMA MainMoves ==
    ASSUME ServerInv, main' \in MainType,
           UNCHANGED <<backlog, peer, asked, early, handle, interest, edges, sockets_, refs, pool,
                       vec, torn, event_que_, del_socket_mutex_, session, io>>,
           loaded' \in Loads, loaded'["io"] = loaded["io"],
           ready_out' \in [Conns -> BOOLEAN],
           answer' \in [Conns -> {"none", "queued", "sent", "lost"}],
           main.pc # "delSocketEnds",
           main.pc = "release" => refs[sockets_[main.ev.fd]] = 0,
           main'.pc \notin {"release", "delSocketEnds"},
           main'.sock = main.sock \/ main'.sock = NULL \/ main'.sock \in vec,
           main'.cnt <= Len(event_que_), MainOK', Requests'
    PROVE  ServerInv'
<1> USE DEF ServerInv
<1>1. TypeOK'
    BY DEF TypeOK, MainType, Loads
<1>2. Locked' /\ AddingOK' /\ BatchOK' /\ Tracked' /\ IoOK'
    BY DEF Locked, AddingOK, Adding, BatchOK, Tracked, IoOK
<1>3. \A f \in Fds : (Leaving(f)' <=> Leaving(f)) /\ (Closing(f)' => Closing(f))
    BY DEF Leaving, Closing
<1>4. Counted'
    BY <1>3 DEF Counted, Held, One
<1>5. Entries'
  <2>1. \A f \in Fds : \A c \in Conns : sockets_[f] = c =>
           /\ handle[c] = f \/ (handle[c] = NULL /\ (Closing(f)' \/ refs[c] = 0))
           /\ Closing(f)' => handle[c] = NULL
    <3> SUFFICES ASSUME NEW f \in Fds, NEW c \in Conns, sockets_[f] = c
                 PROVE  /\ handle[c] = f \/ (handle[c] = NULL /\ (Closing(f)' \/ refs[c] = 0))
                        /\ Closing(f)' => handle[c] = NULL
        OBVIOUS
    <3>1. Closing(f) /\ ~ Closing(f)' => refs[c] = 0
      BY DEF Closing
    <3> QED
      BY <1>3, <3>1 DEF Entries
  <2> QED
    BY <2>1 DEF Entries
<1>6. Fresh'
  <2>1. \A c \in Conns : (Unmade(c)' <=> Unmade(c)) /\ (Outside(c)' <=> Outside(c))
    BY DEF Unmade, Outside
  <2>2. \A c \in Conns : Unmade(c) => main'.sock # c
    BY ServerAssumption DEF Fresh
  <2> QED
    BY <2>1, <2>2 DEF Fresh
<1>7. Room' /\ Listening'
    BY DEF Room, Listening, Crowded, Made
<1> QED
    BY <1>1, <1>2, <1>4, <1>5, <1>6, <1>7

\* A packet is popped; or all that are there are pulled, by a session that is there already or
\* is made for the only request.
LEMMA RequestsPop ==
    ASSUME ServerInv, NEW c \in Conns, recv_que_[c] # <<>>,
           recv_que_' = [recv_que_ EXCEPT ![c] = Tail(@)],
           UNCHANGED <<asked, wire, session>>,
           \A x \in Conns : ~ Asking(x),
           \A x \in Conns : Asking(x)' => x = c /\ Head(recv_que_[c]) = C_CONNECT
    PROVE  Requests'
<1> USE DEF ServerInv
<1> DEFINE q == recv_que_[c]
<1>1. /\ DOMAIN wire = Conns /\ DOMAIN recv_que_ = Conns /\ q \in Seq(Nat) /\ q # <<>>
    BY DEF Requests
<1>2. /\ Head(q) = q[1] /\ 1 \in DOMAIN q /\ Tail(q) \in Seq(Nat)
      /\ \A i \in DOMAIN Tail(q) : i + 1 \in DOMAIN q /\ Tail(q)[i] = q[i + 1] /\ i + 1 # 1
  <2> HIDE DEF q
  <2> QED
    BY ONLY <1>1, FirstAndRest
<1>3. /\ DOMAIN recv_que_' = Conns /\ recv_que_'[c] = Tail(q)
      /\ \A x \in Conns \ {c} : recv_que_'[x] = recv_que_[x]
    BY <1>1
<1>4. \A i \in DOMAIN Tail(q) : Tail(q)[i] # C_CONNECT
    BY <1>2 DEF Requests
<1>5. \A i \in DOMAIN wire[c] : wire[c][i] # C_CONNECT
    BY DEF Requests
<1>6. asked[c] # 0
    BY DEF Requests
<1>7. Asking(c)' => c \notin session
    BY <1>2 DEF Requests
<1> HIDE DEF q
<1>8. ASSUME NEW x \in Conns
      PROVE  /\ wire'[x] \in Seq(Nat) /\ recv_que_'[x] \in Seq(Nat)
             /\ \A i \in DOMAIN recv_que_'[x] : recv_que_'[x][i] = C_CONNECT =>
                   i = 1 /\ x \notin session /\ ~ Asking(x)'
             /\ \A i \in DOMAIN wire'[x] : wire'[x][i] = C_CONNECT =>
                   i = 1 /\ recv_que_'[x] = <<>> /\ x \notin session /\ ~ Asking(x)'
             /\ asked[x] = 0 => /\ wire'[x] = <<>> /\ recv_que_'[x] = <<>>
                                /\ x \notin session /\ ~ Asking(x)'
             /\ Asking(x)' => x \notin session
  <2>1. CASE x = c
    BY <1>2, <1>3, <1>4, <1>5, <1>6, <1>7, <2>1 DEF Requests
  <2>2. CASE x # c
    BY <1>3, <2>2 DEF Requests
  <2> QED
    BY <2>1, <2>2
<1> QED
    BY <1>1, <1>3, <1>8 DEF Requests

LEMMA RequestsPull ==
    ASSUME ServerInv, NEW c \in Conns, pull(c), UNCHANGED <<asked, wire>>,
           \A x \in Conns : ~ Asking(x)', session \subseteq session', session' \subseteq session \cup {c},
           c \in session' => c \in session \/ Asking(c)
    PROVE  Requests'
<1> USE DEF ServerInv
<1>1. /\ DOMAIN wire = Conns /\ DOMAIN recv_que_ = Conns
      /\ recv_que_' = [recv_que_ EXCEPT ![c] = <<>>]
    BY DEF Requests, pull
<1>2. /\ DOMAIN recv_que_' = Conns /\ recv_que_'[c] = <<>>
      /\ \A x \in Conns \ {c} : recv_que_'[x] = recv_que_[x]
    BY <1>1
<1>3. <<>> \in Seq(Nat) /\ DOMAIN <<>> = {}
    BY EmptySeq
<1>4. ASSUME NEW x \in Conns
      PROVE  /\ wire'[x] \in Seq(Nat) /\ recv_que_'[x] \in Seq(Nat)
             /\ \A i \in DOMAIN recv_que_'[x] : recv_que_'[x][i] = C_CONNECT =>
                   i = 1 /\ x \notin session' /\ ~ Asking(x)'
             /\ \A i \in DOMAIN wire'[x] : wire'[x][i] = C_CONNECT =>
                   i = 1 /\ recv_que_'[x] = <<>> /\ x \notin session' /\ ~ Asking(x)'
             /\ asked[x] = 0 => /\ wire'[x] = <<>> /\ recv_que_'[x] = <<>>
                                /\ x \notin session' /\ ~ Asking(x)'
             /\ Asking(x)' => x \notin session'
  <2>1. CASE x = c
    BY <1>2, <1>3, <2>1 DEF Requests
  <2>2. CASE x # c
    BY <1>2, <2>2 DEF Requests
  <2> QED
    BY <2>1, <2>2
<1> QED
    BY <1>1, <1>2, <1>4 DEF Requests

LEMMA UpdateStep == ASSUME ServerInv, update PROVE ServerInv'
<1> USE DEF ServerInv
<1>1. /\ UNCHANGED <<backlog, peer, asked, early, wire, handle, interest, edges, sockets_, refs,
                     pool, vec, loaded, torn>>
      /\ UNCHANGED <<ready_out, recv_que_, event_que_, del_socket_mutex_, session, answer, io>>
      /\ main.pc = "update" /\ main \in MainType
      /\ main' = [main EXCEPT !.pc = "pop", !.cnt = Len(event_que_)]
    BY DEF update, clients, kernel, objects, counts, sessions, TypeOK, MainType
<1>2. Len(event_que_) \in 0 .. QueueLength
  <2>1. Len(event_que_) \in Nat /\ Len(io.batch) \in Nat /\ QueueLength \in Nat
    BY ServerAssumption DEF TypeOK
  <2> QED
    BY <2>1 DEF Room
<1>3. main' \in MainType /\ main'.pc = "pop" /\ main'.sock = main.sock /\ main'.cnt = Len(event_que_)
    BY <1>1, <1>2 DEF MainType
<1>4. /\ ready_out' \in [Conns -> BOOLEAN] /\ loaded' \in Loads
      /\ answer' \in [Conns -> {"none", "queued", "sent", "lost"}]
    BY <1>1 DEF TypeOK, Loads
<1>5. main'.cnt <= Len(event_que_)
    BY <1>2, <1>3
<1>6. MainOK' /\ Requests'
    BY <1>1, <1>3 DEF MainOK, Handling, Requests, Asking
<1> HIDE DEF ServerInv
<1> QED
    BY <1>1, <1>3, <1>4, <1>5, <1>6, MainMoves

LEMMA PopStep == ASSUME ServerInv, pop PROVE ServerInv'
<1> USE DEF ServerInv
<1>1. /\ UNCHANGED <<backlog, peer, asked, early, wire, handle, interest, edges, sockets_, refs,
                     pool, vec, loaded, torn>>
      /\ UNCHANGED <<ready_out, recv_que_, del_socket_mutex_, session, answer, io>>
      /\ main.pc = "pop" /\ main \in MainType /\ main.cnt > 0
    BY DEF pop, clients, kernel, objects, counts, sessions, TypeOK, MainType
<1> DEFINE ev == Head(event_que_)
           sock == sockets_[ev.fd]
<1>2. /\ event_que_' = Tail(event_que_)
      /\ main' = IF sock \in {NULL, LISTEN} THEN [main EXCEPT !.cnt = @ - 1]
                 ELSE [pc |-> "recv", cnt |-> main.cnt - 1, ev |-> ev, sock |-> sock, rest |-> 0]
    BY DEF pop
<1>3. /\ event_que_ \in Seq(PollEvent) /\ Len(event_que_) \in Nat /\ Len(io.batch) \in Nat
      /\ main.cnt \in 1 .. QueueLength /\ main.cnt <= Len(event_que_) /\ QueueLength \in Nat
    BY <1>1, ServerAssumption DEF TypeOK, MainType, Room
<1>4. event_que_ # <<>>
    BY <1>3
<1>5. /\ ev \in PollEvent /\ Tail(event_que_) \in Seq(PollEvent)
      /\ Len(Tail(event_que_)) = Len(event_que_) - 1
    BY <1>3, <1>4, FirstAndRest
<1>6. ev.fd \in Descriptors /\ sock \in Sockets
    BY <1>5 DEF PollEvent, TypeOK
<1>7. sock \notin {NULL, LISTEN} => ev.fd \in Fds /\ sock \in Conns
    BY <1>6 DEF Entries, Descriptors, Sockets
<1>8. \A x \in Conns : Unmade(x) => sock # x
    BY <1>6, ServerAssumption DEF Fresh, Entries, Descriptors
<1>9. main.cnt - 1 \in 0 .. QueueLength
    BY <1>3
<1> HIDE DEF ev, sock
<1>10. /\ main' \in MainType /\ main'.cnt = main.cnt - 1 /\ main'.pc \in {"pop", "recv"}
       /\ main'.sock = main.sock \/ main'.sock = sock
       /\ main'.pc = "recv" => main'.sock \in Conns /\ main'.ev.fd \in Fds
  <2>1. CASE sock \in {NULL, LISTEN}
    <3>1. main' = [main EXCEPT !.cnt = main.cnt - 1]
      BY <1>2, <2>1
    <3> QED
      BY <1>1, <1>9, <3>1 DEF MainType
  <2>2. CASE sock \notin {NULL, LISTEN}
    <3>1. main' = [pc |-> "recv", cnt |-> main.cnt - 1, ev |-> ev, sock |-> sock, rest |-> 0]
      BY <1>2, <2>2
    <3> QED
      BY <1>5, <1>6, <1>7, <1>9, <2>2, <3>1 DEF MainType
  <2> QED
    BY <2>1, <2>2
<1>11. TypeOK'
    BY <1>1, <1>2, <1>5, <1>10 DEF TypeOK, MainType
<1>12. Locked' /\ AddingOK' /\ BatchOK' /\ Tracked' /\ IoOK'
    BY <1>1, <1>10 DEF Locked, AddingOK, Adding, BatchOK, Tracked, IoOK
<1>13. \A f \in Fds : (Leaving(f)' <=> Leaving(f)) /\ (Closing(f)' <=> Closing(f))
    BY <1>1, <1>10 DEF Leaving, Closing
<1>14. Entries' /\ Counted'
    BY <1>1, <1>10, <1>13 DEF Entries, Counted, Held, One
<1>15. Fresh'
    BY <1>1, <1>8, <1>10 DEF Fresh, Unmade, Outside
<1>16. MainOK' /\ Requests'
    BY <1>1, <1>10 DEF MainOK, Handling, Requests, Asking
<1>17. Room'
  <2>1. /\ Len(event_que_') = Len(event_que_) - 1
        /\ main'.cnt = main.cnt - 1 /\ io' = io
    BY <1>1, <1>2, <1>5, <1>10
  <2> QED
    BY <1>3, <2>1 DEF Room
<1>18. Listening'
    BY <1>1 DEF Listening, Crowded, Made
<1> QED
    BY <1>11, <1>12, <1>14, <1>15, <1>16, <1>17, <1>18

LEMMA RecvStep == ASSUME ServerInv, recv PROVE ServerInv'
<1> USE DEF ServerInv
<1> SUFFICES ASSUME NEW c \in Conns, main.sock = c PROVE ServerInv'
    BY DEF recv, MainOK, Handling
<1>1. /\ UNCHANGED <<backlog, peer, asked, early, wire, handle, interest, edges, sockets_, refs,
                     pool, vec, loaded, torn>>
      /\ UNCHANGED <<ready_out, event_que_, del_socket_mutex_, session, answer, io>>
      /\ main.pc = "recv" /\ main \in MainType
    BY DEF recv, clients, kernel, counts, TypeOK, MainType
<1>2. Len(recv_que_[c]) \in Nat
    BY DEF Requests
<1>3. /\ \/ main' = [main EXCEPT !.pc = "send"]
         \/ main' = [main EXCEPT !.pc = "packets", !.rest = Len(recv_que_[c])]
      /\ (c \in session /\ pull(c)) \/ UNCHANGED recv_que_
    BY DEF recv
<1>4. /\ main' \in MainType /\ main'.pc \in {"send", "packets"} /\ main'.sock = c
      /\ main'.ev = main.ev /\ main'.cnt = main.cnt
    BY <1>1, <1>2, <1>3 DEF MainType
<1>5. /\ ready_out' \in [Conns -> BOOLEAN] /\ loaded' \in Loads
      /\ answer' \in [Conns -> {"none", "queued", "sent", "lost"}]
    BY <1>1 DEF TypeOK, Loads
<1>6. main'.cnt <= Len(event_que_)
    BY <1>4 DEF Room
<1>7. MainOK'
    BY <1>1, <1>4 DEF MainOK, Handling
<1>8. Requests'
  <2>1. \A x \in Conns : ~ Asking(x) /\ ~ Asking(x)'
    BY <1>1, <1>4 DEF Asking
  <2>2. CASE UNCHANGED recv_que_
    BY <1>1, <2>1, <2>2 DEF Requests
  <2>3. CASE c \in session /\ pull(c)
    <3> HIDE DEF ServerInv
    <3> QED
      BY <1>1, <2>1, <2>3, RequestsPull
  <2> QED
    BY <1>3, <2>2, <2>3
<1> HIDE DEF ServerInv
<1> QED
    BY <1>1, <1>4, <1>5, <1>6, <1>7, <1>8, MainMoves

LEMMA HandleSocketRecvStep == ASSUME ServerInv, handleSocketRecv PROVE ServerInv'
<1> USE DEF ServerInv
<1> SUFFICES ASSUME NEW c \in Conns, main.sock = c PROVE ServerInv'
    BY DEF handleSocketRecv, MainOK, Handling
<1>1. /\ UNCHANGED <<backlog, peer, asked, early, wire, handle, interest, edges, sockets_, refs,
                     pool, vec, torn>>
      /\ UNCHANGED <<ready_out, event_que_, del_socket_mutex_, session, answer, io>>
      /\ main.pc = "packets" /\ main \in MainType /\ main.rest \in Nat
    BY DEF handleSocketRecv, clients, kernel, TypeOK, MainType
<1>2. \/ main' = [main EXCEPT !.pc = "send", !.rest = 0] /\ UNCHANGED <<recv_que_, loaded>>
      \/ /\ main.rest > 0 /\ recv_que_[c] # <<>> /\ Head(recv_que_[c]) = C_CONNECT
         /\ main' = [main EXCEPT !.pc = "pk_C_CONNECT", !.rest = main.rest - 1]
         /\ recv_que_' = [recv_que_ EXCEPT ![c] = Tail(@)] /\ load("main", c)
      \/ /\ main.rest > 0 /\ recv_que_[c] # <<>>
         /\ main' = [main EXCEPT !.rest = main.rest - 1]
         /\ recv_que_' = [recv_que_ EXCEPT ![c] = Tail(@)] /\ UNCHANGED loaded
    BY DEF handleSocketRecv
<1>3. /\ main' \in MainType /\ main'.pc \in {"send", "pk_C_CONNECT", "packets"} /\ main'.sock = c
      /\ main'.ev = main.ev /\ main'.cnt = main.cnt
      /\ main'.pc = "pk_C_CONNECT" => recv_que_[c] # <<>> /\ Head(recv_que_[c]) = C_CONNECT
  <2>1. main.rest > 0 => main.rest - 1 \in Nat
    BY <1>1
  <2>2. CASE main' = [main EXCEPT !.pc = "send", !.rest = 0]
    BY <1>1, <2>2 DEF MainType
  <2>3. CASE /\ main.rest > 0 /\ recv_que_[c] # <<>> /\ Head(recv_que_[c]) = C_CONNECT
             /\ main' = [main EXCEPT !.pc = "pk_C_CONNECT", !.rest = main.rest - 1]
    BY <1>1, <2>1, <2>3 DEF MainType
  <2>4. CASE main.rest > 0 /\ main' = [main EXCEPT !.rest = main.rest - 1]
    BY <1>1, <2>1, <2>4 DEF MainType
  <2> QED
    BY <1>2, <2>2, <2>3, <2>4
<1>4. loaded' \in Loads /\ loaded'["io"] = loaded["io"]
  <2>1. CASE UNCHANGED loaded
    BY <2>1 DEF TypeOK, Loads
  <2>2. CASE load("main", c)
    <3> HIDE DEF ServerInv
    <3>1. "io" \in {"main", "io"} \ {"main"}
      OBVIOUS
    <3> QED
      BY <2>2, <3>1, LoadEffect
  <2> QED
    BY <1>2, <2>1, <2>2
<1>5. /\ ready_out' \in [Conns -> BOOLEAN]
      /\ answer' \in [Conns -> {"none", "queued", "sent", "lost"}]
    BY <1>1 DEF TypeOK
<1>6. main'.cnt <= Len(event_que_)
    BY <1>3 DEF Room
<1>7. MainOK'
    BY <1>1, <1>3 DEF MainOK, Handling
<1>8. Requests'
  <2>1. /\ \A x \in Conns : ~ Asking(x)
        /\ \A x \in Conns : Asking(x)' => x = c /\ main'.pc = "pk_C_CONNECT"
    BY <1>1, <1>3 DEF Asking
  <2>2. CASE UNCHANGED recv_que_ /\ main'.pc # "pk_C_CONNECT"
    <3>1. \A x \in Conns : ~ Asking(x)'
      BY <2>1, <2>2
    <3> QED
      BY <1>1, <2>1, <2>2, <3>1 DEF Requests
  <2>3. CASE recv_que_[c] # <<>> /\ recv_que_' = [recv_que_ EXCEPT ![c] = Tail(@)]
    <3>1. \A x \in Conns : Asking(x)' => x = c /\ Head(recv_que_[c]) = C_CONNECT
      BY <1>3, <2>1
    <3> HIDE DEF ServerInv
    <3> QED
      BY <1>1, <2>1, <2>3, <3>1, RequestsPop
  <2>4. CASE main' = [main EXCEPT !.pc = "send", !.rest = 0] /\ UNCHANGED recv_que_
    <3>1. main'.pc # "pk_C_CONNECT"
      BY <1>1, <2>4 DEF MainType
    <3> QED
      BY <2>2, <2>4, <3>1
  <2> QED
    BY <1>2, <2>3, <2>4
<1> HIDE DEF ServerInv
<1> QED
    BY <1>1, <1>3, <1>4, <1>5, <1>6, <1>7, <1>8, MainMoves

LEMMA AskStep == ASSUME ServerInv, pk_C_CONNECT PROVE ServerInv'
<1> USE DEF ServerInv
<1> SUFFICES ASSUME NEW c \in Conns, main.sock = c PROVE ServerInv'
    BY DEF pk_C_CONNECT, MainOK, Handling
<1> DEFINE n == loaded["main"] + 1
<1>1. /\ UNCHANGED <<backlog, peer, asked, early, wire, handle, interest, edges, sockets_, pool, vec,
                     ready_out, event_que_, del_socket_mutex_, answer, io>>
      /\ main.pc = "pk_C_CONNECT" /\ main \in MainType /\ store("main", c, n) /\ n \in Nat
      /\ session' = session \cup {c} /\ pull(c) /\ refs[c] # 0
      /\ main' = [main EXCEPT !.pc = "S_CONNECT"]
    BY DEF pk_C_CONNECT, retain, Deleted, clients, kernel, TypeOK, MainType
<1>2. n = refs[c] + 1 \/ refs[c] # loaded["main"]
    OBVIOUS
<1> HIDE DEF n
<1>3. /\ refs' \in [Conns -> Nat] /\ refs'[c] = n
      /\ \A x \in Conns \ {c} : refs'[x] = refs[x]
      /\ torn' \subseteq Conns /\ torn \subseteq torn'
      /\ (c \notin torn' => refs[c] = loaded["main"])
      /\ loaded' \in Loads /\ loaded'["io"] = loaded["io"]
  <2>1. "io" \in {"main", "io"} \ {"main"} /\ "main" \in {"main", "io"}
    OBVIOUS
  <2> HIDE DEF ServerInv
  <2> QED
    BY <1>1, <2>1, StoreEffect
<1>4. /\ main' \in MainType /\ main'.pc = "S_CONNECT" /\ main'.sock = c /\ main'.ev = main.ev
      /\ main'.cnt = main.cnt
    BY <1>1 DEF MainType
<1>5. c \notin session /\ Asking(c) /\ \A x \in Conns : ~ Asking(x)'
    BY <1>1, <1>4 DEF Requests, Asking
<1>6. ~ Unmade(c)
    BY <1>1 DEF Fresh
<1>7. \A f \in Fds : (Leaving(f)' <=> Leaving(f)) /\ (Closing(f)' <=> Closing(f))
    BY <1>1, <1>4 DEF Leaving, Closing
<1>8. \A x \in Conns : Held(x)' <=> Held(x)
    BY <1>1, <1>7 DEF Held
<1>9. Counted'
  <2>1. c \notin torn' => refs'[c] = refs[c] + 1
    BY <1>2, <1>3
  <2>2. One(c \in session') = 1 /\ One(c \in session) = 0
    BY <1>1, <1>5 DEF One
  <2>3. One(c \in pool') = One(c \in pool) /\ One(Held(c)') = One(Held(c))
    BY <1>1, <1>8 DEF One
  <2>4. One(c \in pool) \in Nat /\ One(Held(c)) \in Nat
    BY DEF One
  <2>5. One(c \in pool') + One(c \in session') + One(Held(c)')
          = One(c \in pool) + One(c \in session) + One(Held(c)) + 1
    BY <2>2, <2>3, <2>4
  <2> HIDE DEF ServerInv
  <2> QED
    BY <1>1, <1>3, <1>8, <2>1, <2>5, OneMore
<1>10. TypeOK'
    BY <1>1, <1>3, <1>4 DEF TypeOK, MainType, Loads
<1>11. Entries'
  <2>1. \A f \in Fds : \A x \in Conns : sockets_[f] = x =>
           handle[x] = f \/ (handle[x] = NULL /\ (Closing(f)' \/ refs'[x] = 0))
    <3> SUFFICES ASSUME NEW f \in Fds, NEW x \in Conns, sockets_[f] = x
                 PROVE  handle[x] = f \/ (handle[x] = NULL /\ (Closing(f) \/ refs'[x] = 0))
        BY <1>7
    <3>1. CASE x = c
      BY <1>1, <3>1 DEF Entries
    <3>2. CASE x # c
      BY <1>3, <3>2 DEF Entries
    <3> QED
      BY <3>1, <3>2
  <2> QED
    BY <1>1, <1>4, <1>7, <2>1 DEF Entries
<1>12. Fresh'
  <2>1. \A x \in Conns : (Unmade(x)' <=> Unmade(x)) /\ (Outside(x)' <=> Outside(x))
    BY <1>1 DEF Unmade, Outside
  <2>2. \A x \in Conns : Unmade(x) => refs'[x] = refs[x] /\ x \notin session'
    BY <1>1, <1>3, <1>6 DEF Fresh
  <2>3. main'.sock = main.sock
    BY <1>4
  <2> QED
    BY <1>1, <2>1, <2>2, <2>3 DEF Fresh
<1>13. AddingOK'
  <2>1. refs[io.sock] = 0 => io.sock # c
    BY <1>1
  <2> QED
    BY <1>1, <1>3, <2>1 DEF AddingOK, Adding
<1>14. Locked' /\ BatchOK' /\ IoOK' /\ MainOK' /\ Tracked'
    BY <1>1, <1>3, <1>4 DEF Locked, BatchOK, IoOK, MainOK, Handling, Tracked
<1>15. Room' /\ Listening'
    BY <1>1, <1>4 DEF Room, Listening, Crowded, Made
<1>16. Requests'
  <2> HIDE DEF ServerInv
  <2>1. session \subseteq session' /\ session' \subseteq session \cup {c}
    BY <1>1
  <2> QED
    BY <1>1, <1>5, <2>1, RequestsPull
<1> QED
    BY <1>9, <1>10, <1>11, <1>12, <1>13, <1>14, <1>15, <1>16

LEMMA AnswerStep == ASSUME ServerInv, sendS_CONNECT \/ send PROVE ServerInv'
<1> USE DEF ServerInv
<1> SUFFICES ASSUME NEW c \in Conns, main.sock = c PROVE ServerInv'
    BY DEF sendS_CONNECT, send, MainOK, Handling
<1>1. /\ UNCHANGED <<backlog, peer, asked, early, wire, handle, interest, edges, sockets_, refs,
                     pool, vec, loaded, torn, event_que_, del_socket_mutex_, session, io>>
      /\ UNCHANGED recv_que_
      /\ main.pc \in {"S_CONNECT", "send"} /\ main \in MainType
    BY DEF sendS_CONNECT, send, clients, kernel, objects, counts, TypeOK, MainType
<1>2. main' \in {[main EXCEPT !.pc = "packets"], [main EXCEPT !.pc = "delSocket"], nextPoll}
    BY DEF sendS_CONNECT, send
<1>3. /\ main' \in MainType /\ main'.cnt = main.cnt /\ main'.pc \in {"packets", "delSocket", "pop"}
      /\ main'.sock = main.sock \/ main'.sock = NULL
      /\ main'.pc # "pop" => main'.sock = main.sock /\ main'.ev = main.ev
    BY <1>1, <1>2, NoEventIsEvent DEF MainType, nextPoll, Sockets
<1>4. ready_out' \in [Conns -> BOOLEAN]
    BY DEF sendS_CONNECT, send, objects, TypeOK
<1>5. answer' \in [Conns -> {"none", "queued", "sent", "lost"}]
  <2>1. answer \in [Conns -> {"none", "queued", "sent", "lost"}]
    BY DEF TypeOK
  <2>2. \E a \in {"none", "queued", "sent", "lost"} : answer' = [answer EXCEPT ![c] = a]
    <3>1. CASE sendS_CONNECT
      <4> DEFINE a == CASE handle[c] = NULL -> "lost"
                        [] handle[c] # NULL /\ ~ ready_out[c] -> "queued"
                        [] handle[c] # NULL /\ ready_out[c] ->
                             IF peer[c] = "up" THEN "sent" ELSE "lost"
      <4>1. answer' = [answer EXCEPT ![c] = a]
        BY <3>1 DEF sendS_CONNECT
      <4>2. /\ handle[c] = NULL => a = "lost"
            /\ handle[c] # NULL /\ ~ ready_out[c] => a = "queued"
            /\ handle[c] # NULL /\ ready_out[c] => a \in {"sent", "lost"}
        BY DEF TypeOK
      <4>3. a \in {"none", "queued", "sent", "lost"}
        BY <4>2
      <4> HIDE DEF a
      <4> QED
        BY <4>1, <4>3
    <3>2. CASE send
      <4>1. \E p, q \in BOOLEAN : answer' = [answer EXCEPT ![c] = IF p THEN "lost"
                                                           ELSE IF q THEN "sent" ELSE @]
        BY <3>2 DEF send
      <4> QED
        BY <2>1, <4>1
    <3> QED
      BY <3>1, <3>2
  <2> QED
    BY <2>1, <2>2
<1>6. loaded' \in Loads /\ loaded'["io"] = loaded["io"] /\ main'.cnt <= Len(event_que_)
    BY <1>1, <1>3 DEF TypeOK, Loads, Room
<1>7. MainOK' /\ Requests'
    BY <1>1, <1>3 DEF MainOK, Handling, Requests, Asking
<1> HIDE DEF ServerInv
<1> QED
    BY <1>1, <1>3, <1>4, <1>5, <1>6, <1>7, MainMoves

LEMMA MainDelSocketStep == ASSUME ServerInv, mainDelSocket PROVE ServerInv'
<1> USE DEF ServerInv
<1> DEFINE f == main.ev.fd
<1>1. /\ UNCHANGED <<backlog, peer, asked, early, wire, sockets_, refs, pool, vec, torn,
                     ready_out, recv_que_, event_que_, session, answer, io>>
      /\ delSocket("main", f) /\ main.pc = "delSocket" /\ main \in MainType /\ f \in Fds
    BY DEF mainDelSocket, clients, sessions, TypeOK, MainType, MainOK, Handling
<1>2. /\ f \in Descriptors /\ f # LISTEN
      /\ sockets_[f] = NULL \/ sockets_[f] \in Conns
    BY <1>1, ServerAssumption DEF Descriptors, Entries, TypeOK, Sockets
<1>3. /\ main' \in MainType /\ main'.cnt = main.cnt
      /\ main'.sock = main.sock \/ main'.sock = NULL
      /\ sockets_[f] = NULL => main'.pc = "pop" /\ main'.sock = NULL
      /\ sockets_[f] # NULL => /\ main'.pc = "release" /\ main'.ev = main.ev
                               /\ main'.sock = main.sock
  <2>1. CASE sockets_[f] = NULL
    <3>1. main' = nextPoll
      BY <2>1 DEF mainDelSocket
    <3> QED
      BY <1>1, <2>1, <3>1, NoEventIsEvent DEF MainType, nextPoll, Sockets
  <2>2. CASE sockets_[f] # NULL
    <3>1. main' = [main EXCEPT !.pc = "release"]
      BY <1>2, <2>2 DEF mainDelSocket, delSocketReleases
    <3> QED
      BY <1>1, <2>2, <3>1 DEF MainType
  <2> QED
    BY <2>1, <2>2
<1> HIDE DEF f
<1>4. /\ handle' \in [Conns -> Fds \cup {NULL}]
      /\ del_socket_mutex_' = IF sockets_[f] = NULL THEN NULL ELSE "main"
      /\ edges' \subseteq interest' /\ interest' \subseteq Descriptors /\ loaded' \in Loads
      /\ loaded'["io"] = loaded["io"] /\ (sockets_[f] \in Conns => loaded'["main"] # 0)
      /\ main.pc \notin {"release", "delSocketEnds"} /\ io.pc \notin {"release", "delSocketEnds"}
      /\ \A x \in Conns : sockets_[f] # x => handle'[x] = handle[x]
    BY <1>1, <1>2, DelSocketEffect
<1>5. TypeOK'
    BY <1>1, <1>3, <1>4 DEF TypeOK, MainType, Loads
<1>6. Locked'
    BY <1>1, <1>2, <1>3, <1>4 DEF Locked
<1>7. main'.pc = "release" => main'.ev.fd = f
    BY <1>2, <1>3 DEF f
<1>8. Counted' /\ Entries' /\ Fresh' /\ Tracked'
  <2>1. \A g \in Fds : ~ Leaving(g)'
    BY <1>1, <1>3, <1>4 DEF Leaving, Locked
  <2>2. \A g \in Fds : Closing(g)' <=> g = f /\ sockets_[f] # NULL
    BY <1>1, <1>3, <1>4, <1>7 DEF Closing
  <2>3. \A x \in Conns : Unmade(x)' => Unmade(x)
    BY <1>1 DEF Unmade, Outside
  <2>4. main'.pc \in {"release", "delSocketEnds"} => sockets_[main'.ev.fd] # NULL
    BY <1>3, <1>7
  <2>5. io'.pc = io.pc /\ io'.sock = io.sock /\ io'.pc \notin {"release", "delSocketEnds"}
    BY <1>1, <1>4
  <2> HIDE DEF ServerInv
  <2> QED
    BY <1>1, <1>2, <1>3, <2>1, <2>2, <2>3, <2>4, <2>5, DelSocketKeeps
<1>9. AddingOK'
  <2>1. Adding => handle'[io.sock] = handle[io.sock]
    BY <1>1, <1>4 DEF AddingOK
  <2> QED
    BY <1>1, <2>1 DEF AddingOK, Adding
<1>10. BatchOK' /\ Room' /\ Listening' /\ IoOK'
    BY <1>1, <1>3, <1>4 DEF BatchOK, Room, Listening, Crowded, Made, IoOK
<1>11. MainOK' /\ Requests'
    BY <1>1, <1>2, <1>3, <1>4, <1>7 DEF MainOK, Handling, Requests, Asking
<1> QED
    BY <1>5, <1>6, <1>8, <1>9, <1>10, <1>11

LEMMA MainReleaseStep == ASSUME ServerInv, mainRelease PROVE ServerInv'
<1> USE DEF ServerInv
<1> DEFINE f == main.ev.fd
           c == sockets_[f]
<1>1. /\ UNCHANGED <<backlog, peer, asked, early, wire, sockets_, pool, vec, ready_out, recv_que_,
                     event_que_, del_socket_mutex_, session, answer, io>>
      /\ main.pc = "release" /\ main \in MainType /\ release("main", c)
      /\ main' = [main EXCEPT !.pc = "delSocketEnds"]
    BY DEF mainRelease, clients, sessions, TypeOK, MainType
<1>2. /\ main' \in MainType /\ main'.pc = "delSocketEnds" /\ main'.cnt = main.cnt
      /\ main'.sock = main.sock /\ main'.ev = main.ev
    BY <1>1 DEF MainType
<1>3. /\ f \in Fds /\ c \in Conns /\ loaded["main"] # 0 /\ Closing(f)
      /\ io.pc \notin {"release", "delSocketEnds"} /\ f # LISTEN
    BY <1>1, ServerAssumption
    DEF MainOK, Handling, Entries, TypeOK, Sockets, Descriptors, Closing, Locked
<1>4. /\ \A g \in Fds : ~ Leaving(g) /\ (Leaving(g)' <=> g = f) /\ (Closing(g)' <=> Closing(g))
      /\ \A x \in Conns : (Unmade(x)' <=> Unmade(x)) /\ (Outside(x)' <=> Outside(x))
    BY <1>1, <1>2, <1>3 DEF Leaving, Closing, Unmade, Outside, Locked
<1>5. /\ refs' \in [Conns -> Nat] /\ torn' \subseteq Conns /\ loaded' \in Loads
      /\ interest' \subseteq Descriptors /\ edges' \subseteq interest'
      /\ loaded'["io"] = loaded["io"]
  <2> HIDE DEF ServerInv, f, c
  <2> QED
    BY <1>1, <1>3, ReleaseEffect
<1>6. /\ Counted' /\ Entries' /\ Fresh' /\ Tracked'
      /\ handle' = handle /\ \A x \in Conns \ {c} : refs'[x] = refs[x]
  <2>1. c # NULL
    BY <1>3, ServerAssumption
  <2>2. sockets_[main'.ev.fd] # NULL
    BY <1>2, <2>1
  <2>3. io'.pc \notin {"release", "delSocketEnds"}
    BY <1>1, <1>3
  <2> HIDE DEF ServerInv, f, c
  <2>4. c = sockets_[f]
    BY DEF c
  <2> QED
    BY <1>1, <1>2, <1>3, <1>4, <2>2, <2>3, <2>4, DelSocketReleases
<1>7. AddingOK'
  <2>1. Adding => io.sock # c
    BY <1>3 DEF AddingOK
  <2> HIDE DEF c
  <2>2. Adding /\ refs[io.sock] = 0 => refs'[io.sock] = 0
    BY <1>6, <2>1 DEF AddingOK
  <2> QED
    BY <1>1, <1>6, <2>2 DEF AddingOK, Adding
<1> HIDE DEF c
<1>8. TypeOK'
    BY <1>1, <1>2, <1>5, <1>6 DEF TypeOK, MainType, Loads
<1>9. Locked' /\ Room' /\ BatchOK' /\ IoOK'
    BY <1>1, <1>2, <1>3, <1>5 DEF Locked, Room, BatchOK, IoOK
<1>10. MainOK' /\ Requests'
    BY <1>1, <1>2, <1>5 DEF MainOK, Handling, Requests, Asking
<1>11. Listening'
    BY <1>1, <1>2 DEF Listening, Crowded, Made
<1> QED
    BY <1>6, <1>7, <1>8, <1>9, <1>10, <1>11

LEMMA MainDelSocketEndsStep == ASSUME ServerInv, mainDelSocketEnds PROVE ServerInv'
<1> USE DEF ServerInv
<1> DEFINE f == main.ev.fd
<1>1. /\ UNCHANGED <<backlog, peer, asked, early, wire, handle, interest, edges, refs, pool, vec,
                     loaded, torn, ready_out>>
      /\ UNCHANGED <<recv_que_, event_que_, session, answer, io>>
      /\ main.pc = "delSocketEnds" /\ main \in MainType /\ delSocketEnds(f) /\ main' = nextPoll
    BY DEF mainDelSocketEnds, clients, kernel, objects, counts, sessions, TypeOK, MainType
<1>2. main' \in MainType /\ main'.pc = "pop" /\ main'.cnt = main.cnt /\ main'.sock = NULL
    BY <1>1, NoEventIsEvent DEF MainType, nextPoll, Sockets
<1>3. /\ f \in Fds /\ f \in Descriptors /\ f # LISTEN
      /\ io.pc \notin {"release", "delSocketEnds", "delOldRelease", "delOldEnds"}
    BY <1>1, ServerAssumption DEF MainOK, Handling, Descriptors, Locked
<1>4. /\ \A g \in Fds : ~ Leaving(g)' /\ ~ Closing(g)'
      /\ \A g \in Fds : (Leaving(g) <=> g = f) /\ (Closing(g) <=> g = f)
      /\ \A x \in Conns : (Unmade(x)' => Unmade(x)) /\ (Outside(x)' <=> Outside(x))
    BY <1>1, <1>2, <1>3 DEF Leaving, Closing, Unmade, Outside
<1>5. /\ Counted' /\ Entries' /\ Fresh' /\ Tracked'
      /\ sockets_' \in [Descriptors -> Sockets]
      /\ \A g \in Descriptors : sockets_'[g] = (IF g = f THEN NULL ELSE sockets_[g])
      /\ del_socket_mutex_' = NULL
  <2>1. /\ main'.sock = NULL /\ io'.sock = io.sock /\ io'.pc = io.pc
        /\ main'.pc \notin {"release", "delSocketEnds"} /\ io'.pc \notin {"release", "delSocketEnds"}
    BY <1>1, <1>2, <1>3
  <2> HIDE DEF ServerInv, f
  <2> QED
    BY <1>1, <1>3, <1>4, <2>1, DelSocketEndsEffect
<1>6. TypeOK'
    BY <1>1, <1>2, <1>5 DEF TypeOK, MainType
<1>7. Locked' /\ Room' /\ BatchOK'
    BY <1>1, <1>2, <1>3 DEF Locked, Room, BatchOK
<1>8. LISTEN \in Descriptors /\ io.ev.fd \in Descriptors /\ \A g \in Fds : g \in Descriptors
    BY DEF Descriptors, TypeOK, PollEvent
<1>9. AddingOK' /\ IoOK'
  <2>1. \A g \in Descriptors : sockets_'[g] = sockets_[g] \/ sockets_'[g] = NULL
    BY <1>5
  <2> QED
    BY <1>1, <1>8, <2>1, ServerAssumption DEF AddingOK, Adding, IoOK
<1>10. MainOK' /\ Requests'
    BY <1>1, <1>2 DEF MainOK, Handling, Requests, Asking
<1>11. Listening'
    BY <1>1, <1>3, <1>5, <1>8 DEF Listening, Crowded, Made
<1> QED
    BY <1>5, <1>6, <1>7, <1>9, <1>10, <1>11

LEMMA SpareTimeStep == ASSUME ServerInv, spareTime PROVE ServerInv'
<1> USE DEF ServerInv
<1>1. /\ UNCHANGED <<backlog, peer, asked, early, wire, handle, interest, edges, sockets_, refs,
                     loaded, ready_out>>
      /\ UNCHANGED <<recv_que_, event_que_, del_socket_mutex_, session, answer, io>>
      /\ main.pc = "pop" /\ main \in MainType /\ vec = {}
    BY DEF spareTime, clients, kernel, sessions, TypeOK, MainType, MainOK
<1>2. /\ main' \in {[main EXCEPT !.pc = "update"], [main EXCEPT !.pc = "clear"]}
      /\ torn \subseteq torn' /\ torn' \subseteq torn \cup {x \in {io.sock} : io.pc = "addRef"}
      /\ \/ pool' = pool /\ vec' = vec
         \/ pool' = {} /\ vec' = pool /\ main' = [main EXCEPT !.pc = "clear"]
    BY DEF spareTime
<1>3. /\ main' \in MainType /\ main'.pc \in {"update", "clear"} /\ main'.sock = main.sock
      /\ main'.ev = main.ev /\ main'.cnt = main.cnt
      /\ vec' = {} \/ main'.pc = "clear"
    BY <1>1, <1>2 DEF MainType
<1>4. /\ torn' \subseteq Conns /\ pool' \subseteq Conns /\ vec' \subseteq Conns
      /\ \A x \in Conns : One(x \in pool') + One(x \in vec') = One(x \in pool) + One(x \in vec)
      /\ \A x \in Conns : x \in pool' \/ x \in vec' => x \in pool
    BY <1>1, <1>2 DEF AddingOK, Adding, TypeOK, One
<1>5. TypeOK'
    BY <1>1, <1>3, <1>4 DEF TypeOK, MainType
<1>6. Locked' /\ AddingOK' /\ BatchOK' /\ Tracked' /\ IoOK'
    BY <1>1, <1>3 DEF Locked, AddingOK, Adding, BatchOK, Tracked, IoOK
<1>7. \A f \in Fds : (Leaving(f)' <=> Leaving(f)) /\ (Closing(f)' <=> Closing(f))
    BY <1>1, <1>3 DEF Leaving, Closing
<1>8. Counted'
  <2> SUFFICES ASSUME NEW x \in Conns, x \notin torn'
               PROVE  refs[x] = One(x \in pool') + One(x \in vec') + One(x \in session)
                                + One(Held(x)')
      BY <1>1 DEF Counted
  <2>1. refs[x] = One(x \in pool) + One(x \in vec) + One(x \in session) + One(Held(x))
    BY <1>2 DEF Counted
  <2>2. Held(x)' <=> Held(x)
    BY <1>1, <1>7 DEF Held
  <2>3. One(Held(x)') = One(Held(x))
    BY <2>2 DEF One
  <2> QED
    BY <1>4, <2>1, <2>3
<1>9. Entries'
    BY <1>1, <1>3, <1>7 DEF Entries
<1>10. Fresh'
  <2>1. \A x \in Conns : (Unmade(x)' <=> Unmade(x)) /\ (Outside(x)' <=> Outside(x))
    BY <1>1 DEF Unmade, Outside
  <2> QED
    BY <1>1, <1>3, <1>4, <2>1 DEF Fresh
<1>11. MainOK' /\ Requests' /\ Room' /\ Listening'
    BY <1>1, <1>3 DEF MainOK, Handling, Requests, Asking, Room, Listening, Crowded, Made
<1> QED
    BY <1>5, <1>6, <1>8, <1>9, <1>10, <1>11

LEMMA ClearStep == ASSUME ServerInv, clear PROVE ServerInv'
<1> USE DEF ServerInv
<1>1. /\ UNCHANGED <<backlog, peer, asked, early, wire, handle, interest, edges, sockets_, refs,
                     pool, vec, torn, ready_out>>
      /\ UNCHANGED <<recv_que_, event_que_, del_socket_mutex_, session, answer, io>>
      /\ main.pc = "clear" /\ main \in MainType
    BY DEF clear, clients, kernel, sessions, TypeOK, MainType
<1>2. \/ vec = {} /\ main' = [main EXCEPT !.pc = "update"] /\ UNCHANGED loaded
      \/ \E c \in vec : /\ refs[c] # 0 /\ load("main", c)
                        /\ main' = [main EXCEPT !.pc = "clearing", !.sock = c]
    BY DEF clear, Deleted, TypeOK
<1>3. /\ main' \in MainType /\ main'.pc \in {"update", "clearing"} /\ main'.cnt = main.cnt
      /\ main'.sock = main.sock \/ main'.sock \in vec
      /\ main'.pc = "clearing" => main'.sock \in vec /\ loaded'["main"] # 0
      /\ main'.pc = "update" => vec = {}
      /\ loaded' \in Loads /\ loaded'["io"] = loaded["io"]
  <2>1. CASE vec = {} /\ main' = [main EXCEPT !.pc = "update"] /\ UNCHANGED loaded
    BY <1>1, <2>1 DEF MainType, TypeOK, Loads
  <2>2. ASSUME NEW c \in vec, refs[c] # 0, load("main", c),
               main' = [main EXCEPT !.pc = "clearing", !.sock = c]
        PROVE  /\ main' \in MainType /\ main'.pc = "clearing" /\ main'.cnt = main.cnt
               /\ main'.sock \in vec /\ loaded'["main"] # 0
               /\ loaded' \in Loads /\ loaded'["io"] = loaded["io"]
    <3>1. c \in Conns /\ c \in Sockets /\ "io" \in {"main", "io"} \ {"main"}
      BY DEF TypeOK, Sockets
    <3>2. loaded'["main"] = refs[c] /\ loaded' \in Loads /\ loaded'["io"] = loaded["io"]
      BY <2>2, <3>1, LoadEffect
    <3> QED
      BY <1>1, <2>2, <3>1, <3>2 DEF MainType
  <2> QED
    BY <1>2, <2>1, <2>2
<1>4. /\ ready_out' \in [Conns -> BOOLEAN]
      /\ answer' \in [Conns -> {"none", "queued", "sent", "lost"}]
      /\ main'.cnt <= Len(event_que_)
    BY <1>1, <1>3 DEF TypeOK, Room
<1>5. MainOK' /\ Requests'
    BY <1>1, <1>3 DEF MainOK, Handling, Requests, Asking
<1> HIDE DEF ServerInv
<1> QED
    BY <1>1, <1>3, <1>4, <1>5, MainMoves

\* The pool gives up one of its references, and closes the Socket when that was the last.
LEMMA ClearingStep == ASSUME ServerInv, clearing PROVE ServerInv'
<1> USE DEF ServerInv
<1> SUFFICES ASSUME NEW c \in Conns, main.sock = c, c \in vec, loaded["main"] # 0
             PROVE  ServerInv'
    BY DEF clearing, MainOK, TypeOK
<1>1. /\ UNCHANGED <<backlog, peer, asked, early, wire, sockets_, pool, ready_out, recv_que_>>
      /\ UNCHANGED <<event_que_, del_socket_mutex_, session, answer, io>>
      /\ main.pc = "clearing" /\ main \in MainType /\ release("main", c) /\ vec' = vec \ {c}
      /\ main' = [main EXCEPT !.pc = "clear", !.sock = NULL]
    BY DEF clearing, clients, sessions, TypeOK, MainType
<1>2. main' \in MainType /\ main'.pc = "clear" /\ main'.cnt = main.cnt /\ main'.sock = NULL
    BY <1>1 DEF MainType, Sockets
<1>3. /\ refs' \in [Conns -> Nat]
      /\ \A x \in Conns \ {c} : refs'[x] = refs[x] /\ handle'[x] = handle[x]
      /\ torn' \subseteq Conns /\ torn \subseteq torn' /\ (c \notin torn' => refs'[c] = refs[c] - 1)
      /\ loaded' \in Loads /\ loaded'["io"] = loaded["io"]
      /\ handle' \in [Conns -> Fds \cup {NULL}]
      /\ handle'[c] = handle[c] \/ (handle'[c] = NULL /\ refs'[c] = 0)
      /\ interest' \subseteq Descriptors /\ edges' \subseteq interest'
      /\ \A x \in Conns : handle'[x] # NULL /\ handle[x] \in interest => handle[x] \in interest'
  <2>1. "io" \in {"main", "io"} \ {"main"}
    OBVIOUS
  <2> HIDE DEF ServerInv
  <2> QED
    BY <1>1, <2>1, ReleaseEffect
<1>4. \A x \in Conns : handle'[x] = handle[x] \/ (handle'[x] = NULL /\ x = c /\ refs'[c] = 0)
    BY <1>3
<1>5. \A f \in Fds : (Leaving(f)' <=> Leaving(f)) /\ (Closing(f)' <=> Closing(f))
    BY <1>1, <1>2 DEF Leaving, Closing, Locked
<1>6. ~ Unmade(c)
    BY DEF Fresh
<1>7. Counted'
  <2>1. \A x \in Conns : Held(x)' <=> Held(x)
    BY <1>1, <1>5 DEF Held
  <2>2. c \notin vec' /\ \A x \in Conns \ {c} : x \in vec' <=> x \in vec
    BY <1>1
  <2> HIDE DEF ServerInv
  <2> QED
    BY <1>1, <1>3, <2>1, <2>2, OneLess
<1>8. TypeOK'
    BY <1>1, <1>2, <1>3 DEF TypeOK, MainType, Loads
<1>9. Entries'
  <2>1. \A f \in Fds : \A x \in Conns : sockets_[f] = x =>
           /\ handle'[x] = f \/ (handle'[x] = NULL /\ (Closing(f)' \/ refs'[x] = 0))
           /\ Closing(f)' => handle'[x] = NULL
    <3> SUFFICES ASSUME NEW f \in Fds, NEW x \in Conns, sockets_[f] = x
                 PROVE  /\ handle'[x] = f \/ (handle'[x] = NULL /\ (Closing(f) \/ refs'[x] = 0))
                        /\ Closing(f) => handle'[x] = NULL
        BY <1>5
    <3>1. CASE handle'[x] = NULL /\ x = c /\ refs'[c] = 0
      BY <3>1
    <3>2. CASE handle'[x] = handle[x] /\ x # c
      <4>1. refs'[x] = refs[x]
        BY <1>3, <3>2
      <4> QED
        BY <3>2, <4>1 DEF Entries
    <3>3. CASE handle'[x] = handle[x] /\ x = c /\ refs'[c] # 0
      <4>1. refs[x] # 0
        BY <3>3 DEF clearing, Deleted
      <4> QED
        BY <3>3, <4>1 DEF Entries
    <3>4. CASE handle'[x] = handle[x] /\ x = c /\ refs'[c] = 0
      <4>1. refs[x] # 0
        BY <3>4 DEF clearing, Deleted
      <4> QED
        BY <3>4, <4>1 DEF Entries
    <3> QED
      BY <1>4, <3>1, <3>2, <3>3, <3>4
  <2>2. \A x, y \in Conns : handle'[x] # NULL /\ handle'[x] = handle'[y] => x = y
    BY <1>4 DEF Entries
  <2> QED
    BY <1>1, <1>2, <2>1, <2>2 DEF Entries
<1>10. Fresh'
  <2>1. \A x \in Conns : (Unmade(x)' <=> Unmade(x)) /\ (Outside(x)' <=> Outside(x))
    BY <1>1 DEF Unmade, Outside
  <2>2. \A x \in Conns : Unmade(x) => refs'[x] = refs[x] /\ x \notin vec' /\ main'.sock # x
    BY <1>1, <1>2, <1>3, <1>6, ServerAssumption DEF Fresh
  <2>3. \A x \in Conns : Outside(x) => handle'[x] = NULL
    BY <1>4 DEF Fresh
  <2> QED
    BY <1>1, <2>1, <2>2, <2>3 DEF Fresh
<1>11. AddingOK'
  <2> SUFFICES ASSUME Adding, NEW a \in Conns, io.sock = a PROVE AddingOK'
      BY <1>1 DEF AddingOK, Adding
  <2>1. a = c => io.pc = "init"
    BY <1>6 DEF Unmade, Adding
  <2>2. \/ handle'[a] = handle[a]
        \/ io.pc = "init" /\ handle'[a] = NULL /\ refs'[a] = 0
    BY <1>4, <2>1
  <2>3. refs[a] = 0 => refs'[a] = 0
    <3>1. refs[c] # 0
      BY DEF clearing, Deleted
    <3> QED
      BY <1>3, <3>1
  <2> QED
    BY <1>1, <2>2, <2>3 DEF AddingOK, Adding
<1>12. Tracked'
    BY <1>1, <1>3, <1>4 DEF Tracked
<1>13. Locked' /\ BatchOK' /\ IoOK' /\ MainOK' /\ Requests'
    BY <1>1, <1>2, <1>3 DEF Locked, BatchOK, IoOK, MainOK, Handling, Requests, Asking
<1>14. Room' /\ Listening'
    BY <1>1, <1>2 DEF Room, Listening, Crowded, Made
<1> QED
    BY <1>7, <1>8, <1>9, <1>10, <1>11, <1>12, <1>13, <1>14

LEMMA MainCrashStep == ASSUME ServerInv, mainCrash PROVE ServerInv'
<1> USE DEF ServerInv
<1>1. /\ UNCHANGED <<backlog, peer, asked, early, wire, handle, interest, edges, sockets_, refs,
                     pool, vec, loaded, torn, ready_out>>
      /\ UNCHANGED <<recv_que_, event_que_, del_socket_mutex_, session, answer, io>>
      /\ main \in MainType /\ main' = [main EXCEPT !.pc = "crashed"]
      /\ main.pc # "delSocketEnds"
      /\ main.pc = "release" => refs[sockets_[main.ev.fd]] = 0
    BY DEF mainCrash, Deleted, clients, kernel, objects, counts, sessions, TypeOK, MainType
<1>2. main' \in MainType /\ main'.pc = "crashed" /\ main'.cnt = main.cnt /\ main'.sock = main.sock
    BY <1>1 DEF MainType
<1>3. /\ ready_out' \in [Conns -> BOOLEAN] /\ main'.cnt <= Len(event_que_)
      /\ answer' \in [Conns -> {"none", "queued", "sent", "lost"}]
      /\ loaded' \in Loads /\ loaded'["io"] = loaded["io"]
    BY <1>1, <1>2 DEF TypeOK, Room, Loads
<1>4. MainOK' /\ Requests'
    BY <1>1, <1>2 DEF MainOK, Handling, Requests, Asking
<1> HIDE DEF ServerInv
<1> QED
    BY <1>1, <1>2, <1>3, <1>4, MainMoves


---------------------------------------------------------------------------------
(* The clients' steps, and the proof's end.                                  *)

LEMMA SameCounts ==
    ASSUME Counted, UNCHANGED <<sockets_, handle, refs, pool, vec, torn, session, main, io>>
    PROVE  Counted'
<1>1. \A x \in Conns : Held(x)' <=> Held(x)
    BY DEF Held, Leaving
<1> QED
    BY <1>1 DEF Counted, One

LEMMA ConnectStep == ASSUME ServerInv, NEW c \in Conns, connect(c) PROVE ServerInv'
<1> USE DEF ServerInv
<1>1. /\ UNCHANGED <<asked, early, wire, handle, interest, sockets_, refs, pool, vec, loaded,
                     torn, ready_out>>
      /\ UNCHANGED <<recv_que_, event_que_, del_socket_mutex_, session, answer, main, io>>
      /\ peer[c] = "none" /\ peer' = [peer EXCEPT ![c] = "up"] /\ backlog' = Append(backlog, c)
      /\ edges' \subseteq edges \cup (interest \cap {LISTEN})
    BY DEF connect, Announce, objects, counts, sessions
<1>2. /\ backlog \in Seq(Conns) /\ peer \in [Conns -> {"none", "up", "reset"}]
      /\ edges \subseteq interest
    BY DEF TypeOK
<1>3. /\ backlog' \in Seq(Conns) /\ peer' \in [Conns -> {"none", "up", "reset"}]
      /\ peer'[c] = "up" /\ \A x \in Conns \ {c} : peer'[x] = peer[x]
    BY <1>1, <1>2
<1>4. /\ Len(backlog) \in Nat /\ DOMAIN backlog = 1 .. Len(backlog)
      /\ DOMAIN backlog' = 1 .. Len(backlog) + 1 /\ backlog'[Len(backlog) + 1] = c
      /\ \A i \in DOMAIN backlog : backlog'[i] = backlog[i] /\ backlog[i] \in Conns
    BY <1>1, <1>2
<1>5. \A i \in DOMAIN backlog : backlog[i] # c
    BY <1>1 DEF Fresh
<1>6. \A i \in DOMAIN backlog' : i \in DOMAIN backlog \/ i = Len(backlog) + 1
    BY <1>4
<1>7. TypeOK'
    BY SMTT(30), <1>1, <1>2, <1>3 DEF TypeOK
<1>8. Locked' /\ AddingOK' /\ IoOK' /\ MainOK' /\ Room' /\ Requests'
    BY <1>1 DEF Locked, AddingOK, Adding, IoOK, MainOK, Handling, Room, Requests, Asking
<1>9. Entries' /\ Tracked'
    BY <1>1 DEF Entries, Leaving, Closing, Tracked
<1>10. Fresh'
  <2>1. \A x \in Conns : Outside(x)' <=> Outside(x)
    <3> SUFFICES ASSUME NEW x \in Conns PROVE Outside(x)' <=> Outside(x)
        OBVIOUS
    <3>1. CASE x = c
      <4>1. Len(backlog) + 1 \in DOMAIN backlog'
        BY <1>4
      <4> QED
        BY <1>1, <1>4, <3>1, <4>1 DEF Outside
    <3>2. CASE x # c
      <4>1. \A i \in DOMAIN backlog' : backlog'[i] = x => i \in DOMAIN backlog /\ backlog[i] = x
        BY <1>4, <1>6, <3>2
      <4>2. \A i \in DOMAIN backlog : i \in DOMAIN backlog' /\ backlog'[i] = backlog[i]
        BY <1>4
      <4> QED
        BY <1>3, <3>2, <4>1, <4>2 DEF Outside
    <3> QED
      BY <3>1, <3>2
  <2>2. \A x \in Conns : Unmade(x)' <=> Unmade(x)
    BY <1>1, <2>1 DEF Unmade
  <2>3. \A i, j \in DOMAIN backlog' : backlog'[i] = backlog'[j] => i = j
    BY <1>4, <1>5, <1>6 DEF Fresh
  <2>4. \A i \in DOMAIN backlog' : peer'[backlog'[i]] # "none"
    BY <1>3, <1>4, <1>6 DEF Fresh
  <2> QED
    BY <1>1, <2>1, <2>2, <2>3, <2>4 DEF Fresh
<1>11. BatchOK'
  <2>1. backlog' # <<>>
    BY <1>1, <1>2
  <2> QED
    BY <1>1, <2>1 DEF BatchOK
<1>12. Listening'
  <2>1. Made' = Made \cup {c} /\ c \notin Made
    BY <1>1, <1>3 DEF Made
  <2>2. IsFiniteSet(Made)
    BY DEF Listening
  <2>3. IsFiniteSet(Made') /\ Cardinality(Made') = Cardinality(Made) + 1
    BY <2>1, <2>2, FS_AddElement
  <2>4. Cardinality(Made) \in Nat /\ Cardinality(Fds) \in Nat
    BY <2>2, FS_CardinalityType, ServerAssumption
  <2>5. Crowded => Crowded'
    BY <2>3, <2>4 DEF Crowded
  <2> QED
    BY <1>1, <2>3, <2>5 DEF Listening
<1>13. Counted'
    BY <1>1, SameCounts
<1> QED
    BY <1>7, <1>8, <1>9, <1>10, <1>11, <1>12, <1>13

LEMMA ClientStep ==
    ASSUME ServerInv, NEW c \in Conns, clientSend(c) \/ reset(c) PROVE ServerInv'
<1> USE DEF ServerInv
<1>1. /\ UNCHANGED <<backlog, handle, interest, sockets_, refs, pool, vec, loaded, torn,
                     ready_out>>
      /\ UNCHANGED <<recv_que_, event_que_, del_socket_mutex_, session, answer, main, io>>
      /\ edges' \subseteq interest
    BY DEF clientSend, reset, Announce, objects, counts, sessions, TypeOK
<1>2. /\ asked' \in [Conns -> 0 .. MaxData + 1] /\ peer' \in [Conns -> {"none", "up", "reset"}]
      /\ early' \in [Conns -> Nat]
  <2>1. /\ asked \in [Conns -> 0 .. MaxData + 1] /\ peer \in [Conns -> {"none", "up", "reset"}]
        /\ early \in [Conns -> Nat]
    BY DEF TypeOK
  <2>2. CASE clientSend(c)
    <3>1. asked[c] \in Nat /\ asked[c] + 1 <= MaxData + 1 /\ MaxData \in Nat
      BY <2>1, <2>2, ServerAssumption DEF clientSend
    <3>2. early' = [early EXCEPT ![c] = @ + 0] \/ early' = [early EXCEPT ![c] = @ + 1]
      BY <2>2 DEF clientSend
    <3>3. early' \in [Conns -> Nat]
      BY <2>1, <3>2
    <3> QED
      BY <2>1, <2>2, <3>1, <3>3 DEF clientSend
  <2>3. CASE reset(c)
    BY <2>1, <2>3 DEF reset
  <2> QED
    BY <2>2, <2>3
<1>3. \A x \in Conns : peer'[x] = "none" <=> peer[x] = "none"
    BY DEF clientSend, reset, TypeOK
<1>4. TypeOK'
    BY SMTT(30), <1>1, <1>2 DEF TypeOK
<1>5. Locked' /\ AddingOK' /\ BatchOK' /\ IoOK' /\ MainOK' /\ Room' /\ Tracked'
    BY <1>1 DEF Locked, AddingOK, Adding, BatchOK, IoOK, MainOK, Handling, Room, Tracked
<1>6. Entries' /\ Counted'
    BY <1>1, SameCounts DEF Entries, Leaving, Closing
<1>7. Fresh'
  <2>1. \A x \in Conns : (Unmade(x)' <=> Unmade(x)) /\ (Outside(x)' <=> Outside(x))
    BY <1>1, <1>3 DEF Unmade, Outside
  <2>2. \A i \in DOMAIN backlog : backlog[i] \in Conns
    BY DEF TypeOK
  <2> QED
    BY <1>1, <1>3, <2>1, <2>2 DEF Fresh
<1>8. Listening'
  <2>1. Made' = Made
    BY <1>3 DEF Made
  <2> QED
    BY <1>1, <2>1 DEF Listening, Crowded
<1>9. Requests'
  <2>1. /\ DOMAIN wire = Conns /\ DOMAIN recv_que_ = Conns
        /\ asked \in [Conns -> 0 .. MaxData + 1] /\ MaxData \in Nat
        /\ \A x \in Conns : Asking(x)' <=> Asking(x)
    BY <1>1, ServerAssumption DEF Requests, TypeOK, Asking
  <2>2. CASE reset(c)
    BY <1>1, <2>1, <2>2 DEF reset, Requests
  <2>3. CASE clientSend(c)
    <3>1. /\ wire' = [wire EXCEPT ![c] = Append(@, asked[c])]
          /\ asked' = [asked EXCEPT ![c] = @ + 1] /\ asked[c] \in Nat
      BY <2>1, <2>3 DEF clientSend
    <3>2. /\ DOMAIN wire' = Conns /\ wire'[c] = Append(wire[c], asked[c])
          /\ \A x \in Conns \ {c} : wire'[x] = wire[x] /\ asked'[x] = asked[x]
          /\ asked'[c] # 0
      BY <2>1, <3>1
    <3>3. wire[c] \in Seq(Nat)
      BY DEF Requests
    <3>4. /\ wire'[c] \in Seq(Nat)
          /\ \A i \in DOMAIN wire'[c] :
                \/ i \in DOMAIN wire[c] /\ wire'[c][i] = wire[c][i]
                \/ i = Len(wire[c]) + 1 /\ wire'[c][i] = asked[c]
      <4> HIDE DEF ServerInv
      <4>1. ASSUME NEW s \in Seq(Nat), NEW n \in Nat
            PROVE  /\ Append(s, n) \in Seq(Nat)
                   /\ \A i \in DOMAIN Append(s, n) :
                         \/ i \in DOMAIN s /\ Append(s, n)[i] = s[i]
                         \/ i = Len(s) + 1 /\ Append(s, n)[i] = n
        OBVIOUS
      <4> QED
        BY <3>1, <3>2, <3>3, <4>1
    <3>5. /\ \A i \in DOMAIN wire'[c] : wire'[c][i] = C_CONNECT =>
                i = 1 /\ recv_que_[c] = <<>> /\ c \notin session /\ ~ Asking(c)
      <4> SUFFICES ASSUME NEW i \in DOMAIN wire'[c], wire'[c][i] = C_CONNECT
                   PROVE  i = 1 /\ recv_que_[c] = <<>> /\ c \notin session /\ ~ Asking(c)
          OBVIOUS
      <4>1. CASE i \in DOMAIN wire[c] /\ wire'[c][i] = wire[c][i]
        BY <4>1 DEF Requests
      <4>2. CASE i = Len(wire[c]) + 1 /\ wire'[c][i] = asked[c]
        <5>1. asked[c] = 0
          BY <4>2 DEF C_CONNECT
        <5>2. /\ wire[c] = <<>> /\ recv_que_[c] = <<>> /\ c \notin session /\ ~ Asking(c)
          BY <5>1 DEF Requests
        <5>3. Len(wire[c]) = 0
          BY <5>2
        <5> QED
          BY <4>2, <5>2, <5>3
      <4> QED
        BY <3>4, <4>1, <4>2
    <3>6. ASSUME NEW x \in Conns
          PROVE  /\ wire'[x] \in Seq(Nat) /\ recv_que_[x] \in Seq(Nat)
                 /\ \A i \in DOMAIN recv_que_[x] : recv_que_[x][i] = C_CONNECT =>
                       i = 1 /\ x \notin session /\ ~ Asking(x)
                 /\ \A i \in DOMAIN wire'[x] : wire'[x][i] = C_CONNECT =>
                       i = 1 /\ recv_que_[x] = <<>> /\ x \notin session /\ ~ Asking(x)
                 /\ asked'[x] = 0 => /\ wire'[x] = <<>> /\ recv_que_[x] = <<>>
                                     /\ x \notin session /\ ~ Asking(x)
                 /\ Asking(x) => x \notin session
      <4>1. CASE x = c
        BY <3>2, <3>4, <3>5, <4>1 DEF Requests
      <4>2. CASE x # c
        BY <3>2, <4>2 DEF Requests
      <4> QED
        BY <4>1, <4>2
    <3> QED
      BY <1>1, <2>1, <3>2, <3>6 DEF Requests
  <2> QED
    BY <2>2, <2>3
<1> QED
    BY <1>4, <1>5, <1>6, <1>7, <1>8, <1>9

LEMMA Stutter == ASSUME ServerInv, UNCHANGED vars PROVE ServerInv'
<1>1. /\ UNCHANGED <<backlog, peer, asked, early, wire, handle, interest, edges, sockets_, refs,
                     pool, vec, loaded, torn, ready_out>>
      /\ UNCHANGED <<recv_que_, event_que_, del_socket_mutex_, session, answer, main, io>>
    BY DEF vars
<1>2. TypeOK' /\ Locked' /\ Entries' /\ AddingOK' /\ Tracked' /\ Requests'
    BY <1>1 DEF ServerInv, TypeOK, Locked, Entries, Leaving, Closing, AddingOK, Adding, Tracked,
                Requests, Asking
<1>3. Fresh' /\ BatchOK' /\ IoOK' /\ MainOK' /\ Room' /\ Listening'
    BY <1>1 DEF ServerInv, Fresh, Unmade, Outside, BatchOK, IoOK, MainOK, Handling, Room,
                Listening, Crowded, Made
<1>4. Counted'
    BY <1>1, SameCounts DEF ServerInv
<1> QED
    BY <1>2, <1>3, <1>4 DEF ServerInv

LEMMA InitOK == Init => ServerInv
<1> SUFFICES ASSUME Init PROVE ServerInv
    OBVIOUS
<1>1. TypeOK
  <2>1. NoEvent \in PollEvent /\ 0 \in 0 .. QueueLength /\ 0 \in 0 .. MaxData + 1
    BY NoEventIsEvent, ServerAssumption
  <2>2. main \in MainType
    BY <2>1 DEF Init, MainType, Sockets
  <2>3. io \in IoType
    BY <2>1 DEF Init, IoType, Sockets
  <2>4. sockets_ \in [Descriptors -> Sockets]
    BY DEF Init, Sockets
  <2> QED
    BY <2>1, <2>2, <2>3, <2>4 DEF Init, TypeOK, MainType, IoType, Descriptors
<1>2. /\ sockets_[LISTEN] = LISTEN /\ \A f \in Fds : sockets_[f] = NULL
    BY ServerAssumption DEF Init, Descriptors
<1>3. /\ main.pc = "update" /\ main.cnt = 0 /\ main.sock = NULL
      /\ io.pc = "wait" /\ io.batch = <<>> /\ io.sock = NULL
    BY DEF Init
<1>4. Locked /\ AddingOK /\ IoOK /\ MainOK
    BY <1>3, ServerAssumption DEF Init, Locked, AddingOK, Adding, IoOK, MainOK, Handling
<1>5. Entries /\ Tracked
    BY <1>2, <1>3, ServerAssumption DEF Init, Entries, Tracked
<1>6. Fresh
    BY <1>2, <1>3, ServerAssumption DEF Init, Fresh, Unmade, Outside
<1>7. BatchOK
    BY <1>3 DEF BatchOK
<1>8. Counted
  <2>1. \A c \in Conns : ~ Held(c)
    BY <1>2, ServerAssumption DEF Held
  <2>2. \A c \in Conns : refs[c] = 0 /\ c \notin pool /\ c \notin vec /\ c \notin session
    BY DEF Init
  <2> QED
    BY <2>1, <2>2 DEF Counted, One
<1>9. Requests
  <2>1. <<>> \in Seq(Nat) /\ DOMAIN <<>> = {}
    BY EmptySeq
  <2> QED
    BY <1>3, <2>1 DEF Init, Requests, Asking
<1>10. Room
  <2>1. Len(event_que_) = 0 /\ Len(io.batch) = 0
    BY <1>3 DEF Init
  <2> QED
    BY <1>3, <2>1, ServerAssumption DEF Room
<1>11. Listening
  <2>1. Made = {}
    BY DEF Init, Made
  <2> QED
    BY <1>2, <1>3, <2>1, FS_EmptySet DEF Listening
<1> QED
    BY <1>1, <1>4, <1>5, <1>6, <1>7, <1>8, <1>9, <1>10, <1>11 DEF ServerInv

LEMMA NextOK == ASSUME ServerInv, Next PROVE ServerInv'
<1>1. CASE IoNext
    BY <1>1, EpollWaitStep, NextEventStep, AcceptStep, AddSocketStep, IoDelSocketStep,
       IoReleaseStep, IoDelSocketEndsStep, CreateStep, AddRefStep, InitStep, HandleSocketStep,
       PushStep, IoCrashStep
    DEF IoNext
<1>2. CASE MainNext
    BY <1>2, UpdateStep, PopStep, RecvStep, HandleSocketRecvStep, AskStep, AnswerStep,
       MainDelSocketStep, MainReleaseStep, MainDelSocketEndsStep, SpareTimeStep, ClearStep,
       ClearingStep, MainCrashStep
    DEF MainNext
<1>3. CASE ClientNext
    BY <1>3, ConnectStep, ClientStep DEF ClientNext
<1> QED
    BY <1>1, <1>2, <1>3 DEF Next

\* Whatever the clients do and however the threads interleave, both threads' places in
\* handleThread and handlePollEvent, the table and the counts agree.
THEOREM ServerInvariant == Spec => []ServerInv
<1>1. ServerInv /\ [Next]_vars => ServerInv'
    BY NextOK, Stutter
<1> QED
    BY InitOK, <1>1, PTL DEF Spec

\* Every index into sockets_ is a descriptor and no reference count is negative, in
\* Server.cpp's two threads and the pool.
THEOREM ServerTypes == Spec => []TypeOK
<1>1. ServerInv => TypeOK
    BY DEF ServerInv
<1> QED
    BY ServerInvariant, <1>1, PTL

\* event_que_ has room for every event the IO thread pushes (Server_linux.cpp:201).
THEOREM ServerEventsFit == Spec => []PushFits
<1>1. ServerInv => PushFits
  <2> SUFFICES ASSUME ServerInv, io.pc = "push" PROVE Len(event_que_) < QueueLength
      BY DEF PushFits
  <2>1. Len(event_que_) \in Nat /\ Len(io.batch) \in Nat /\ QueueLength \in Nat
    BY ServerAssumption DEF ServerInv, TypeOK
  <2>2. Len(event_que_) + Len(io.batch) < QueueLength
    BY DEF ServerInv, Room
  <2> QED
    BY <2>1, <2>2
<1> QED
    BY ServerInvariant, <1>1, PTL

\* An open descriptor is in sockets_ under its own index and watched by epoll, or about to
\* be: addSocket, delSocket and the kernel's reuse of descriptors forget none.
THEOREM ServerTracksAll == Spec => []Tracked
<1>1. ServerInv => Tracked
    BY DEF ServerInv
<1> QED
    BY ServerInvariant, <1>1, PTL

\* Until an update of one thread has overwritten the other's, a Socket's count is the number of
\* its owners, the RefPool, the vector being cleared, the table and its Session, at every step
\* of either thread between the load and the store of a ++ or a -- (Socket::create, addSocket,
\* delSocket, pk_C_CONNECT and RefPool::clear).
THEOREM ServerCounts == Spec => []RefsCounted
<1>1. ServerInv => RefsCounted
  <2> SUFFICES ASSUME ServerInv, NEW c \in Conns, c \notin torn
               PROVE  refs[c] = One(c \in pool) + One(c \in vec) + One(c \in session)
                        + Cardinality({f \in Fds : sockets_[f] = c /\ ~ Leaving(f)})
      BY DEF RefsCounted, One
  <2> DEFINE at == {f \in Fds : sockets_[f] = c /\ ~ Leaving(f)}
  <2>1. refs[c] = One(c \in pool) + One(c \in vec) + One(c \in session) + One(Held(c))
    BY DEF ServerInv, Counted
  <2>2. \A f, g \in Fds : sockets_[f] = c /\ sockets_[g] = c => f = g
    BY DEF ServerInv, Entries
  <2>3. CASE Held(c)
    <3>1. PICK f \in Fds : sockets_[f] = c /\ ~ Leaving(f)
      BY <2>3 DEF Held
    <3>2. at = {f}
      BY <2>2, <3>1
    <3> QED
      BY <2>1, <2>3, <3>2, FS_Singleton DEF One
  <2>4. CASE ~ Held(c)
    <3>1. at = {}
      BY <2>4 DEF Held
    <3> QED
      BY <2>1, <2>4, <3>1, FS_EmptySet DEF One
  <2> QED
    BY <2>3, <2>4
<1> QED
    BY ServerInvariant, <1>1, PTL

\* The listening socket stays open until there have been more connections than
\* descriptors: no stale event and no failed read closes it.
THEOREM ServerListensOn == Spec => []ServerListens
<1>1. ServerInv => ServerListens
  <2> SUFFICES ASSUME ServerInv, Cardinality(Made) <= Cardinality(Fds)
               PROVE  sockets_[LISTEN] = LISTEN
      BY DEF ServerListens, Made
  <2>1. Cardinality(Made) \in Nat /\ Cardinality(Fds) \in Nat
    BY FS_CardinalityType, ServerAssumption DEF ServerInv, Listening
  <2>2. ~ Crowded
    BY <2>1 DEF Crowded
  <2> QED
    BY <2>2 DEF ServerInv, Listening
<1> QED
    BY ServerInvariant, <1>1, PTL
=================================================================================
