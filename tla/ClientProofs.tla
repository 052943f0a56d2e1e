------------------------------- MODULE ClientProofs -----------------------------
(***************************************************************************)
(* For any number of startups, refusals and events: the client is safe     *)
(* until its end begins, and asks for its session once.                    *)
(***************************************************************************)
EXTENDS Client, TLAPS, SequenceTheorems

Polls == {"IN", "OUT", "ERR"}
MainType ==
    [pc : {"idle", "startup", "shutdown", "pop", "in", "out", "err"},
     cnt : Nat, ev : SUBSET Polls, sock : Starts \cup {NULL}]
IoType ==
    [pc : {"none", "connect", "activate", "loop", "done", "wait", "handle", "recv", "push"},
     ev : SUBSET Polls]

ClientTypes ==
    /\ conn \in [Starts -> {"none", "connecting", "up", "broken"}]
    /\ asked \in [Starts -> Nat] /\ open \in [Starts -> BOOLEAN] /\ refs \in [Starts -> Int]
    /\ ready_out \in [Starts -> BOOLEAN] /\ thread_refs \in [Starts -> Int]
    /\ socket_ \in Starts \cup {NULL} /\ thread_ \in Starts \cup {NULL}
    /\ event_que_ \in Seq(SUBSET Polls) /\ main.cnt <= Len(event_que_)
    /\ main \in MainType /\ io \in [Starts -> IoType]
    /\ main.pc = "startup" => started \in Starts

Polling == main.pc \in {"pop", "in", "out", "err"}

\* Who has asked is connected, and ready until a receive fails.
Asking ==
    /\ Polling => socket_ \in {main.sock, NULL}
    /\ \A n \in Starts : conn[n] = "broken" => n \in ended
    /\ \A n \in Starts : asked[n] > 0 => conn[n] \in {"up", "broken"}
    /\ \A n \in Starts : n \in ended \/ asked[n] = 0 \/ (asked[n] = 1 /\ ready_out[n] = TRUE)

\* An event that needs no error handling, and whose OUT is still true.
Fine(ev) == "ERR" \notin ev /\ ("OUT" \in ev => conn[1] = "up")

One(b) == IF b THEN 1 ELSE 0

Before ==
    /\ started = 0 /\ socket_ = NULL /\ pool = {} /\ event_que_ = <<>> /\ main.pc = "idle"
    /\ main.ev = {}
    /\ \A n \in Starts : io[n].pc = "none" /\ io[n].ev = {}

\* The first startup: the references it keeps, and the events of its thread alone.
During ==
    /\ started = 1 /\ 1 \in Starts /\ socket_ = 1
    /\ refs[1] >= 1 + One(<<"socket", 1>> \in pool) /\ open[1] = TRUE
    /\ pool \subseteq {<<"socket", 1>>, <<"thread", 1>>}
    /\ main.pc # "shutdown"
    /\ main.pc = "startup" => pool \subseteq {<<"socket", 1>>}
    /\ main.pc # "startup" => thread_refs[1] = 1 + One(<<"thread", 1>> \in pool)
    /\ Polling => main.sock = 1
    /\ \A n \in Starts : (n # 1 => io[n].pc = "none") /\ Fine(io[n].ev)
    /\ Fine(main.ev)
    /\ \A i \in DOMAIN event_que_ : Fine(event_que_[i])

Up == ended = {} => crash = "no" /\ (Before \/ During)

ClientInv == ClientTypes /\ Asking /\ Up

---------------------------------------------------------------------------------
(* The server's steps.                                                       *)

LEMMA ConnStep ==
    ASSUME ClientInv, NEW n \in Starts, Accepted(n) \/ Refused(n) \/ Answered(n) \/ Broken(n)
    PROVE  ClientInv'
<1> USE DEF ClientInv
<1>1. /\ UNCHANGED <<started, asked, open, refs, ready_out, thread_refs, pool, socket_, thread_,
                     event_que_, main, io, crash>>
      /\ conn \in [Starts -> {"none", "connecting", "up", "broken"}]
      /\ \/ conn[n] = "connecting" /\ (\E k \in {"up", "none"} : conn' = [conn EXCEPT ![n] = k])
            /\ ended' = ended
         \/ conn' = conn /\ ended' = ended
         \/ conn[n] = "up" /\ conn' = [conn EXCEPT ![n] = "broken"] /\ ended' = ended \cup {n}
    BY DEF Accepted, Refused, Answered, Broken, sockets, fields, ClientTypes
<1>2. /\ conn' \in [Starts -> {"none", "connecting", "up", "broken"}]
      /\ \A k \in Starts : conn[k] = "up" => conn'[k] \in {"up", "broken"}
      /\ \A k \in Starts : conn[k] = "broken" => conn'[k] = "broken"
      /\ \A k \in Starts : conn'[k] = "broken" /\ conn[k] # "broken" => ended' = ended \cup {k}
      /\ ended \subseteq ended'
      /\ \A k \in Starts : k # n => conn'[k] = conn[k]
    BY <1>1
<1>3. ClientTypes'
    BY <1>1, <1>2 DEF ClientTypes
<1>4. Asking'
  <2>1. \A k \in Starts : conn'[k] = "broken" => k \in ended'
    BY <1>2 DEF Asking
  <2>2. \A k \in Starts : asked[k] > 0 => conn'[k] \in {"up", "broken"}
    BY <1>2 DEF Asking
  <2> QED
    BY <1>1, <1>2, <2>1, <2>2 DEF Asking, Polling
<1>5. Up'
  <2> SUFFICES ASSUME ended' = {} PROVE Up'
      BY DEF Up
  <2>1. ended = {}
    BY <1>2
  <2>2. \A k \in Starts : conn[k] = "up" => conn'[k] = "up"
    BY <1>2 DEF Asking
  <2>3. CASE Before
    BY <1>1, <2>1, <2>3 DEF Up, Before
  <2>4. CASE During
    <3>1. \A ev : Fine(ev) => Fine(ev)'
      BY <2>2, <2>4 DEF Fine, During
    <3> QED
      BY <1>1, <2>1, <2>4, <2>2 DEF Up, During, Polling, Fine
  <2> QED
    BY <2>1, <2>3, <2>4 DEF Up
<1> QED
    BY <1>3, <1>4, <1>5

---------------------------------------------------------------------------------
(* The main thread's steps.                                                  *)

\* A crash ends the process, and is excluded until an end begins.
LEMMA DiesStep ==
    ASSUME ClientInv, NEW how, dies(how), ended # {} PROVE ClientInv'
<1>1. /\ UNCHANGED <<started, conn, asked, open, refs, ready_out, thread_refs, pool, socket_,
                     thread_, event_que_, main, io, ended>>
    BY DEF dies, peers, sockets, fields
<1>2. ClientTypes' /\ Asking'
    BY <1>1 DEF ClientInv, ClientTypes, Asking, Polling
<1>3. Up'
    BY <1>1 DEF Up
<1> QED
    BY <1>2, <1>3 DEF ClientInv

LEMMA StartupSocketStep == ASSUME ClientInv, startupSocket PROVE ClientInv'
<1> USE DEF ClientInv
<1> DEFINE n == started + 1
<1>1. /\ UNCHANGED <<conn, asked, ready_out, thread_refs, thread_, event_que_, io, crash, ended>>
      /\ main.pc = "idle" /\ socket_ = NULL /\ n \in Starts /\ main \in MainType
      /\ started' = n /\ socket_' = n /\ open' = [open EXCEPT ![n] = TRUE]
      /\ refs' = [refs EXCEPT ![n] = 2] /\ pool' = pool \cup {<<"socket", n>>}
      /\ main' = [main EXCEPT !.pc = "startup"]
    BY DEF startupSocket, peers, ClientTypes
<1>2. /\ main' \in MainType /\ main'.pc = "startup" /\ main'.cnt = main.cnt /\ main'.ev = main.ev
      /\ main'.sock = main.sock
    BY <1>1 DEF MainType
<1>3. /\ open' \in [Starts -> BOOLEAN] /\ refs' \in [Starts -> Int]
      /\ open'[n] = TRUE /\ refs'[n] = 2
    BY <1>1 DEF ClientTypes
<1> HIDE DEF n
<1>4. ClientTypes'
    BY <1>1, <1>2, <1>3 DEF ClientTypes
<1>5. Asking'
    BY <1>1, <1>2 DEF Asking, Polling
<1>6. Up'
  <2> SUFFICES ASSUME ended = {} PROVE Up'
      BY <1>1 DEF Up
  <2>1. Before
    BY <1>1, ClientAssumption DEF Up, During
  <2>2. n = 1
    BY <2>1 DEF Before, n
  <2>3. During'
    BY <1>1, <1>2, <1>3, <2>1, <2>2 DEF Before, During, Polling, Fine, One
  <2> QED
    BY <1>1, <2>3 DEF Up
<1> QED
    BY <1>4, <1>5, <1>6

LEMMA StartupThreadStep == ASSUME ClientInv, startupThread PROVE ClientInv'
<1> USE DEF ClientInv
<1>1. /\ UNCHANGED <<started, conn, asked, open, refs, ready_out, socket_, event_que_, crash, ended>>
      /\ main.pc = "startup" /\ started \in Starts /\ main \in MainType /\ io \in [Starts -> IoType]
      /\ thread_' = started /\ thread_refs' = [thread_refs EXCEPT ![started] = 2]
      /\ pool' = pool \cup {<<"thread", started>>}
      /\ io' = [io EXCEPT ![started].pc = "connect"]
      /\ main' = [main EXCEPT !.pc = "idle"]
    BY DEF startupThread, peers, sockets, ClientTypes
<1>2. /\ main' \in MainType /\ main'.pc = "idle" /\ main'.cnt = main.cnt /\ main'.ev = main.ev
      /\ main'.sock = main.sock
    BY <1>1 DEF MainType
<1>3. /\ io' \in [Starts -> IoType]
      /\ \A n \in Starts : io'[n].ev = io[n].ev /\ (n # started => io'[n] = io[n])
    BY <1>1 DEF IoType
<1>4. thread_refs' \in [Starts -> Int] /\ thread_refs'[started] = 2
    BY <1>1 DEF ClientTypes
<1>5. ClientTypes'
    BY <1>1, <1>2, <1>3, <1>4 DEF ClientTypes
<1>6. Asking'
    BY <1>1, <1>2 DEF Asking, Polling
<1>7. Up'
  <2> SUFFICES ASSUME ended = {} PROVE Up'
      BY <1>1 DEF Up
  <2>1. During
    BY <1>1 DEF Up, Before
  <2>2. <<"socket", 1>> # <<"thread", 1>>
    OBVIOUS
  <2>3. /\ <<"socket", 1>> \in pool' <=> <<"socket", 1>> \in pool
        /\ <<"thread", 1>> \in pool' /\ pool' \subseteq {<<"socket", 1>>, <<"thread", 1>>}
    BY <1>1, <2>1, <2>2 DEF During
  <2>4. During'
    BY <1>1, <1>2, <1>3, <1>4, <2>1, <2>3 DEF During, Polling, Fine, One
  <2> QED
    BY <1>1, <2>1, <2>4 DEF Up
<1> QED
    BY <1>5, <1>6, <1>7

LEMMA ShutdownSocketStep == ASSUME ClientInv, shutdownSocket PROVE ClientInv'
<1> USE DEF ClientInv
<1>1. /\ UNCHANGED <<started, conn, asked, ready_out, thread_refs, pool, thread_, event_que_, io, crash>>
      /\ main.pc = "idle" /\ ended' = ended \cup {thread_} /\ main \in MainType
      /\ main' = [main EXCEPT !.pc = "shutdown"]
    BY DEF shutdownSocket, peers, ClientTypes
<1>2. /\ main' \in MainType /\ main'.pc = "shutdown" /\ main'.cnt = main.cnt
    BY <1>1 DEF MainType
<1>3. /\ open' \in [Starts -> BOOLEAN] /\ refs' \in [Starts -> Int]
      /\ socket_' \in Starts \cup {NULL}
  <2>1. /\ open \in [Starts -> BOOLEAN] /\ refs \in [Starts -> Int] /\ socket_ \in Starts \cup {NULL}
    BY DEF ClientTypes
  <2>2. CASE socket_ = NULL
    <3>1. UNCHANGED <<open, refs, socket_>>
      BY <2>2 DEF shutdownSocket
    <3> QED
      BY <2>1, <3>1
  <2>3. CASE socket_ # NULL
    <3>1. /\ open' = [open EXCEPT ![socket_] = FALSE] /\ refs' = [refs EXCEPT ![socket_] = @ - 1]
          /\ socket_' = NULL
      BY <2>3 DEF shutdownSocket
    <3>2. open' \in [Starts -> BOOLEAN]
      BY <2>1, <2>3, <3>1
    <3>3. refs' \in [Starts -> Int]
      BY <2>1, <2>3, <3>1
    <3> QED
      BY <3>1, <3>2, <3>3
  <2> QED
    BY <2>2, <2>3
<1>4. ClientTypes'
    BY <1>1, <1>2, <1>3 DEF ClientTypes
<1>5. Asking'
    BY <1>1, <1>2 DEF Asking, Polling
<1>6. Up'
    BY <1>1 DEF Up
<1> QED
    BY <1>4, <1>5, <1>6

LEMMA ShutdownThreadStep == ASSUME ClientInv, shutdownThread PROVE ClientInv'
<1> USE DEF ClientInv
<1>1. main.pc = "shutdown" /\ ended # {}
    BY DEF shutdownThread, Up, Before, During
<1>2. CASE dies("pure")
    BY <1>1, <1>2, DiesStep
<1>3. CASE ~ dies("pure")
  <2>1. /\ UNCHANGED <<started, conn, asked, open, refs, ready_out, pool, socket_, event_que_, io,
                       crash, ended>>
        /\ main \in MainType /\ main' = [main EXCEPT !.pc = "idle"] /\ thread_' = NULL
        /\ thread_refs' = [thread_refs EXCEPT ![thread_] = @ - 1]
        /\ thread_refs \in [Starts -> Int] /\ thread_ \in Starts \cup {NULL}
    BY <1>3 DEF shutdownThread, peers, sockets, ClientTypes
  <2>2. main' \in MainType /\ main'.pc = "idle" /\ main'.cnt = main.cnt
    BY <2>1 DEF MainType
  <2>3. thread_refs' \in [Starts -> Int]
    <3>1. CASE thread_ \in Starts
      BY <2>1, <3>1
    <3>2. CASE thread_ = NULL
      <4>1. thread_refs' = thread_refs
        BY <2>1, <3>2, ClientAssumption, Zenon
      <4> QED
        BY <2>1, <4>1
    <3> QED
      BY <2>1, <3>1, <3>2
  <2>4. ClientTypes'
    BY <2>1, <2>2, <2>3 DEF ClientTypes
  <2>5. Asking'
    BY <2>1, <2>2 DEF Asking, Polling
  <2>6. Up'
    BY <1>1, <2>1 DEF Up
  <2> QED
    BY <2>4, <2>5, <2>6
<1> QED
    BY <1>2, <1>3

LEMMA ClearPoolStep == ASSUME ClientInv, clearPool PROVE ClientInv'
<1> USE DEF ClientInv
<1>1. ended = {} => During /\ main.pc = "idle"
    BY DEF clearPool, Up, Before
<1>2. ended = {} => ~ \E n \in Starts : <<"thread", n>> \in pool /\ lastReference(n)
  <2> SUFFICES ASSUME ended = {}, NEW n \in Starts, <<"thread", n>> \in pool, thread_refs[n] = 1
               PROVE  FALSE
      BY DEF lastReference
  <2>1. <<"thread", n>> = <<"thread", 1>> \/ <<"thread", n>> = <<"socket", 1>>
    BY <1>1 DEF During
  <2>2. n = 1
    BY <2>1
  <2> QED
    BY <1>1, <2>2 DEF During, One
<1>3. CASE dies("pure")
  <2>1. crash' = "pure" /\ ended' = ended
    BY <1>3 DEF dies
  <2>2. CASE ended # {}
    BY <1>3, <2>2, DiesStep
  <2>3. CASE ended = {}
    <3>1. crash' = crash
      BY <1>2, <2>3 DEF clearPool
    <3> QED
      BY <2>1, <2>3, <3>1 DEF Up
  <2> QED
    BY <2>2, <2>3
<1>4. CASE ~ dies("pure")
  <2>1. /\ UNCHANGED <<started, conn, asked, ready_out, socket_, thread_, event_que_, main, io,
                       crash, ended>>
        /\ refs' = [n \in Starts |-> IF <<"socket", n>> \in pool THEN refs[n] - 1 ELSE refs[n]]
        /\ open' = [n \in Starts |-> open[n] /\ refs'[n] > 0]
        /\ thread_refs' = [n \in Starts |-> IF <<"thread", n>> \in pool
                                            THEN thread_refs[n] - 1 ELSE thread_refs[n]]
        /\ pool' = {}
    BY <1>4 DEF clearPool, peers, fields
  <2>2. /\ refs \in [Starts -> Int] /\ thread_refs \in [Starts -> Int] /\ open \in [Starts -> BOOLEAN]
    BY DEF ClientTypes
  <2>3. refs' \in [Starts -> Int] /\ thread_refs' \in [Starts -> Int]
    BY <2>1, <2>2
  <2>4. open' \in [Starts -> BOOLEAN]
    BY <2>1
  <2>5. ClientTypes'
    BY <2>1, <2>3, <2>4 DEF ClientTypes
  <2>6. Asking'
    BY <2>1 DEF Asking, Polling
  <2>7. Up'
    <3> SUFFICES ASSUME ended = {} PROVE Up'
        BY <2>1 DEF Up
    <3>1. refs'[1] >= 1 /\ thread_refs'[1] = 1
      BY <1>1, <2>1, <2>2 DEF During, One
    <3>2. open'[1] = TRUE
      <4>1. refs'[1] > 0
        BY <2>3, <3>1, <1>1 DEF During
      <4> QED
        BY <1>1, <2>1, <4>1, Zenon DEF During
    <3>3. During'
      BY <1>1, <2>1, <3>1, <3>2 DEF During, Polling, Fine, One
    <3> QED
      BY <2>1, <3>3 DEF Up
  <2> QED
    BY <2>5, <2>6, <2>7
<1> QED
    BY <1>3, <1>4

LEMMA PollBeginStep == ASSUME ClientInv, pollBegin PROVE ClientInv'
<1> USE DEF ClientInv
<1>1. /\ UNCHANGED <<started, conn, asked, open, refs, ready_out, thread_refs, pool, socket_,
                     thread_, event_que_, io, crash, ended>>
      /\ main.pc = "idle" /\ main \in MainType /\ event_que_ # <<>>
      /\ main' = [main EXCEPT !.pc = "pop", !.cnt = Len(event_que_), !.sock = socket_]
      /\ socket_ \in Starts \cup {NULL} /\ event_que_ \in Seq(SUBSET Polls)
    BY DEF pollBegin, peers, sockets, fields, ClientTypes
<1>2. /\ main' \in MainType /\ main'.pc = "pop" /\ main'.cnt = Len(event_que_)
      /\ main'.sock = socket_ /\ main'.ev = main.ev
  <2>1. Len(event_que_) \in Nat
    BY <1>1
  <2> QED
    BY <1>1, <2>1 DEF MainType
<1>3. ClientTypes'
    BY <1>1, <1>2 DEF ClientTypes
<1>4. Asking'
    BY <1>1, <1>2 DEF Asking, Polling
<1>5. Up'
  <2> SUFFICES ASSUME ended = {} PROVE Up'
      BY <1>1 DEF Up
  <2>1. During
    BY <1>1 DEF Up, Before
  <2>2. During'
    BY <1>1, <1>2, <2>1 DEF During, Polling, Fine, One
  <2> QED
    BY <1>1, <2>1, <2>2 DEF Up
<1> QED
    BY <1>3, <1>4, <1>5

LEMMA PollPopStep == ASSUME ClientInv, pollPop PROVE ClientInv'
<1> USE DEF ClientInv
<1>1. /\ UNCHANGED <<started, conn, asked, open, refs, ready_out, thread_refs, pool, socket_,
                     thread_, io, crash, ended>>
      /\ main.pc = "pop" /\ main \in MainType /\ event_que_ \in Seq(SUBSET Polls)
      /\ main.cnt <= Len(event_que_) /\ main.cnt \in Nat
    BY DEF pollPop, peers, sockets, ClientTypes, MainType
<1>2. CASE main.cnt = 0
  <2>1. main' = [main EXCEPT !.pc = "idle", !.sock = NULL] /\ UNCHANGED event_que_
    BY <1>2 DEF pollPop
  <2>2. /\ main' \in MainType /\ main'.pc = "idle" /\ main'.cnt = main.cnt /\ main'.ev = main.ev
    BY <1>1, <2>1 DEF MainType
  <2>3. ClientTypes'
    BY <1>1, <2>1, <2>2 DEF ClientTypes
  <2>4. Asking'
    BY <1>1, <2>2 DEF Asking, Polling
  <2>5. Up'
    <3> SUFFICES ASSUME ended = {} PROVE Up'
        BY <1>1 DEF Up
    <3>1. During
      BY <1>1 DEF Up, Before
    <3>2. During'
      BY <1>1, <2>1, <2>2, <3>1 DEF During, Polling, Fine, One
    <3> QED
      BY <1>1, <3>1, <3>2 DEF Up
  <2> QED
    BY <2>3, <2>4, <2>5
<1>3. CASE main.cnt # 0
  <2>1. /\ main' = [main EXCEPT !.pc = "in", !.cnt = @ - 1, !.ev = Head(event_que_)]
        /\ event_que_' = Tail(event_que_)
    BY <1>3 DEF pollPop
  <2>2. event_que_ # <<>> /\ Len(event_que_) \in Nat
    BY <1>1, <1>3
  <2>3. /\ Head(event_que_) = event_que_[1] /\ Head(event_que_) \in SUBSET Polls
        /\ Tail(event_que_) \in Seq(SUBSET Polls) /\ Len(Tail(event_que_)) = Len(event_que_) - 1
        /\ 1 \in DOMAIN event_que_
        /\ \A i \in DOMAIN Tail(event_que_) : /\ i + 1 \in DOMAIN event_que_
                                              /\ Tail(event_que_)[i] = event_que_[i + 1]
    BY <1>1, <2>2, HeadTailProperties
  <2>4. /\ main' \in MainType /\ main'.pc = "in" /\ main'.cnt = main.cnt - 1
        /\ main'.ev = event_que_[1] /\ main'.sock = main.sock
    <3>1. main.cnt - 1 \in Nat
      BY <1>1, <1>3
    <3> DEFINE less == main.cnt - 1
    <3>2. main' = [main EXCEPT !.pc = "in", !.cnt = less, !.ev = Head(event_que_)] /\ less \in Nat
      BY <2>1, <3>1
    <3>3. less = main.cnt - 1
      OBVIOUS
    <3> HIDE DEF less
    <3> QED
      BY <1>1, <2>3, <3>2, <3>3 DEF MainType
  <2>5. main'.cnt <= Len(event_que_')
    BY <1>1, <2>1, <2>2, <2>3, <2>4
  <2>6. ClientTypes'
    BY <1>1, <2>1, <2>3, <2>4, <2>5 DEF ClientTypes
  <2>7. Asking'
    BY <1>1, <2>4 DEF Asking, Polling
  <2>8. Up'
    <3> SUFFICES ASSUME ended = {} PROVE Up'
        BY <1>1 DEF Up
    <3>1. During
      BY <1>1 DEF Up, Before
    <3>2. Fine(main'.ev) /\ \A i \in DOMAIN Tail(event_que_) : Fine(Tail(event_que_)[i])
      BY <2>3, <2>4, <3>1 DEF During
    <3>3. During'
      BY <1>1, <2>1, <2>4, <3>1, <3>2 DEF During, Polling, Fine, One
    <3> QED
      BY <1>1, <3>1, <3>3 DEF Up
  <2> QED
    BY <2>6, <2>7, <2>8
<1> QED
    BY <1>2, <1>3

\* Until an end begins, the client has a Socket to use.
LEMMA AliveWhileUp ==
    ASSUME ClientInv, ended = {}, During PROVE socket_ = 1 /\ socket_ # NULL /\ ~ deadly(socket_)
<1>1. socket_ = 1 /\ 1 \in Starts /\ refs[1] >= 1 /\ refs[1] \in Int
    BY DEF During, One, ClientInv, ClientTypes
<1>2. refs[1] # 0
    BY <1>1
<1> QED
    BY <1>1, <1>2, ClientAssumption DEF deadly

LEMMA PollInStep == ASSUME ClientInv, pollIn PROVE ClientInv'
<1> USE DEF ClientInv
<1>1. main.pc = "in" /\ main \in MainType /\ (ended = {} => During)
    BY DEF pollIn, Up, Before, ClientTypes
<1>2. CASE "IN" \in main.ev /\ deadly(socket_)
  <2>1. dies(cause(socket_))
    BY <1>2 DEF pollIn
  <2>2. ended # {}
    BY <1>1, <1>2, AliveWhileUp
  <2> QED
    BY <2>1, <2>2, DiesStep
<1>3. CASE ~ ("IN" \in main.ev /\ deadly(socket_))
  <2>1. /\ UNCHANGED <<started, conn, asked, open, ready_out, thread_refs, pool, socket_, thread_,
                       event_que_, io, crash, ended>>
        /\ main' = [main EXCEPT !.pc = "out"]
    BY <1>3 DEF pollIn, peers, fields
  <2>2. \/ refs' = refs
        \/ socket_ # NULL /\ \E made \in BOOLEAN :
              refs' = [refs EXCEPT ![socket_] = IF made THEN @ + 1 ELSE @]
    <3>1. CASE "IN" \notin main.ev
      BY <1>3, <3>1 DEF pollIn
    <3>2. CASE "IN" \in main.ev
      <4> DEFINE made == ~ session[socket_] /\ recv_que_[socket_] > 0
      <4>1. refs' = [refs EXCEPT ![socket_] = IF made THEN @ + 1 ELSE @] /\ socket_ # NULL
        BY <1>3, <3>2 DEF pollIn, deadly
      <4>2. made \in BOOLEAN
        OBVIOUS
      <4> HIDE DEF made
      <4> QED
        BY <4>1, <4>2
    <3> QED
      BY <3>1, <3>2
  <2>3. refs' \in [Starts -> Int] /\ \A n \in Starts : refs'[n] >= refs[n]
    <3>1. refs \in [Starts -> Int] /\ socket_ \in Starts \cup {NULL}
      BY DEF ClientTypes
    <3>2. CASE refs' = refs
      BY <3>1, <3>2
    <3>3. ASSUME socket_ # NULL, NEW made \in BOOLEAN,
                 refs' = [refs EXCEPT ![socket_] = IF made THEN @ + 1 ELSE @]
          PROVE  refs' \in [Starts -> Int] /\ \A n \in Starts : refs'[n] >= refs[n]
      <4>1. CASE made = TRUE
        BY <3>1, <3>3, <4>1
      <4>2. CASE made = FALSE
        BY <3>1, <3>3, <4>2
      <4> QED
        BY <4>1, <4>2
    <3> QED
      BY <2>2, <3>2, <3>3
  <2>4. /\ main' \in MainType /\ main'.pc = "out" /\ main'.cnt = main.cnt /\ main'.ev = main.ev
        /\ main'.sock = main.sock
    BY <1>1, <2>1 DEF MainType
  <2>5. ClientTypes'
    BY <2>1, <2>3, <2>4 DEF ClientTypes
  <2>6. Asking'
    BY <1>1, <2>1, <2>4 DEF Asking, Polling
  <2>7. Up'
    <3> SUFFICES ASSUME ended = {} PROVE Up'
        BY <2>1 DEF Up
    <3>1. refs'[1] >= 1 + One(<<"socket", 1>> \in pool)
      <4>1. /\ 1 \in Starts /\ refs[1] >= 1 + One(<<"socket", 1>> \in pool)
            /\ One(<<"socket", 1>> \in pool) \in Int
        BY <1>1 DEF During, One
      <4>2. refs'[1] >= refs[1] /\ refs[1] \in Int /\ refs'[1] \in Int
        BY <2>3, <4>1 DEF ClientTypes
      <4> QED
        BY <4>1, <4>2
    <3>2. During'
      BY <1>1, <2>1, <2>4, <3>1 DEF During, Polling, Fine, One
    <3> QED
      BY <2>1, <3>2 DEF Up
  <2> QED
    BY <2>5, <2>6, <2>7
<1> QED
    BY <1>2, <1>3

LEMMA PollOutStep == ASSUME ClientInv, pollOut PROVE ClientInv'
<1> USE DEF ClientInv
<1>1. /\ main.pc = "out" /\ main \in MainType /\ (ended = {} => During)
      /\ socket_ \in {main.sock, NULL} /\ main.sock \in Starts \cup {NULL}
    BY DEF pollOut, Up, Before, ClientTypes, Asking, Polling, MainType
<1>2. ended = {} => main.sock = 1 /\ ~ deadly(main.sock) /\ socket_ # NULL
    BY <1>1, AliveWhileUp
<1>3. CASE \E how : dies(how) /\ ended # {}
    BY <1>3, DiesStep
<1>4. ASSUME "OUT" \in main.ev, ~ deadly(main.sock), conn[main.sock] # "up",
             ready_out' = [ready_out EXCEPT ![main.sock] = TRUE],
             NEW ev, ev \in SUBSET Polls, main' = [main EXCEPT !.pc = "err", !.ev = ev],
             UNCHANGED <<started, peers, open, refs, thread_refs, pool, fields, io, crash, ended>>
      PROVE  ClientInv'
  <2>1. UNCHANGED <<started, conn, asked, open, refs, thread_refs, pool, socket_, thread_,
                    event_que_, io, crash, ended>>
    BY <1>4 DEF peers, fields
  <2>2. ended # {}
    BY <1>1, <1>2, <1>4 DEF During, Fine
  <2>3. /\ main' \in MainType /\ main'.pc = "err" /\ main'.cnt = main.cnt
        /\ main'.sock = main.sock
    BY <1>1, <1>4 DEF MainType
  <2>4. /\ ready_out' \in [Starts -> BOOLEAN]
        /\ \A n \in Starts : ready_out[n] = TRUE => ready_out'[n] = TRUE
    BY <1>1, <1>4 DEF ClientTypes, deadly
  <2>5. ClientTypes'
    BY <2>1, <2>3, <2>4 DEF ClientTypes
  <2>6. Asking'
    BY <1>1, <2>1, <2>3, <2>4 DEF Asking, Polling
  <2>7. Up'
    BY <2>1, <2>2 DEF Up
  <2> QED
    BY <2>5, <2>6, <2>7
<1>5. ASSUME "OUT" \in main.ev, ~ deadly(main.sock), conn[main.sock] = "up", socket_ # NULL,
             ~ ready_out[main.sock],
             ready_out' = [ready_out EXCEPT ![main.sock] = TRUE],
             asked' = [asked EXCEPT ![socket_] = @ + 1],
             main' = [main EXCEPT !.pc = "err"],
             UNCHANGED <<started, conn, open, refs, thread_refs, pool, fields, io, crash, ended>>
      PROVE  ClientInv'
  <2>1. /\ UNCHANGED <<started, conn, open, refs, thread_refs, pool, socket_, thread_,
                       event_que_, io, crash, ended>>
        /\ main.sock = socket_ /\ socket_ \in Starts
        /\ asked \in [Starts -> Nat] /\ ready_out \in [Starts -> BOOLEAN]
    BY <1>1, <1>5 DEF fields, ClientTypes
  <2>2. /\ main' \in MainType /\ main'.pc = "err" /\ main'.cnt = main.cnt /\ main'.ev = main.ev
        /\ main'.sock = main.sock
    BY <1>1, <1>5 DEF MainType
  <2>3. /\ ready_out' \in [Starts -> BOOLEAN] /\ ready_out'[socket_] = TRUE
        /\ \A n \in Starts : n # socket_ => ready_out'[n] = ready_out[n]
    BY <1>5, <2>1
  <2>4. /\ asked' \in [Starts -> Nat] /\ asked'[socket_] = asked[socket_] + 1
        /\ \A n \in Starts : n # socket_ => asked'[n] = asked[n]
    BY <1>5, <2>1
  <2>5. ClientTypes'
    BY <2>1, <2>2, <2>3, <2>4 DEF ClientTypes
  <2>6. Asking'
    <3>1. /\ conn[socket_] = "up" /\ ready_out[socket_] # TRUE
          /\ socket_ \in ended \/ asked[socket_] = 0
      BY <1>5, <2>1 DEF Asking
    <3>2. \A n \in Starts : asked'[n] > 0 => conn'[n] \in {"up", "broken"}
      BY <2>1, <2>4, <3>1 DEF Asking
    <3>3. \A n \in Starts :
             n \in ended' \/ asked'[n] = 0 \/ (asked'[n] = 1 /\ ready_out'[n] = TRUE)
      BY <2>1, <2>3, <2>4, <3>1 DEF Asking
    <3> QED
      BY <1>1, <2>1, <2>2, <3>2, <3>3 DEF Asking, Polling
  <2>7. Up'
    <3> SUFFICES ASSUME ended = {} PROVE Up'
        BY <2>1 DEF Up
    <3>1. During'
      BY <1>1, <2>1, <2>2 DEF During, Polling, Fine, One
    <3> QED
      BY <2>1, <3>1 DEF Up
  <2> QED
    BY <2>5, <2>6, <2>7
<1>6. ASSUME main' = [main EXCEPT !.pc = "err"],
             UNCHANGED <<started, peers, sockets, thread_refs, pool, fields, io, crash, ended>>
      PROVE  ClientInv'
  <2>1. UNCHANGED <<started, conn, asked, open, refs, ready_out, thread_refs, pool, socket_,
                    thread_, event_que_, io, crash, ended>>
    BY <1>6 DEF peers, fields, sockets
  <2>2. /\ main' \in MainType /\ main'.pc = "err" /\ main'.cnt = main.cnt /\ main'.ev = main.ev
        /\ main'.sock = main.sock
    BY <1>1, <1>6 DEF MainType
  <2>3. ClientTypes'
    BY <2>1, <2>2 DEF ClientTypes
  <2>4. Asking'
    BY <1>1, <2>1, <2>2 DEF Asking, Polling
  <2>5. Up'
    <3> SUFFICES ASSUME ended = {} PROVE Up'
        BY <2>1 DEF Up
    <3>1. During'
      BY <1>1, <2>1, <2>2 DEF During, Polling, Fine, One
    <3> QED
      BY <2>1, <3>1 DEF Up
  <2> QED
    BY <2>3, <2>4, <2>5
<1>7. CASE "OUT" \in main.ev /\ deadly(main.sock)
  <2>1. dies(cause(main.sock)) /\ ended # {}
    BY <1>2, <1>7 DEF pollOut
  <2> QED
    BY <1>3, <2>1
<1>8. CASE "OUT" \in main.ev /\ ~ deadly(main.sock) /\ writable(main.sock)
  <2>1. \/ /\ conn[main.sock] # "up"
           /\ main' = [main EXCEPT !.pc = "err", !.ev = @ \cup {"ERR"}]
           /\ ready_out' = [ready_out EXCEPT ![main.sock] = TRUE]
           /\ UNCHANGED <<started, peers, open, refs, thread_refs, pool, fields, io, crash, ended>>
        \/ socket_ = NULL /\ dies("null")
        \/ /\ socket_ # NULL
           /\ ready_out' = [ready_out EXCEPT ![main.sock] = TRUE]
           /\ asked' = IF conn[socket_] = "up" THEN [asked EXCEPT ![socket_] = @ + 1] ELSE asked
           /\ main' = [main EXCEPT !.pc = "err"]
           /\ UNCHANGED <<started, conn, refused, wire, edge, open, refs, thread_refs, pool, fields,
                          io, crash, ended>>
    BY <1>8 DEF pollOut
  <2>2. main.ev \in SUBSET Polls /\ main.ev \cup {"ERR"} \in SUBSET Polls
    BY <1>1 DEF MainType, Polls
  <2>3. CASE /\ conn[main.sock] # "up"
             /\ main' = [main EXCEPT !.pc = "err", !.ev = @ \cup {"ERR"}]
             /\ ready_out' = [ready_out EXCEPT ![main.sock] = TRUE]
             /\ UNCHANGED <<started, peers, open, refs, thread_refs, pool, fields, io, crash, ended>>
    BY <1>4, <1>8, <2>2, <2>3
  <2>4. CASE socket_ = NULL /\ dies("null")
    <3>1. ended # {}
      BY <1>2, <2>4
    <3> QED
      BY <1>3, <2>4, <3>1
  <2>5. CASE /\ socket_ # NULL
             /\ ready_out' = [ready_out EXCEPT ![main.sock] = TRUE]
             /\ asked' = IF conn[socket_] = "up" THEN [asked EXCEPT ![socket_] = @ + 1] ELSE asked
             /\ main' = [main EXCEPT !.pc = "err"]
             /\ UNCHANGED <<started, conn, refused, wire, edge, open, refs, thread_refs, pool, fields,
                            io, crash, ended>>
    <3>1. ~ ready_out[main.sock] /\ socket_ = main.sock
      BY <1>1, <1>8, <2>5 DEF writable
    <3>2. CASE conn[main.sock] = "up"
      BY <1>5, <1>8, <2>5, <3>1, <3>2
    <3>3. CASE conn[main.sock] # "up"
      <4>1. UNCHANGED peers
        BY <2>5, <3>1, <3>3 DEF peers
      <4>2. main' = [main EXCEPT !.pc = "err", !.ev = main.ev]
        BY <1>1, <2>5 DEF MainType
      <4> QED
        BY <1>4, <1>8, <2>2, <2>5, <3>3, <4>1, <4>2
    <3> QED
      BY <3>2, <3>3
  <2> QED
    BY <2>1, <2>3, <2>4, <2>5
<1>9. CASE ~ ("OUT" \in main.ev /\ deadly(main.sock)) /\ ~ ("OUT" \in main.ev /\ writable(main.sock))
    BY <1>6, <1>9 DEF pollOut
<1> QED
    BY <1>7, <1>8, <1>9

LEMMA PollErrStep == ASSUME ClientInv, pollErr PROVE ClientInv'
<1> USE DEF ClientInv
<1>1. /\ main.pc = "err" /\ main \in MainType /\ (ended = {} => During)
      /\ refs \in [Starts -> Int] /\ open \in [Starts -> BOOLEAN] /\ socket_ \in Starts \cup {NULL}
    BY DEF pollErr, Up, Before, ClientTypes
<1>2. "ERR" \in main.ev => ended # {}
    BY <1>1 DEF During, Fine
<1>3. CASE "ERR" \in main.ev /\ deadly(socket_)
  <2>1. dies(cause(socket_))
    BY <1>3 DEF pollErr
  <2> QED
    BY <1>2, <1>3, <2>1, DiesStep
<1>4. CASE ~ ("ERR" \in main.ev /\ deadly(socket_))
  <2>1. /\ UNCHANGED <<started, conn, asked, ready_out, thread_refs, pool, thread_, event_que_, io,
                       crash, ended>>
        /\ main' = [main EXCEPT !.pc = "pop"]
    BY <1>4 DEF pollErr, peers
  <2>2. /\ main' \in MainType /\ main'.pc = "pop" /\ main'.cnt = main.cnt /\ main'.ev = main.ev
        /\ main'.sock = main.sock
    BY <1>1, <2>1 DEF MainType
  <2>3. \/ "ERR" \notin main.ev /\ UNCHANGED <<refs, open, socket_>>
        \/ "ERR" \in main.ev /\ releases(socket_) /\ socket_' = NULL /\ socket_ \in Starts
    BY <1>1, <1>4 DEF pollErr, deadly
  <2>4. /\ refs' \in [Starts -> Int] /\ open' \in [Starts -> BOOLEAN] /\ socket_' \in {socket_, NULL}
    <3>1. CASE UNCHANGED <<refs, open, socket_>>
      BY <1>1, <3>1
    <3>2. CASE releases(socket_) /\ socket_' = NULL /\ socket_ \in Starts
      <4>1. refs' \in [Starts -> Int]
        BY <1>1, <3>2 DEF releases
      <4>2. open' \in [Starts -> BOOLEAN]
        BY <1>1, <3>2 DEF releases
      <4> QED
        BY <3>2, <4>1, <4>2
    <3> QED
      BY <2>3, <3>1, <3>2
  <2>5. ClientTypes'
    BY <1>1, <2>1, <2>2, <2>4 DEF ClientTypes
  <2>6. Asking'
    BY <1>1, <2>1, <2>2, <2>4 DEF Asking, Polling
  <2>7. Up'
    <3> SUFFICES ASSUME ended = {} PROVE Up'
        BY <2>1 DEF Up
    <3>1. UNCHANGED <<refs, open, socket_>>
      BY <1>2, <2>3
    <3>2. During'
      BY <1>1, <2>1, <2>2, <3>1 DEF During, Polling, Fine, One
    <3> QED
      BY <2>1, <3>2 DEF Up
  <2> QED
    BY <2>5, <2>6, <2>7
<1> QED
    BY <1>3, <1>4

---------------------------------------------------------------------------------
(* The IO thread's steps.                                                    *)

\* What connect, activate, the loop and a receive have in common.
LEMMA IoStep ==
    ASSUME ClientInv, NEW n \in Starts, io[n].pc # "none",
           UNCHANGED <<started, asked, open, refs, thread_refs, pool, socket_, thread_,
                       event_que_, main, crash, ended>>,
           conn' \in [Starts -> {"none", "connecting", "up", "broken"}],
           \A k \in Starts : conn'[k] = conn[k] \/ (conn[k] = "none" /\ conn'[k] = "connecting"),
           ready_out' \in [Starts -> BOOLEAN],
           \A k \in Starts : ready_out'[k] = ready_out[k] \/ conn[k] # "up",
           io' \in [Starts -> IoType], io'[n].ev = io[n].ev,
           \A k \in Starts : k # n => io'[k] = io[k]
    PROVE  ClientInv'
<1> USE DEF ClientInv
<1>1. ClientTypes'
    BY DEF ClientTypes
<1>2. Asking'
  <2>1. \A k \in Starts : conn'[k] = "broken" => k \in ended'
    BY DEF Asking
  <2>2. \A k \in Starts : asked'[k] > 0 => conn'[k] \in {"up", "broken"}
    BY DEF Asking
  <2>3. \A k \in Starts : k \in ended' \/ asked'[k] = 0 \/ (asked'[k] = 1 /\ ready_out'[k] = TRUE)
    <3> SUFFICES ASSUME NEW k \in Starts, k \notin ended, asked[k] # 0
                 PROVE  asked[k] = 1 /\ ready_out'[k] = TRUE
        OBVIOUS
    <3>1. asked[k] = 1 /\ ready_out[k] = TRUE
      BY DEF Asking
    <3>2. conn[k] = "up"
      BY <3>1 DEF Asking
    <3> QED
      BY <3>1, <3>2
  <2> QED
    BY <2>1, <2>2, <2>3 DEF Asking, Polling
<1>3. Up'
  <2> SUFFICES ASSUME ended = {} PROVE Up'
      BY DEF Up
  <2>1. During
    BY DEF Up, Before
  <2>2. n = 1 /\ \A k \in Starts : (k # 1 => io'[k].pc = "none") /\ io'[k].ev = io[k].ev
    BY <2>1 DEF During
  <2>3. conn[1] = "up" => conn'[1] = "up"
    BY <2>1 DEF During
  <2>4. \A k \in Starts : "ERR" \notin io'[k].ev /\ ("OUT" \in io'[k].ev => conn'[1] = "up")
    BY <2>1, <2>2, <2>3 DEF During, Fine
  <2>5. /\ "ERR" \notin main.ev /\ ("OUT" \in main.ev => conn'[1] = "up")
        /\ \A i \in DOMAIN event_que_ : /\ "ERR" \notin event_que_[i]
                                       /\ "OUT" \in event_que_[i] => conn'[1] = "up"
    BY <2>1, <2>3 DEF During, Fine
  <2>6. During'
    BY <2>1, <2>2, <2>4, <2>5 DEF During, Polling, Fine, One
  <2> QED
    BY <2>1, <2>6 DEF Up
<1> QED
    BY <1>1, <1>2, <1>3

LEMMA IoGoto ==
    ASSUME ClientTypes, NEW n \in Starts, NEW pc, ioGoto(n, pc),
           pc \in {"activate", "loop", "done", "wait", "handle", "recv", "push"}
    PROVE  /\ io' \in [Starts -> IoType] /\ io'[n].ev = io[n].ev
           /\ \A k \in Starts : k # n => io'[k] = io[k]
<1>1. io \in [Starts -> IoType] /\ io' = [io EXCEPT ![n].pc = pc]
    BY DEF ClientTypes, ioGoto
<1> QED
    BY <1>1 DEF IoType

\* While nothing has ended, only the first startup's IO thread runs.
LEMMA OnlyFirst ==
    ASSUME ClientInv, NEW n \in Starts, io[n].pc # "none", ended = {}
    PROVE  During /\ n = 1 /\ socket_ # NULL /\ ~ deadly(socket_)
<1>1. During
    BY DEF ClientInv, Up, Before
<1> QED
    BY <1>1, AliveWhileUp DEF During

LEMMA IoConnectStep == ASSUME ClientInv, NEW n \in Starts, ioConnect(n) PROVE ClientInv'
<1>1. ClientTypes /\ io[n].pc = "connect" /\ conn \in [Starts -> {"none", "connecting", "up", "broken"}]
      /\ ready_out \in [Starts -> BOOLEAN] /\ io \in [Starts -> IoType]
      /\ socket_ \in Starts \cup {NULL}
    BY DEF ioConnect, ClientInv, ClientTypes
<1>2. CASE deadly(socket_)
  <2>1. dies(cause(socket_))
    BY <1>2 DEF ioConnect
  <2>2. ended # {}
    BY <1>1, <1>2, OnlyFirst
  <2> QED
    BY <2>1, <2>2, DiesStep
<1>3. CASE ~ deadly(socket_)
  <2>1. UNCHANGED <<started, asked, open, refs, ready_out, thread_refs, pool, socket_, thread_,
                    event_que_, main, crash, ended>> /\ socket_ \in Starts
    BY <1>1, <1>3 DEF ioConnect, sockets, fields, deadly
  <2>2. CASE conn[socket_] = "up" /\ open[socket_]
    <3>1. ioGoto(n, "activate") /\ UNCHANGED conn
      BY <1>3, <2>2 DEF ioConnect
    <3> QED
      BY <1>1, <2>1, <3>1, IoGoto, IoStep
  <2>3. CASE ~ (conn[socket_] = "up" /\ open[socket_])
    <3>1. /\ UNCHANGED io
          /\ conn' = [conn EXCEPT ![socket_] =
                         IF @ = "none" /\ open[socket_] THEN "connecting" ELSE @]
      BY <1>3, <2>3 DEF ioConnect
    <3>2. /\ conn' \in [Starts -> {"none", "connecting", "up", "broken"}]
          /\ \A k \in Starts : conn'[k] = conn[k] \/ (conn[k] = "none" /\ conn'[k] = "connecting")
      BY <1>1, <2>1, <3>1
    <3> QED
      BY <1>1, <2>1, <3>1, <3>2, IoStep
  <2> QED
    BY <2>2, <2>3
<1> QED
    BY <1>2, <1>3

\* ioActivate, ioLoop and ioHandle only move the thread.
LEMMA IoMoveStep ==
    ASSUME ClientInv, NEW n \in Starts, ioActivate(n) \/ ioLoop(n) \/ ioHandle(n)
    PROVE  ClientInv'
<1>1. /\ UNCHANGED <<started, conn, asked, open, refs, ready_out, thread_refs, pool, socket_,
                     thread_, event_que_, main, crash, ended>>
      /\ io[n].pc # "none"
    BY DEF ioActivate, ioLoop, ioHandle, peers, sockets, fields
<1>2. \E pc \in {"activate", "loop", "done", "wait", "handle", "recv", "push"} : ioGoto(n, pc)
    BY DEF ioActivate, ioLoop, ioHandle
<1>3. ClientTypes /\ conn \in [Starts -> {"none", "connecting", "up", "broken"}]
      /\ ready_out \in [Starts -> BOOLEAN]
    BY DEF ClientInv, ClientTypes
<1>4. /\ io' \in [Starts -> IoType] /\ io'[n].ev = io[n].ev
      /\ \A k \in Starts : k # n => io'[k] = io[k]
    BY <1>2, <1>3, IoGoto
<1> QED
    BY <1>1, <1>3, <1>4, IoStep

LEMMA IoRecvStep == ASSUME ClientInv, NEW n \in Starts, ioRecv(n) PROVE ClientInv'
<1>1. /\ ClientTypes /\ io[n].pc = "recv" /\ conn \in [Starts -> {"none", "connecting", "up", "broken"}]
      /\ ready_out \in [Starts -> BOOLEAN] /\ socket_ \in Starts \cup {NULL}
    BY DEF ioRecv, ClientInv, ClientTypes
<1>2. CASE deadly(socket_)
  <2>1. dies(cause(socket_))
    BY <1>2 DEF ioRecv
  <2>2. ended # {}
    BY <1>1, <1>2, OnlyFirst
  <2> QED
    BY <2>1, <2>2, DiesStep
<1>3. CASE ~ deadly(socket_)
  <2>1. /\ UNCHANGED <<started, conn, asked, open, refs, thread_refs, pool, socket_, thread_,
                       event_que_, main, crash, ended>>
        /\ ioGoto(n, "push")
        /\ ready_out' = IF conn[socket_] = "up" THEN ready_out
                        ELSE [ready_out EXCEPT ![socket_] = FALSE]
    BY <1>3 DEF ioRecv, fields
  <2>2. socket_ \in Starts
    BY <1>1, <1>3 DEF deadly
  <2>3. /\ ready_out' \in [Starts -> BOOLEAN]
        /\ \A k \in Starts : ready_out'[k] = ready_out[k] \/ conn[k] # "up"
    <3>1. CASE conn[socket_] = "up"
      BY <1>1, <2>1, <3>1
    <3>2. CASE conn[socket_] # "up"
      BY <1>1, <2>1, <2>2, <3>2
    <3> QED
      BY <3>1, <3>2
  <2>4. /\ io' \in [Starts -> IoType] /\ io'[n].ev = io[n].ev
        /\ \A k \in Starts : k # n => io'[k] = io[k]
    BY <1>1, <2>1, IoGoto
  <2> QED
    BY <1>1, <2>1, <2>3, <2>4, IoStep
<1> QED
    BY <1>2, <1>3

LEMMA IoWaitStep == ASSUME ClientInv, NEW n \in Starts, ioWait(n) PROVE ClientInv'
<1> USE DEF ClientInv
<1>1. /\ UNCHANGED <<started, conn, asked, open, refs, ready_out, thread_refs, pool, socket_,
                     thread_, event_que_, main, crash, ended>>
      /\ io[n].pc = "wait" /\ io \in [Starts -> IoType]
      /\ io' = [io EXCEPT ![n] = [pc |-> "handle", ev |-> ready(n)]]
    BY DEF ioWait, sockets, fields, ClientTypes
<1>2. ready(n) \in SUBSET Polls
    BY DEF ready, Polls
<1>3. /\ io' \in [Starts -> IoType] /\ io'[n].ev = ready(n) /\ io'[n].pc = "handle"
      /\ \A k \in Starts : k # n => io'[k] = io[k]
    BY <1>1, <1>2 DEF IoType
<1>4. ClientTypes'
    BY <1>1, <1>3 DEF ClientTypes
<1>5. Asking'
    BY <1>1 DEF Asking, Polling
<1>6. Up'
  <2> SUFFICES ASSUME ended = {} PROVE Up'
      BY <1>1 DEF Up
  <2>1. During /\ n = 1
    BY <1>1, OnlyFirst
  <2>2. conn[1] # "broken"
    BY <2>1 DEF During, Asking
  <2>3. Fine(ready(n))
    BY <2>1, <2>2 DEF Fine, ready
  <2>4. \A k \in Starts : (k # 1 => io'[k].pc = "none") /\ Fine(io'[k].ev)
    BY <1>3, <2>1, <2>3 DEF During
  <2>5. During'
    BY <1>1, <2>1, <2>4 DEF During, Polling, Fine, One
  <2> QED
    BY <1>1, <2>1, <2>5 DEF Up
<1> QED
    BY <1>4, <1>5, <1>6

LEMMA IoSignalStep == ASSUME ClientInv, NEW n \in Starts, ioSignal(n) PROVE ClientInv'
<1>1. ClientTypes /\ io[n].pc = "wait"
    BY DEF ioSignal, ClientInv
<1>2. CASE deadly(socket_)
  <2>1. dies(cause(socket_))
    BY <1>2 DEF ioSignal
  <2>2. ended # {}
    BY <1>1, <1>2, OnlyFirst
  <2> QED
    BY <2>1, <2>2, DiesStep
<1>3. CASE ~ deadly(socket_)
  <2>1. /\ UNCHANGED <<started, conn, asked, open, refs, ready_out, thread_refs, pool, socket_,
                       thread_, main, crash>>
        /\ ioGoto(n, "done") /\ ended' = ended \cup {n}
        /\ event_que_' = Append(event_que_, {"ERR"})
    BY <1>3 DEF ioSignal, peers, sockets
  <2>2. io' \in [Starts -> IoType]
    BY <1>1, <2>1, IoGoto
  <2>3. event_que_' \in Seq(SUBSET Polls) /\ main.cnt <= Len(event_que_')
    <3>1. event_que_ \in Seq(SUBSET Polls) /\ {"ERR"} \in SUBSET Polls
      BY <1>1 DEF ClientTypes, Polls
    <3>2. main.cnt <= Len(event_que_) /\ main.cnt \in Nat
      BY <1>1 DEF ClientTypes, MainType
    <3>3. event_que_' \in Seq(SUBSET Polls) /\ Len(event_que_') = Len(event_que_) + 1
      BY <2>1, <3>1, AppendProperties
    <3>4. Len(event_que_) \in Nat
      BY <3>1
    <3> QED
      BY <3>2, <3>3, <3>4
  <2>4. ClientTypes'
    BY <1>1, <2>1, <2>2, <2>3 DEF ClientTypes
  <2>5. Asking'
    BY <2>1 DEF ClientInv, Asking, Polling
  <2>6. Up'
    BY <2>1 DEF Up
  <2> QED
    BY <2>4, <2>5, <2>6 DEF ClientInv
<1> QED
    BY <1>2, <1>3

LEMMA IoPushStep == ASSUME ClientInv, NEW n \in Starts, ioPush(n) PROVE ClientInv'
<1> USE DEF ClientInv
<1>1. /\ UNCHANGED <<started, conn, asked, open, refs, ready_out, thread_refs, pool, socket_,
                     thread_, main, crash, ended>>
      /\ io[n].pc = "push" /\ io \in [Starts -> IoType] /\ event_que_ \in Seq(SUBSET Polls)
      /\ io' = [io EXCEPT ![n] = [pc |-> "loop", ev |-> {}]]
      /\ event_que_' = Append(event_que_, io[n].ev)
    BY DEF ioPush, peers, sockets, ClientTypes
<1>2. /\ io' \in [Starts -> IoType] /\ io'[n].ev = {} /\ io'[n].pc = "loop"
      /\ \A k \in Starts : k # n => io'[k] = io[k]
    BY <1>1 DEF IoType
<1>3. /\ event_que_' \in Seq(SUBSET Polls) /\ Len(event_que_') = Len(event_que_) + 1
      /\ \A i \in DOMAIN event_que_' : event_que_'[i] = io[n].ev
                                       \/ (i \in DOMAIN event_que_ /\ event_que_'[i] = event_que_[i])
  <2>1. io[n].ev \in SUBSET Polls
    BY <1>1 DEF IoType
  <2> QED
    BY <1>1, <2>1, AppendProperties
<1>4. main.cnt <= Len(event_que_')
  <2>1. main.cnt <= Len(event_que_) /\ main.cnt \in Nat /\ Len(event_que_) \in Nat
    BY <1>1 DEF ClientTypes, MainType
  <2> QED
    BY <1>3, <2>1
<1>5. ClientTypes'
    BY <1>1, <1>2, <1>3, <1>4 DEF ClientTypes
<1>6. Asking'
    BY <1>1 DEF Asking, Polling
<1>7. Up'
  <2> SUFFICES ASSUME ended = {} PROVE Up'
      BY <1>1 DEF Up
  <2>1. During /\ n = 1
    BY <1>1, OnlyFirst
  <2>2. Fine(io[n].ev) /\ Fine(io'[n].ev)
    BY <1>2, <2>1 DEF During, Fine
  <2>3. \A k \in Starts : (k # 1 => io'[k].pc = "none") /\ Fine(io'[k].ev)
    BY <1>2, <2>1, <2>2 DEF During
  <2>4. \A i \in DOMAIN event_que_' : Fine(event_que_'[i])
    BY <1>3, <2>1, <2>2 DEF During
  <2>5. During'
    BY <1>1, <2>1, <2>3, <2>4 DEF During, Polling, Fine, One
  <2> QED
    BY <1>1, <2>1, <2>5 DEF Up
<1> QED
    BY <1>5, <1>6, <1>7

---------------------------------------------------------------------------------
\* The invariant of the client, for any startups, refusals, breaks, signals and shutdowns.
THEOREM ClientInvariant == Spec => []ClientInv
<1>1. Init => ClientInv
  <2> SUFFICES ASSUME Init PROVE ClientInv
      OBVIOUS
  <2>1. ClientTypes
    <3>1. main \in MainType /\ io \in [Starts -> IoType] /\ main.cnt = 0 /\ main.pc = "idle"
      BY DEF Init, MainType, IoType
    <3>2. event_que_ \in Seq(SUBSET Polls) /\ Len(event_que_) = 0
      BY DEF Init
    <3> QED
      BY <3>1, <3>2 DEF Init, ClientTypes
  <2>2. Asking
    BY DEF Init, Asking, Polling
  <2>3. Up
    BY DEF Init, Up, Before
  <2> QED
    BY <2>1, <2>2, <2>3 DEF ClientInv
<1>2. ClientInv /\ [Next]_vars => ClientInv'
  <2> SUFFICES ASSUME ClientInv, [Next]_vars PROVE ClientInv'
      OBVIOUS
  <2>1. CASE startupSocket
    BY <2>1, StartupSocketStep
  <2>2. CASE shutdownSocket
    BY <2>2, ShutdownSocketStep
  <2>3. CASE frame
    BY <2>3, StartupThreadStep, ShutdownThreadStep, ClearPoolStep, PollBeginStep, PollPopStep,
       PollInStep, PollOutStep, PollErrStep DEF frame
  <2>4. ASSUME NEW n \in Starts, peer(n) PROVE ClientInv'
    BY <2>4, ConnStep DEF peer
  <2>5. ASSUME NEW n \in Starts, thread(n) PROVE ClientInv'
    BY <2>5, IoConnectStep, IoMoveStep, IoRecvStep, IoWaitStep, IoPushStep DEF thread
  <2>6. ASSUME NEW n \in Starts, ioSignal(n) PROVE ClientInv'
    BY <2>6, IoSignalStep
  <2>7. CASE UNCHANGED vars
    <3>1. UNCHANGED <<started, conn, asked, open, refs, ready_out, thread_refs, pool, socket_,
                      thread_, event_que_, main, io, crash, ended>>
      BY <2>7 DEF vars
    <3>2. ClientTypes' /\ Asking'
      BY <3>1 DEF ClientInv, ClientTypes, Asking, Polling
    <3>3. Before' = Before /\ During' = During
      BY <3>1 DEF Before, During, Fine, One, Polling
    <3> QED
      BY <3>1, <3>2, <3>3 DEF ClientInv, Up
  <2> QED
    BY <2>1, <2>2, <2>3, <2>4, <2>5, <2>6, <2>7 DEF Next
<1> QED
    BY <1>1, <1>2, PTL DEF Spec

\* Client.cpp, Client_linux.cpp: until its end begins, no part of the client meets a NULL or
\* deleted Socket, or joins its thread in a destructor, in whatever order its two threads,
\* the server and the frame's RefPool come.
THEOREM ClientSafe == Spec => []SafeWhileUp
<1>1. ClientInv => SafeWhileUp
    BY DEF ClientInv, Up, SafeWhileUp
<1> QED
    BY <1>1, ClientInvariant, PTL

\* Client.cpp:108: however often a socket is reported writable, its session is asked for once.
THEOREM ClientAsksOnce == Spec => []AskedOnce
<1>1. ClientInv => AskedOnce
  <2> SUFFICES ASSUME ClientInv, NEW n \in Starts, n \notin ended PROVE asked[n] <= 1
      BY DEF AskedOnce
  <2>1. asked[n] = 0 \/ asked[n] = 1
    BY DEF ClientInv, Asking
  <2> QED
    BY <2>1
<1> QED
    BY <1>1, ClientInvariant, PTL
=================================================================================
