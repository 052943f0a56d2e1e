---------------------------------- MODULE Socket --------------------------------
(***************************************************************************)
(* network/Socket.cpp: how packets become a byte stream and packets again. *)
(* One direction of one connection: the sending ISocket, driven by its     *)
(* main thread (sendPacket, flushSend, doSend, sendBuffer); the kernel's   *)
(* two socket buffers; the receiving ISocket, driven by its IO thread      *)
(* (flushRecv, recvBuffer, doRecv).  Every ::send and every ::recv is a    *)
(* step of its own, so bytes arrive and leave between any two of them.     *)
(*                                                                         *)
(* Bytes are cells: a header is one cell for each of its three fields, a   *)
(* body is one cell for each of its bytes.  A buffer is the cells that can *)
(* be read from it (data) and the number it still has room for (room); the *)
(* code never gives room back to send_bufs_ and recv_bufs_ by compaction,  *)
(* because it never writes more than fits.                                 *)
(***************************************************************************)
EXTENDS Integers, Sequences, SequencesExt

CONSTANTS PACKET_SIZE,   \* the size of send_bufs_ and of recv_bufs_
          Bodies,        \* the body sizes packets may have; NULL: no buffer at all
          MaxPackets,    \* bound: the packets given to sendPacket
          U16,           \* the modulus of the header's length field, 2^16
          SndCap,        \* the kernel's send buffer, in cells
          RcvCap,        \* the kernel's receive buffer, in cells
          PeerSeeds,     \* the seeds a sender may use; this code's is always 0
          Failures,      \* TRUE: the sender may close, the connection may reset
          NULL           \* no packet, no buffer

ASSUME SocketAssumption ==
    /\ PACKET_SIZE \in Nat \ {0}
    /\ Bodies \subseteq Nat \cup {NULL}
    /\ MaxPackets \in Nat
    /\ U16 \in Nat \ {0}
    /\ SndCap \in Nat \ {0} /\ RcvCap \in Nat \ {0}
    /\ PeerSeeds \subseteq Nat
    /\ Failures \in BOOLEAN

\* NULL is no buffer and no packet.
ASSUME NullAssumption ==
    /\ NULL \notin [data : Seq(Nat), room : Nat]
    /\ NULL \notin [pid : Nat, body : Seq(Nat) \cup {NULL}] /\ NULL # "open"

SOCKET_SP_CLEAR == -2
SOCKET_SP_BLOCK == 0
SOCKET_RP_BLOCK == 0
SOCKET_ERROR == -1

VARIABLES
    sent,            \* history: the packets given to sendPacket
    send_que_,       \* the packets waiting behind send_packet_
    send_packet_,    \* the packet being copied into send_bufs_
    send_head_buf_,  \* what is left to copy of its header
    send_buf_,       \* what is left to copy of its body
    copied,          \* history: the cells copied into send_bufs_
    send_bufs_,      \* the buffer handed to ::send
    packet_seed_,    \* the sender's seed
    ready_out,       \* the sender's flag: the socket takes bytes
    spc, sret,       \* where flushSend is; doSend's last result
    sndbuf, rcvbuf,  \* the kernel's buffers at the two ends
    conn,            \* "up", "fin" (closed by the sender) or "reset"
    pollin,          \* an EPOLLIN edge the receiver's thread has not taken
    pollout,         \* an EPOLLOUT event the sender has not handled
    nospace,         \* ::send found no room since the last EPOLLOUT edge
    recv_bufs_,      \* the buffer ::recv fills
    consumed,        \* history: the cells taken out of recv_bufs_
    recv_packet_,    \* "open" while a packet is being received
    recv_head_buf_,  \* the cells of its header so far
    recv_buf_,       \* its body's buffer
    recv_que_,       \* the packets received
    need_recv,       \* flushRecv's local: the last recvBuffer filled the buffer
    rpc              \* where flushRecv is

sender == <<sent, send_que_, send_packet_, send_head_buf_, send_buf_, copied,
            send_bufs_, packet_seed_, ready_out, spc, sret>>
receiver == <<recv_bufs_, consumed, recv_packet_, recv_head_buf_, recv_buf_, recv_que_,
              need_recv, rpc>>
kernel == <<sndbuf, rcvbuf, conn, pollin, pollout, nospace>>
vars == <<sent, send_que_, send_packet_, send_head_buf_, send_buf_, copied,
          send_bufs_, packet_seed_, ready_out, spc, sret,
          sndbuf, rcvbuf, conn, pollin, pollout, nospace,
          recv_bufs_, consumed, recv_packet_, recv_head_buf_, recv_buf_, recv_que_,
          need_recv, rpc>>

---------------------------------------------------------------------------------
(* Packets.                                                                  *)

\* The n-th packet of the run: its id and its body tell it from every other.
PacketOf(n, size) ==
    [pid |-> n, body |-> IF size = NULL THEN NULL ELSE [i \in 1 .. size |-> 10 * n + i]]

Body(pack) == IF pack.body = NULL THEN <<>> ELSE pack.body

\* Mutant of packHeader: the fields in another order than unpackHeader's.
packHeaderSwapped(pack, seed) == <<seed, pack.pid, Len(Body(pack)) % U16>>

\* Packet::init's length and Packet::packHeader: seed, length, pid.
packHeader(pack, seed) == <<seed, Len(Body(pack)) % U16, pack.pid>>
HeaderSize == 3

EmptyBuffer(size) == [data |-> <<>>, room |-> size]
\* std::min, and what is left of a buffer after its first n cells are read.
min(a, b) == IF a < b THEN a ELSE b
Drop(s, n) == SubSeq(s, n + 1, Len(s))

Init ==
    /\ sent = <<>> /\ send_que_ = <<>>
    /\ send_packet_ = NULL /\ send_head_buf_ = <<>> /\ send_buf_ = <<>>
    /\ send_bufs_ = NULL /\ copied = <<>>
    /\ packet_seed_ \in PeerSeeds
    /\ ready_out = FALSE
    /\ spc = "idle" /\ sret = 0
    /\ sndbuf = <<>> /\ rcvbuf = <<>> /\ conn = "up"
    /\ pollin = FALSE /\ pollout = TRUE /\ nospace = FALSE
    /\ recv_bufs_ = NULL /\ consumed = <<>> /\ recv_packet_ = NULL
    /\ recv_head_buf_ = <<>> /\ recv_buf_ = NULL
    /\ recv_que_ = <<>> /\ need_recv = FALSE /\ rpc = "epoll_wait"

---------------------------------------------------------------------------------
(* The sender.                                                               *)

\* Mutant of flushSend: the buffer is not created.
flushSendWithoutBuffer ==
    /\ spc' = "doSend"
    /\ UNCHANGED send_bufs_

\* flushSend's beginning: the buffer is there before the first doSend.
flushSend ==
    /\ spc' = "doSend"
    /\ send_bufs_' = IF send_bufs_ = NULL THEN EmptyBuffer(PACKET_SIZE) ELSE send_bufs_

\* Mutant of sendPacket: the packet is queued and nothing flushes.
sendPacketQueuesOnly(size) ==
    /\ spc = "idle"
    /\ conn # "fin"
    /\ Len(sent) < MaxPackets
    /\ LET pack == PacketOf(Len(sent) + 1, size)
       IN  /\ sent' = Append(sent, pack)
           /\ send_que_' = Append(send_que_, pack)
    /\ UNCHANGED <<spc, send_bufs_, send_packet_, send_head_buf_, send_buf_, copied,
                   packet_seed_, ready_out, sret, kernel, receiver>>

\* sendPacket: queue the packet; flush when the socket takes bytes.
sendPacket(size) ==
    /\ spc = "idle"
    /\ conn # "fin"
    /\ Len(sent) < MaxPackets
    /\ LET pack == PacketOf(Len(sent) + 1, size)
       IN  /\ sent' = Append(sent, pack)
           /\ send_que_' = Append(send_que_, pack)
    /\ IF ready_out THEN flushSend ELSE UNCHANGED <<spc, send_bufs_>>
    /\ UNCHANGED <<send_packet_, send_head_buf_, send_buf_, copied, packet_seed_,
                   ready_out, sret, kernel, receiver>>

\* handlePollEvent on KIT_POLLOUT: only the first one raises ready_out and flushes.
handlePollOut ==
    /\ spc = "idle"
    /\ pollout
    /\ pollout' = FALSE
    /\ IF ready_out \/ conn = "fin"
         THEN UNCHANGED <<ready_out, spc, send_bufs_>>
         ELSE ready_out' = TRUE /\ flushSend
    /\ UNCHANGED <<sent, send_que_, send_packet_, send_head_buf_, send_buf_, copied,
                   packet_seed_, sret, sndbuf, rcvbuf, conn, pollin, nospace, receiver>>

\* Mutant of flushSendEnds: the buffer goes back with cells in it.
flushSendDropsRest(bufs) ==
    /\ spc' = "idle"
    /\ send_bufs_' = NULL

\* The end of flushSend: an empty buffer goes back to the pool.
flushSendEnds(bufs) ==
    /\ spc' = "idle"
    /\ send_bufs_' = IF bufs.data = <<>> THEN NULL ELSE bufs

\* flushSend after doSend: ::send when the buffer is full, or when there is
\* something in it and nothing more to add.
afterDoSend(ret, bufs) ==
    /\ sret' = ret
    /\ \/ /\ bufs.room = 0 \/ (ret <= 0 /\ bufs.data # <<>>)
          /\ spc' = "sendBuffer"
          /\ send_bufs_' = bufs
       \/ /\ bufs.room # 0 /\ (ret > 0 \/ bufs.data = <<>>)
          /\ IF ret > 0 THEN spc' = "doSend" /\ send_bufs_' = bufs
                        ELSE flushSendEnds(bufs)

\* doSend's second half: copy what is left of the packet's header and body as far as
\* there is room.  A packet with a buffer is finished only when the header leaves room.
copyPacket(pack, head, body) ==
    LET room  == send_bufs_.room
        nhead == min(Len(head), room)
        nbody == min(Len(body), room - nhead)
        cells == SubSeq(head, 1, nhead) \o SubSeq(body, 1, nbody)
        bufs  == [data |-> send_bufs_.data \o cells, room |-> room - nhead - nbody]
        done  == /\ nhead = Len(head)
                 /\ pack.body = NULL \/ (nhead < room /\ nbody = Len(body))
        more  == done /\ (pack.body = NULL \/ bufs.room > 0)
    IN  /\ copied' = copied \o cells
        /\ send_packet_' = IF done THEN NULL ELSE pack
        /\ send_head_buf_' = Drop(head, nhead)
        /\ send_buf_' = Drop(body, nbody)
        /\ afterDoSend(IF more THEN nhead + nbody ELSE SOCKET_SP_BLOCK, bufs)

\* doSend: go on with the current packet, or begin with the next one in the queue.
doSend ==
    /\ spc = "doSend"
    /\ \/ /\ send_packet_ = NULL /\ send_que_ = <<>>
          /\ afterDoSend(SOCKET_SP_CLEAR, send_bufs_)
          /\ UNCHANGED <<send_que_, send_packet_, send_head_buf_, send_buf_, copied>>
       \/ /\ send_packet_ # NULL
          /\ copyPacket(send_packet_, send_head_buf_, send_buf_)
          /\ UNCHANGED send_que_
       \/ /\ send_packet_ = NULL /\ send_que_ # <<>>
          /\ LET pack == Head(send_que_)
             IN  copyPacket(pack, packHeader(pack, packet_seed_), Body(pack))
          /\ send_que_' = Tail(send_que_)
    /\ UNCHANGED <<sent, packet_seed_, ready_out, kernel, receiver>>

\* One ::send of sendBuffer: what the kernel has room for, nothing, or an error.
sendBuffer ==
    /\ spc = "sendBuffer"
    /\ \/ /\ conn = "reset"
          /\ sret' = SOCKET_ERROR
          /\ spc' = "idle" /\ send_bufs_' = NULL
          /\ UNCHANGED <<sndbuf, nospace>>
       \/ /\ conn = "up"
          /\ LET n    == min(Len(send_bufs_.data), SndCap - Len(sndbuf))
                 bufs == [send_bufs_ EXCEPT !.data = Drop(@, n)]
             IN  /\ sndbuf' = sndbuf \o SubSeq(send_bufs_.data, 1, n)
                 /\ nospace' = (nospace \/ n < Len(send_bufs_.data))
                 /\ \/ /\ n > 0 /\ bufs.data # <<>>
                       /\ spc' = "sendBuffer" /\ send_bufs_' = bufs
                    \/ /\ n = 0 \/ bufs.data = <<>>
                       /\ IF sret > 0 THEN spc' = "doSend" /\ send_bufs_' = bufs
                                      ELSE flushSendEnds(bufs)
          /\ UNCHANGED sret
    /\ UNCHANGED <<sent, send_que_, send_packet_, send_head_buf_, send_buf_, copied,
                   packet_seed_, ready_out, rcvbuf, conn, pollin, pollout, receiver>>

\* ISocket::close by the sender: what its own buffers still hold is never sent.
close ==
    /\ Failures
    /\ spc = "idle"
    /\ conn = "up"
    /\ conn' = "fin"
    /\ pollin' = TRUE
    /\ UNCHANGED <<sender, sndbuf, rcvbuf, pollout, nospace, receiver>>

---------------------------------------------------------------------------------
(* The kernel and the network.                                               *)

\* Cells travel from one kernel buffer to the other, any number at a time; the
\* receiver's descriptor gets an edge, and the sender's when ::send had no room.
deliver ==
    /\ conn # "reset"
    /\ \E n \in 1 .. min(Len(sndbuf), RcvCap - Len(rcvbuf)) :
          /\ rcvbuf' = rcvbuf \o SubSeq(sndbuf, 1, n)
          /\ sndbuf' = Drop(sndbuf, n)
    /\ pollin' = TRUE
    /\ pollout' = (pollout \/ nospace)
    /\ nospace' = FALSE
    /\ UNCHANGED <<sender, conn, receiver>>

\* The connection breaks: what is still under way is lost, both ends get an event.
reset ==
    /\ Failures
    /\ conn = "up"
    /\ conn' = "reset"
    /\ sndbuf' = <<>>
    /\ pollin' = TRUE
    /\ UNCHANGED <<sender, rcvbuf, pollout, nospace, receiver>>

---------------------------------------------------------------------------------
(* The receiver.                                                             *)

\* epoll_wait returns EPOLLIN and handleSocket calls flushRecv.
flushRecv ==
    /\ rpc = "epoll_wait"
    /\ pollin
    /\ pollin' = FALSE
    /\ recv_bufs_' = IF recv_bufs_ = NULL THEN EmptyBuffer(PACKET_SIZE) ELSE recv_bufs_
    /\ need_recv' = TRUE
    /\ rpc' = "recvBuffer"
    /\ UNCHANGED <<sender, sndbuf, rcvbuf, conn, pollout, nospace,
                   consumed, recv_packet_, recv_head_buf_, recv_buf_, recv_que_>>

\* SOCKET_RECV_ERROR: handleThread deletes the socket and its epoll entry.
recvFails ==
    /\ rpc' = "closed"
    /\ UNCHANGED need_recv

\* One ::recv of recvBuffer.  It goes on while the buffer has room and the last
\* answer was at least as long as what is still asked for.
recvBuffer ==
    /\ rpc = "recvBuffer"
    /\ LET room == recv_bufs_.room
           len  == min(Len(rcvbuf), room)
       IN  \/ /\ room > 0 /\ rcvbuf = <<>> /\ conn = "reset"
              /\ recvFails
              /\ UNCHANGED <<rcvbuf, recv_bufs_>>
           \/ /\ len = 0 /\ ~ (room > 0 /\ conn = "reset")
              /\ need_recv' = (room = 0)
              /\ rpc' = "doRecv"
              /\ UNCHANGED <<rcvbuf, recv_bufs_>>
           \/ /\ len > 0
              /\ recv_bufs_' = [data |-> recv_bufs_.data \o SubSeq(rcvbuf, 1, len),
                                room |-> room - len]
              /\ rcvbuf' = Drop(rcvbuf, len)
              /\ IF len < room /\ len >= room - len
                   THEN UNCHANGED <<need_recv, rpc>>
                   ELSE need_recv' = (len = room) /\ rpc' = "doRecv"
    /\ UNCHANGED <<sender, sndbuf, conn, pollin, pollout, nospace,
                   consumed, recv_packet_, recv_head_buf_, recv_buf_, recv_que_>>

\* Mutant of afterDoRecv: a filled buffer is not followed by another ::recv.
afterDoRecvNoRefill(ret) ==
    /\ rpc' = IF ret > 0 THEN "doRecv" ELSE "epoll_wait"
    /\ UNCHANGED <<need_recv, rcvbuf>>

\* flushRecv after doRecv: again while a packet came out or the buffer was filled.
afterDoRecv(ret) ==
    /\ rpc' = IF need_recv THEN "recvBuffer" ELSE IF ret > 0 THEN "doRecv" ELSE "epoll_wait"
    /\ UNCHANGED <<need_recv, rcvbuf>>

\* recvPacket: the packet is complete.
recvPacket(pack) ==
    /\ recv_que_' = Append(recv_que_, pack)
    /\ recv_packet_' = NULL
    /\ recv_buf_' = NULL

\* recv_bufs_->skipRead(n), once the n cells are copied out.
takes(n) ==
    /\ recv_bufs_' = [recv_bufs_ EXCEPT !.data = Drop(@, n)]
    /\ consumed' = consumed \o SubSeq(recv_bufs_.data, 1, n)

\* doRecv's last part: the body, after nhead cells went into the header.
recvBody(head, nhead, body0) ==
    LET rest  == Drop(recv_bufs_.data, nhead)
        nbody == min(Len(rest), body0.room)
        body  == [data |-> body0.data \o SubSeq(rest, 1, nbody), room |-> body0.room - nbody]
    IN  /\ takes(nhead + nbody)
        /\ \/ /\ body.room = 0
              /\ recvPacket([pid |-> head[3], body |-> body.data])
              /\ afterDoRecv(nhead + nbody)
           \/ /\ body.room > 0
              /\ recv_packet_' = "open"
              /\ recv_buf_' = body
              /\ afterDoRecv(SOCKET_RP_BLOCK)
              /\ UNCHANGED recv_que_

\* doRecv with the header as far as it has come: incomplete, of another seed
\* (recvClear), of a packet without a body, or followed by a body.
recvHead(head, nhead) ==
    /\ recv_head_buf_' = head
    /\ \/ /\ Len(head) < HeaderSize
          /\ takes(nhead)
          /\ recv_packet_' = "open"
          /\ afterDoRecv(SOCKET_RP_BLOCK)
          /\ UNCHANGED <<recv_buf_, recv_que_>>
       \/ /\ Len(head) = HeaderSize /\ recv_buf_ = NULL /\ head[1] # 0
          /\ takes(nhead)
          /\ rcvbuf' = <<>>
          /\ recv_packet_' = NULL
          /\ recvFails
          /\ UNCHANGED <<recv_buf_, recv_que_>>
       \/ /\ Len(head) = HeaderSize /\ recv_buf_ = NULL /\ head[1] = 0 /\ head[2] = 0
          /\ takes(nhead)
          /\ recvPacket([pid |-> head[3], body |-> NULL])
          /\ afterDoRecv(nhead)
       \/ /\ Len(head) = HeaderSize /\ recv_buf_ = NULL /\ head[1] = 0 /\ head[2] > 0
          /\ recvBody(head, nhead, EmptyBuffer(head[2]))
       \/ /\ Len(head) = HeaderSize /\ recv_buf_ # NULL
          /\ recvBody(head, nhead, recv_buf_)

\* doRecv: the header goes on where it stopped; a new packet begins with none.
doRecv ==
    /\ rpc = "doRecv"
    /\ LET head0 == IF recv_packet_ = NULL THEN <<>> ELSE recv_head_buf_
           nhead == min(HeaderSize - Len(head0), Len(recv_bufs_.data))
       IN  recvHead(head0 \o SubSeq(recv_bufs_.data, 1, nhead), nhead)
    /\ UNCHANGED <<sender, sndbuf, conn, pollin, pollout, nospace>>

---------------------------------------------------------------------------------
SenderNext == (\E size \in Bodies : sendPacket(size)) \/ handlePollOut \/ doSend
              \/ sendBuffer \/ close
ReceiverNext == flushRecv \/ recvBuffer \/ doRecv
Next == SenderNext \/ deliver \/ reset \/ ReceiverNext

Spec == Init /\ [][Next]_vars

\* Both loops run on threads the system schedules, and TCP delivers what it took.
Fairness ==
    /\ WF_vars(handlePollOut) /\ WF_vars(doSend) /\ WF_vars(sendBuffer)
    /\ WF_vars(deliver)
    /\ WF_vars(ReceiverNext)

FairSpec == Spec /\ Fairness

---------------------------------------------------------------------------------
(* Properties.                                                               *)

Data(buf) == IF buf = NULL THEN <<>> ELSE buf.data

Packet == [pid : Nat, body : Seq(Nat) \cup {NULL}]
Buffer == [data : Seq(Nat), room : Nat]

TypeOK ==
    /\ sent \in Seq(Packet) /\ send_que_ \in Seq(Packet) /\ recv_que_ \in Seq(Packet)
    /\ send_packet_ \in Packet \cup {NULL}
    /\ send_head_buf_ \in Seq(Nat) /\ send_buf_ \in Seq(Nat)
    /\ copied \in Seq(Nat) /\ consumed \in Seq(Nat)
    /\ sndbuf \in Seq(Nat) /\ Len(sndbuf) <= SndCap
    /\ rcvbuf \in Seq(Nat) /\ Len(rcvbuf) <= RcvCap
    /\ send_bufs_ # NULL => /\ send_bufs_ \in Buffer
                            /\ Len(send_bufs_.data) + send_bufs_.room <= PACKET_SIZE
    /\ recv_bufs_ # NULL => /\ recv_bufs_ \in Buffer
                            /\ Len(recv_bufs_.data) + recv_bufs_.room <= PACKET_SIZE
    /\ recv_buf_ # NULL => recv_buf_ \in Buffer
    /\ recv_head_buf_ \in Seq(Nat) /\ Len(recv_head_buf_) <= HeaderSize
    /\ packet_seed_ \in PeerSeeds /\ sret \in Int
    /\ ready_out \in BOOLEAN /\ pollin \in BOOLEAN /\ pollout \in BOOLEAN
    /\ nospace \in BOOLEAN /\ need_recv \in BOOLEAN
    /\ conn \in {"up", "fin", "reset"}
    /\ spc \in {"idle", "doSend", "sendBuffer"}
    /\ spc # "idle" => send_bufs_ # NULL
    /\ rpc \in {"epoll_wait", "recvBuffer", "doRecv", "closed"}
    /\ rpc \in {"recvBuffer", "doRecv"} => recv_bufs_ # NULL

\* What the receiver makes of a packet: a body of no bytes comes out as no buffer.
Received(pack) == [pid |-> pack.pid, body |-> IF Body(pack) = <<>> THEN NULL ELSE pack.body]

\* Whatever pieces ::send and ::recv cut the stream into, the packets received are,
\* one for one and in order, the first of the packets given to sendPacket; a sender
\* with another seed gets none through.
PacketsInOrder ==
    /\ Len(recv_que_) <= Len(sent)
    /\ \A i \in 1 .. Len(recv_que_) : recv_que_[i] = Received(sent[i])
    /\ recv_que_ # <<>> => packet_seed_ = 0

\* The cells under way, oldest first: each buffer of the code and of the kernel.
InFlight == Data(recv_bufs_) \o rcvbuf \o sndbuf \o Data(send_bufs_)

\* doRecv takes out exactly the cells doSend put in: none lost between the four
\* buffers, none twice, none out of order.  A broken connection and recvClear
\* throw cells away, and then what was taken out is still the beginning.
StreamConserved ==
    /\ IsPrefix(consumed, copied)
    /\ conn # "reset" /\ rpc # "closed" => copied = consumed \o InFlight

\* The descriptors are edge triggered, so a byte left behind when flushRecv returns
\* is not announced again: with no edge pending nothing is left in the kernel, and
\* no whole packet in recv_bufs_.
SleepsDrained ==
    rpc = "epoll_wait" => /\ Data(recv_bufs_) = <<>>
                          /\ ~ pollin => rcvbuf = <<>>

\* Below PACKET_SIZE cells over the life of the connection, and while the kernel has
\* room for them all, every packet given to sendPacket is received in the end.
Cells(packs) == FoldSeq(LAMBDA p, n : n + HeaderSize + Len(Body(p)), 0, packs)
Within == Cells(sent) < PACKET_SIZE /\ Cells(sent) <= SndCap

EveryPacketArrives ==
    \A n \in 1 .. MaxPackets :
        Len(sent) >= n ~> \/ Len(recv_que_) >= n
                          \/ ~ Within \/ conn # "up" \/ packet_seed_ # 0

\* Socket.h: flushRecv empties the receive side as far as possible and returns the
\* number of bytes; so it returns.
FlushRecvReturns == rpc = "recvBuffer" ~> rpc \in {"epoll_wait", "closed"}

\* Socket.h: recvBuffer returns -1 when the peer is gone; so a connection the peer
\* closed is given up.
PeerCloseNoticed == conn = "fin" ~> rpc = "closed"
=================================================================================
