------------------------------- MODULE SocketProofs ------------------------------
(***************************************************************************)
(* For every buffer size and every way ::send and ::recv cut the stream,   *)
(* the cells doSend copies into the sender's buffer are the cells doRecv   *)
(* takes out of the receiver's: none lost, repeated or out of order; and   *)
(* the packets completed from them are the packets sent; and the receiver  *)
(* sleeps only when it has nothing left to do.                             *)
(***************************************************************************)
EXTENDS Socket, TLAPS, SequenceTheorems

\* The first n cells and the rest are the whole.
LEMMA TakeDrop ==
    ASSUME NEW s \in Seq(Nat), NEW n \in 0 .. Len(s)
    PROVE  /\ SubSeq(s, 1, n) \in Seq(Nat) /\ Len(SubSeq(s, 1, n)) = n
           /\ Drop(s, n) \in Seq(Nat) /\ Len(Drop(s, n)) = Len(s) - n
           /\ SubSeq(s, 1, n) \o Drop(s, n) = s
<1>1. SubSeq(s, 1, n) \in Seq(Nat) /\ Len(SubSeq(s, 1, n)) = n
    BY SubSeqProperties
<1>2. Drop(s, n) \in Seq(Nat) /\ Len(Drop(s, n)) = Len(s) - n
    BY SubSeqProperties DEF Drop
<1>3. SubSeq(s, 1, n) \o SubSeq(s, n + 1, Len(s)) = SubSeq(s, 1, Len(s))
  <2>1. /\ Len(s) \in Nat /\ 1 \in 1 .. Len(s) + 1
        /\ n \in 1 - 1 .. Len(s) /\ Len(s) \in n .. Len(s)
    OBVIOUS
  <2> QED
    BY ONLY <2>1, s \in Seq(Nat), ConcatAdjacentSubSeq, Zenon
<1>4. SubSeq(s, 1, Len(s)) = s
    BY SubSeqFull
<1> QED
    BY <1>1, <1>2, <1>3, <1>4 DEF Drop

\* Concatenation associates; named, so that the provers apply it only where a step asks.
Associates(s, t, u) == (s \o t) \o u = s \o (t \o u)

LEMMA Assoc == \A s, t, u \in Seq(Nat) : Associates(s, t, u)
  BY ConcatAssociative DEF Associates

LEMMA ConcatSeq == \A s, t \in Seq(Nat) : s \o t \in Seq(Nat)
  BY ConcatProperties

\* Cells that move from one buffer to the next keep their place in the stream.
LEMMA MoveCells ==
    ASSUME NEW s \in Seq(Nat), NEW t \in Seq(Nat), NEW n \in 0 .. Len(t)
    PROVE  (s \o SubSeq(t, 1, n)) \o Drop(t, n) = s \o t
<1>1. /\ SubSeq(t, 1, n) \in Seq(Nat) /\ Drop(t, n) \in Seq(Nat)
      /\ SubSeq(t, 1, n) \o Drop(t, n) = t
    BY TakeDrop
<1>2. (s \o SubSeq(t, 1, n)) \o Drop(t, n) = s \o (SubSeq(t, 1, n) \o Drop(t, n))
    BY <1>1, Assoc DEF Associates
<1> QED
    BY <1>1, <1>2

\* A buffer with cells added.
LEMMA AddCells ==
    ASSUME NEW data \in Seq(Nat), NEW cells \in Seq(Nat), NEW room \in Nat, NEW n \in Nat,
           Len(cells) = n, n <= room
    PROVE  /\ [data |-> data \o cells, room |-> room - n] \in Buffer
           /\ data \o cells \in Seq(Nat)
           /\ Len(data \o cells) + (room - n) = Len(data) + room
<1> DEFINE b == [data |-> data \o cells, room |-> room - n]
<1>1. b.data = data \o cells /\ b.room = room - n
    OBVIOUS
<1>2. data \o cells \in Seq(Nat) /\ Len(data \o cells) = Len(data) + n
    BY ConcatProperties
<1>3. room - n \in Nat /\ Len(data) \in Nat
    OBVIOUS
<1>4. b \in Buffer
    BY <1>2, <1>3 DEF Buffer
<1>5. Len(data \o cells) + (room - n) = Len(data) + room
    BY ONLY <1>2, <1>3, n \in Nat, room \in Nat
<1> QED
    BY <1>2, <1>4, <1>5

LEMMA MinBound ==
    \A a, b \in Nat : /\ min(a, b) \in 0 .. a /\ min(a, b) <= a
                      /\ min(a, b) \in 0 .. b /\ min(a, b) <= b
  BY DEF min

---------------------------------------------------------------------------------
(* The sender's steps: what they do to the buffer, and which types they keep. *)

SendBufOK ==
    /\ send_bufs_ # NULL => /\ send_bufs_ \in Buffer
                            /\ Len(send_bufs_.data) + send_bufs_.room <= PACKET_SIZE
    /\ spc \in {"idle", "doSend", "sendBuffer"}
    /\ spc # "idle" => send_bufs_ # NULL

LEMMA BufferIsNotNull == \A b \in Buffer : b # NULL
  BY NullAssumption DEF Buffer

LEMMA FlushSendEffect ==
    ASSUME SendBufOK, flushSend
    PROVE  SendBufOK' /\ Data(send_bufs_)' = Data(send_bufs_)
<1>1. CASE send_bufs_ = NULL
  <2>1. send_bufs_' = EmptyBuffer(PACKET_SIZE)
    BY <1>1 DEF flushSend
  <2>2. EmptyBuffer(PACKET_SIZE) \in Buffer
    BY SocketAssumption DEF EmptyBuffer, Buffer
  <2>3. /\ send_bufs_' # NULL /\ send_bufs_' \in Buffer
        /\ send_bufs_'.data = <<>> /\ send_bufs_'.room = PACKET_SIZE
    BY <2>1, <2>2, BufferIsNotNull DEF EmptyBuffer
  <2> QED
    BY <1>1, <2>3, SocketAssumption DEF flushSend, SendBufOK, Data
<1>2. CASE send_bufs_ # NULL
    BY <1>2 DEF flushSend, SendBufOK, Data
<1> QED
    BY <1>1, <1>2

LEMMA FlushSendEndsEffect ==
    ASSUME NEW bufs \in Buffer, Len(bufs.data) + bufs.room <= PACKET_SIZE,
           flushSendEnds(bufs)
    PROVE  SendBufOK' /\ Data(send_bufs_)' = bufs.data
<1>1. CASE bufs.data = <<>>
    BY <1>1 DEF flushSendEnds, SendBufOK, Data
<1>2. CASE bufs.data # <<>>
    BY <1>2, BufferIsNotNull DEF flushSendEnds, SendBufOK, Data
<1> QED
    BY <1>1, <1>2

LEMMA AfterDoSendEffect ==
    ASSUME NEW ret \in Int, NEW bufs \in Buffer,
           Len(bufs.data) + bufs.room <= PACKET_SIZE, afterDoSend(ret, bufs)
    PROVE  SendBufOK' /\ Data(send_bufs_)' = bufs.data /\ sret' \in Int
<1>1. sret' \in Int
    BY DEF afterDoSend
<1>2. CASE flushSendEnds(bufs)
    BY <1>1, <1>2, FlushSendEndsEffect
<1>3. CASE spc' \in {"doSend", "sendBuffer"} /\ send_bufs_' = bufs
    BY <1>1, <1>3, BufferIsNotNull DEF SendBufOK, Data
<1> QED
    BY <1>2, <1>3 DEF afterDoSend

LEMMA PackHeaderType ==
    ASSUME NEW pack \in Packet, NEW seed \in Nat
    PROVE  Body(pack) \in Seq(Nat) /\ packHeader(pack, seed) \in Seq(Nat)
<1>1. Body(pack) \in Seq(Nat)
    BY DEF Packet, Body
<1>2. Len(Body(pack)) % U16 \in Nat
    BY <1>1, SocketAssumption
<1>3. pack.pid \in Nat
    BY DEF Packet
<1> QED
    BY <1>1, <1>2, <1>3 DEF packHeader

\* copyPacket appends the same cells to the buffer and to the stream's history.
LEMMA CopyPacketEffect ==
    ASSUME TypeOK, spc = "doSend",
           NEW pack \in Packet, NEW head \in Seq(Nat), NEW body \in Seq(Nat),
           copyPacket(pack, head, body)
    PROVE  /\ SendBufOK' /\ sret' \in Int
           /\ send_packet_' \in Packet \cup {NULL}
           /\ send_head_buf_' \in Seq(Nat) /\ send_buf_' \in Seq(Nat)
           /\ \E cells \in Seq(Nat) :
                 copied' = copied \o cells /\ Data(send_bufs_)' = Data(send_bufs_) \o cells
<1> DEFINE room  == send_bufs_.room
           nhead == min(Len(head), room)
           nbody == min(Len(body), room - nhead)
           cells == SubSeq(head, 1, nhead) \o SubSeq(body, 1, nbody)
           bufs  == [data |-> send_bufs_.data \o cells, room |-> room - nhead - nbody]
           done  == /\ nhead = Len(head)
                    /\ pack.body = NULL \/ (nhead < room /\ nbody = Len(body))
           more  == done /\ (pack.body = NULL \/ bufs.room > 0)
           ret   == IF more THEN nhead + nbody ELSE SOCKET_SP_BLOCK
<1>1. /\ send_bufs_ # NULL /\ room \in Nat /\ send_bufs_.data \in Seq(Nat)
      /\ Len(send_bufs_.data) + room <= PACKET_SIZE
    BY DEF TypeOK, Buffer
<1>2. /\ copied' = copied \o cells
      /\ send_packet_' = IF done THEN NULL ELSE pack
      /\ send_head_buf_' = Drop(head, nhead)
      /\ send_buf_' = Drop(body, nbody)
      /\ afterDoSend(ret, bufs)
    BY DEF copyPacket
<1>3. nhead \in 0 .. Len(head) /\ nhead <= room
    BY <1>1 DEF min
<1>4. nbody \in 0 .. Len(body) /\ nbody <= room - nhead
  <2> HIDE DEF nhead
  <2> QED
    BY <1>1, <1>3 DEF min
<1> HIDE DEF nhead, nbody
<1>5. /\ SubSeq(head, 1, nhead) \in Seq(Nat) /\ Len(SubSeq(head, 1, nhead)) = nhead
      /\ SubSeq(body, 1, nbody) \in Seq(Nat) /\ Len(SubSeq(body, 1, nbody)) = nbody
      /\ Drop(head, nhead) \in Seq(Nat) /\ Drop(body, nbody) \in Seq(Nat)
    BY <1>3, <1>4, TakeDrop
<1>6. cells \in Seq(Nat) /\ Len(cells) = nhead + nbody
    BY <1>3, <1>4, <1>5
<1> HIDE DEF cells
<1>7. bufs \in Buffer /\ Len(bufs.data) + bufs.room <= PACKET_SIZE
  <2> DEFINE len  == nhead + nbody
             old  == send_bufs_.data
             left == room - nhead - nbody
  <2>1. old \in Seq(Nat) /\ room \in Nat /\ Len(old) + room <= PACKET_SIZE
    BY <1>1
  <2> HIDE DEF room, old
  <2>2. nhead \in Nat /\ nbody \in Nat
    BY ONLY <1>3, <1>4, Len(head) \in Nat, Len(body) \in Nat
  <2>3. len \in Nat /\ len <= room /\ left = room - len
    BY ONLY <2>1, <2>2, <1>3, <1>4
  <2>4. Len(cells) = len
    BY <1>6
  <2> HIDE DEF len, left
  <2>5. old \o cells \in Seq(Nat) /\ Len(old \o cells) = Len(old) + len
    BY ONLY <2>1, <2>4, <1>6, ConcatProperties
  <2>6. left \in Nat /\ Len(old \o cells) + left <= PACKET_SIZE
    BY ONLY <2>1, <2>3, <2>5, Len(old) \in Nat, SocketAssumption
  <2>7. [data |-> old \o cells, room |-> left] \in Buffer
    BY ONLY <2>5, <2>6 DEF Buffer
  <2>8. bufs = [data |-> old \o cells, room |-> left]
    BY DEF old, left
  <2> HIDE DEF bufs
  <2>9. bufs.data = old \o cells /\ bufs.room = left
    BY <2>8
  <2> QED
    BY ONLY <2>6, <2>7, <2>8, <2>9
<1>8. bufs.data = Data(send_bufs_) \o cells
    BY <1>1 DEF Data
<1>9. ret \in Int
    BY <1>3, <1>4 DEF SOCKET_SP_BLOCK
<1> HIDE DEF bufs, ret
<1>10. SendBufOK' /\ Data(send_bufs_)' = bufs.data /\ sret' \in Int
    BY <1>2, <1>7, <1>9, AfterDoSendEffect
<1> QED
    BY <1>2, <1>5, <1>6, <1>8, <1>10

\* What a sender's step leaves alone, and what it keeps well-typed.
SenderTypes ==
    /\ SendBufOK
    /\ sent \in Seq(Packet) /\ send_que_ \in Seq(Packet)
    /\ send_packet_ \in Packet \cup {NULL}
    /\ send_head_buf_ \in Seq(Nat) /\ send_buf_ \in Seq(Nat) /\ copied \in Seq(Nat)
    /\ packet_seed_ \in PeerSeeds /\ sret \in Int /\ ready_out \in BOOLEAN

LEMMA SenderTypesHold == TypeOK => SenderTypes
  BY DEF TypeOK, SenderTypes, SendBufOK

LEMMA SendPacketEffect ==
    ASSUME TypeOK, NEW size \in Bodies, sendPacket(size)
    PROVE  /\ SenderTypes' /\ Data(send_bufs_)' = Data(send_bufs_)
           /\ UNCHANGED <<copied, kernel, receiver>>
<1> USE SenderTypesHold DEF SenderTypes
<1> DEFINE pack == PacketOf(Len(sent) + 1, size)
<1>1. pack \in Packet
  <2>1. Len(sent) \in Nat
    BY DEF TypeOK
  <2>2. size \in Nat => [i \in 1 .. size |-> 10 * (Len(sent) + 1) + i] \in Seq(Nat)
    BY <2>1
  <2> QED
    BY <2>1, <2>2, SocketAssumption DEF PacketOf, Packet
<1>2. sent' = Append(sent, pack) /\ send_que_' = Append(send_que_, pack)
    BY DEF sendPacket
<1>3. SendBufOK' /\ Data(send_bufs_)' = Data(send_bufs_)
  <2>1. CASE ready_out
    BY <2>1, FlushSendEffect DEF sendPacket
  <2>2. CASE ~ ready_out
    BY <2>2 DEF sendPacket, SendBufOK, Data
  <2> QED
    BY <2>1, <2>2
<1>4. UNCHANGED <<send_packet_, send_head_buf_, send_buf_, copied, packet_seed_,
                  ready_out, sret, kernel, receiver>>
    BY DEF sendPacket
<1> HIDE DEF pack
<1> QED
    BY <1>1, <1>2, <1>3, <1>4

LEMMA HandlePollOutEffect ==
    ASSUME TypeOK, handlePollOut
    PROVE  /\ SenderTypes' /\ Data(send_bufs_)' = Data(send_bufs_)
           /\ pollout' \in BOOLEAN
           /\ UNCHANGED <<copied, sndbuf, rcvbuf, conn, pollin, nospace, receiver>>
<1> USE SenderTypesHold DEF SenderTypes
<1>1. SendBufOK' /\ Data(send_bufs_)' = Data(send_bufs_) /\ ready_out' \in BOOLEAN
  <2>1. CASE ready_out \/ conn = "fin"
    BY <2>1 DEF handlePollOut, SendBufOK, Data
  <2>2. CASE ~ (ready_out \/ conn = "fin")
    BY <2>2, FlushSendEffect DEF handlePollOut
  <2> QED
    BY <2>1, <2>2
<1> QED
    BY <1>1 DEF handlePollOut

LEMMA DoSendEffect ==
    ASSUME TypeOK, doSend
    PROVE  /\ SenderTypes'
           /\ \E cells \in Seq(Nat) :
                 copied' = copied \o cells /\ Data(send_bufs_)' = Data(send_bufs_) \o cells
           /\ UNCHANGED <<kernel, receiver>>
<1> USE SenderTypesHold DEF SenderTypes
<1>0. UNCHANGED <<sent, packet_seed_, ready_out, kernel, receiver>> /\ spc = "doSend"
    BY DEF doSend
<1>1. CASE send_packet_ = NULL /\ send_que_ = <<>>
  <2>1. /\ afterDoSend(SOCKET_SP_CLEAR, send_bufs_)
        /\ UNCHANGED <<send_que_, send_packet_, send_head_buf_, send_buf_, copied>>
    BY <1>1 DEF doSend
  <2>2. /\ send_bufs_ # NULL /\ send_bufs_ \in Buffer /\ SOCKET_SP_CLEAR \in Int
        /\ Len(send_bufs_.data) + send_bufs_.room <= PACKET_SIZE
    BY <1>0 DEF SendBufOK, SOCKET_SP_CLEAR
  <2>3. SendBufOK' /\ Data(send_bufs_)' = send_bufs_.data /\ sret' \in Int
    BY <2>1, <2>2, AfterDoSendEffect
  <2>4. /\ copied' = copied \o <<>> /\ <<>> \in Seq(Nat)
        /\ Data(send_bufs_)' = Data(send_bufs_) \o <<>>
    BY <2>1, <2>2, <2>3 DEF Data, Buffer
  <2> QED
    BY <1>0, <2>1, <2>3, <2>4
<1>2. CASE send_packet_ # NULL
  <2>1. copyPacket(send_packet_, send_head_buf_, send_buf_) /\ UNCHANGED send_que_
    BY <1>2 DEF doSend
  <2>2. send_packet_ \in Packet /\ send_head_buf_ \in Seq(Nat) /\ send_buf_ \in Seq(Nat)
    BY <1>2
  <2>3. /\ SendBufOK' /\ sret' \in Int
        /\ send_packet_' \in Packet \cup {NULL}
        /\ send_head_buf_' \in Seq(Nat) /\ send_buf_' \in Seq(Nat)
        /\ \E cells \in Seq(Nat) :
              copied' = copied \o cells /\ Data(send_bufs_)' = Data(send_bufs_) \o cells
    BY <1>0, <2>1, <2>2, CopyPacketEffect, Zenon
  <2>4. copied' \in Seq(Nat)
    BY <2>3
  <2> QED
    BY <1>0, <2>1, <2>2, <2>3, <2>4
<1>3. CASE send_packet_ = NULL /\ send_que_ # <<>>
  <2> DEFINE pack == Head(send_que_)
  <2>1. /\ copyPacket(pack, packHeader(pack, packet_seed_), Body(pack))
        /\ send_que_' = Tail(send_que_)
    BY <1>3 DEF doSend
  <2>2. pack \in Packet /\ send_que_' \in Seq(Packet) /\ packet_seed_ \in Nat
    <3>1. send_que_ \in Seq(Packet) /\ packet_seed_ \in PeerSeeds
      OBVIOUS
    <3>2. pack \in Packet /\ Tail(send_que_) \in Seq(Packet)
      BY <1>3, <3>1, HeadTailProperties
    <3> QED
      BY <2>1, <3>1, <3>2, SocketAssumption
  <2> HIDE DEF pack
  <2>3. Body(pack) \in Seq(Nat) /\ packHeader(pack, packet_seed_) \in Seq(Nat)
    BY <2>2, PackHeaderType
  <2>4. /\ SendBufOK' /\ sret' \in Int
        /\ send_packet_' \in Packet \cup {NULL}
        /\ send_head_buf_' \in Seq(Nat) /\ send_buf_' \in Seq(Nat)
        /\ \E cells \in Seq(Nat) :
              copied' = copied \o cells /\ Data(send_bufs_)' = Data(send_bufs_) \o cells
    BY <1>0, <2>1, <2>2, <2>3, CopyPacketEffect, Zenon
  <2>5. copied' \in Seq(Nat)
    BY <2>4
  <2> QED
    BY <1>0, <2>1, <2>2, <2>4, <2>5
<1> QED
    BY <1>1, <1>2, <1>3

\* sendBuffer moves cells from the buffer to the kernel, unless the connection is gone.
LEMMA SendBufferEffect ==
    ASSUME TypeOK, sendBuffer
    PROVE  /\ SenderTypes' /\ nospace' \in BOOLEAN
           /\ \/ /\ conn = "reset"
                 /\ Data(send_bufs_)' = <<>> /\ sndbuf' = sndbuf
              \/ /\ conn = "up"
                 /\ \E n \in 0 .. Len(Data(send_bufs_)) :
                       /\ n <= SndCap - Len(sndbuf)
                       /\ sndbuf' = sndbuf \o SubSeq(Data(send_bufs_), 1, n)
                       /\ Data(send_bufs_)' = Drop(Data(send_bufs_), n)
           /\ UNCHANGED <<copied, rcvbuf, conn, pollin, pollout, receiver>>
<1> USE SenderTypesHold DEF SenderTypes
<1>0. /\ UNCHANGED <<sent, send_que_, send_packet_, send_head_buf_, send_buf_, copied,
                     packet_seed_, ready_out, rcvbuf, conn, pollin, pollout, receiver>>
      /\ spc = "sendBuffer"
    BY DEF sendBuffer
<1>1. CASE conn = "reset"
  <2>1. /\ sret' = SOCKET_ERROR /\ spc' = "idle" /\ send_bufs_' = NULL
        /\ UNCHANGED <<sndbuf, nospace>>
    BY <1>1 DEF sendBuffer
  <2>2. SendBufOK' /\ Data(send_bufs_)' = <<>> /\ sret' \in Int
    BY <2>1 DEF SendBufOK, Data, SOCKET_ERROR
  <2> QED
    BY <1>0, <1>1, <2>1, <2>2 DEF TypeOK
<1>2. CASE conn = "up"
  <2> DEFINE data == send_bufs_.data
             n    == min(Len(data), SndCap - Len(sndbuf))
             bufs == [send_bufs_ EXCEPT !.data = Drop(@, n)]
  <2>1. /\ sndbuf' = sndbuf \o SubSeq(data, 1, n)
        /\ nospace' = (nospace \/ n < Len(data))
        /\ \/ spc' = "sendBuffer" /\ send_bufs_' = bufs
           \/ spc' = "doSend" /\ send_bufs_' = bufs
           \/ flushSendEnds(bufs)
        /\ UNCHANGED sret
    BY <1>2 DEF sendBuffer
  <2>2. /\ send_bufs_ \in Buffer /\ data \in Seq(Nat) /\ send_bufs_.room \in Nat
        /\ Len(data) + send_bufs_.room <= PACKET_SIZE /\ Data(send_bufs_) = data
    BY <1>0 DEF SendBufOK, Buffer, Data
  <2>3. n \in 0 .. Len(data) /\ n <= SndCap - Len(sndbuf)
    <3>1. Len(sndbuf) \in Nat /\ Len(sndbuf) <= SndCap /\ SndCap \in Nat
      BY SocketAssumption DEF TypeOK
    <3>2. Len(data) \in Nat
      BY <2>2
    <3> HIDE DEF data
    <3> QED
      BY ONLY <3>1, <3>2 DEF min
  <2> HIDE DEF n
  <2>4. Drop(data, n) \in Seq(Nat) /\ Len(Drop(data, n)) <= Len(data)
    BY <2>2, <2>3, TakeDrop
  <2>5. /\ bufs \in Buffer /\ bufs.data = Drop(data, n)
        /\ Len(bufs.data) + bufs.room <= PACKET_SIZE
    <3>1. bufs.data = Drop(data, n) /\ bufs.room = send_bufs_.room /\ bufs \in Buffer
      BY <2>2, <2>4 DEF Buffer
    <3> HIDE DEF bufs, data
    <3> QED
      BY <2>2, <2>4, <3>1, SocketAssumption
  <2> HIDE DEF bufs, data
  <2>6. SendBufOK' /\ Data(send_bufs_)' = bufs.data
    <3>1. CASE flushSendEnds(bufs)
      BY <2>5, <3>1, FlushSendEndsEffect
    <3>2. CASE spc' \in {"sendBuffer", "doSend"} /\ send_bufs_' = bufs
      BY <2>5, <3>2, BufferIsNotNull DEF SendBufOK, Data
    <3> QED
      BY <2>1, <3>1, <3>2
  <2>7. nospace' \in BOOLEAN
    BY <2>1
  <2> QED
    BY <1>0, <1>2, <2>1, <2>2, <2>3, <2>5, <2>6, <2>7
<1> QED
    BY <1>1, <1>2 DEF sendBuffer

---------------------------------------------------------------------------------
(* The receiver's steps.                                                     *)

RecvBufOK ==
    /\ recv_bufs_ # NULL => /\ recv_bufs_ \in Buffer
                            /\ Len(recv_bufs_.data) + recv_bufs_.room <= PACKET_SIZE
    /\ rpc \in {"epoll_wait", "recvBuffer", "doRecv", "closed"}
    /\ rpc \in {"recvBuffer", "doRecv"} => recv_bufs_ # NULL

ReceiverTypes ==
    /\ RecvBufOK
    /\ recv_que_ \in Seq(Packet)
    /\ consumed \in Seq(Nat)
    /\ recv_buf_ # NULL => recv_buf_ \in Buffer
    /\ recv_head_buf_ \in Seq(Nat) /\ Len(recv_head_buf_) <= HeaderSize
    /\ need_recv \in BOOLEAN

LEMMA ReceiverTypesHold == TypeOK => ReceiverTypes
  BY DEF TypeOK, ReceiverTypes, RecvBufOK

LEMMA FlushRecvEffect ==
    ASSUME TypeOK, flushRecv
    PROVE  /\ ReceiverTypes' /\ Data(recv_bufs_)' = Data(recv_bufs_)
           /\ rpc # "closed" /\ rpc' # "closed" /\ pollin' \in BOOLEAN
           /\ UNCHANGED <<sender, sndbuf, rcvbuf, conn, pollout, nospace, consumed>>
<1> USE ReceiverTypesHold DEF ReceiverTypes
<1>1. RecvBufOK' /\ Data(recv_bufs_)' = Data(recv_bufs_)
  <2>1. CASE recv_bufs_ = NULL
    <3>1. recv_bufs_' = EmptyBuffer(PACKET_SIZE)
      BY <2>1 DEF flushRecv
    <3>2. EmptyBuffer(PACKET_SIZE) \in Buffer
      BY SocketAssumption DEF EmptyBuffer, Buffer
    <3>3. /\ recv_bufs_' # NULL /\ recv_bufs_' \in Buffer
          /\ recv_bufs_'.data = <<>> /\ recv_bufs_'.room = PACKET_SIZE
      BY <3>1, <3>2, BufferIsNotNull DEF EmptyBuffer
    <3> QED
      BY <2>1, <3>3, SocketAssumption DEF flushRecv, RecvBufOK, Data
  <2>2. CASE recv_bufs_ # NULL
    BY <2>2 DEF flushRecv, RecvBufOK, Data
  <2> QED
    BY <2>1, <2>2
<1> QED
    BY <1>1 DEF flushRecv

\* recvBuffer moves cells from the kernel to the buffer, or leaves both alone.
LEMMA RecvBufferEffect ==
    ASSUME TypeOK, recvBuffer
    PROVE  /\ ReceiverTypes' /\ rpc # "closed"
           /\ \/ /\ UNCHANGED rcvbuf
                 /\ Data(recv_bufs_)' = Data(recv_bufs_)
              \/ /\ rpc' # "closed"
                 /\ \E n \in 0 .. Len(rcvbuf) :
                       /\ rcvbuf' = Drop(rcvbuf, n)
                       /\ Data(recv_bufs_)' = Data(recv_bufs_) \o SubSeq(rcvbuf, 1, n)
           /\ UNCHANGED <<sender, sndbuf, conn, pollin, pollout, nospace, consumed>>
<1> USE ReceiverTypesHold DEF ReceiverTypes
<1> DEFINE room == recv_bufs_.room
           len  == min(Len(rcvbuf), room)
           bufs == [data |-> recv_bufs_.data \o SubSeq(rcvbuf, 1, len), room |-> room - len]
<1>0. /\ UNCHANGED <<sender, sndbuf, conn, pollin, pollout, nospace,
                     consumed, recv_packet_, recv_head_buf_, recv_buf_, recv_que_>>
      /\ rpc = "recvBuffer"
    BY DEF recvBuffer
<1>1. CASE /\ rpc' \in {"closed", "doRecv"} /\ need_recv' \in BOOLEAN
           /\ UNCHANGED <<rcvbuf, recv_bufs_>>
    BY <1>0, <1>1 DEF RecvBufOK, Data
<1>2. CASE /\ recv_bufs_' = bufs /\ rcvbuf' = Drop(rcvbuf, len)
           /\ rpc' \in {"recvBuffer", "doRecv"} /\ need_recv' \in BOOLEAN
  <2>1. /\ recv_bufs_ # NULL /\ recv_bufs_.data \in Seq(Nat) /\ room \in Nat
        /\ Len(recv_bufs_.data) + room <= PACKET_SIZE /\ Data(recv_bufs_) = recv_bufs_.data
    BY <1>0 DEF RecvBufOK, Buffer, Data
  <2>2. rcvbuf \in Seq(Nat) /\ Len(rcvbuf) \in Nat
    BY DEF TypeOK
  <2>3. len \in 0 .. Len(rcvbuf) /\ len <= room
    BY ONLY <2>1, <2>2 DEF min
  <2> HIDE DEF len
  <2>4. SubSeq(rcvbuf, 1, len) \in Seq(Nat) /\ Len(SubSeq(rcvbuf, 1, len)) = len
    BY <2>2, <2>3, TakeDrop
  <2>5. /\ bufs \in Buffer /\ bufs.data = Data(recv_bufs_) \o SubSeq(rcvbuf, 1, len)
        /\ Len(bufs.data) + bufs.room <= PACKET_SIZE
    <3> DEFINE cells == SubSeq(rcvbuf, 1, len)
    <3>1. cells \in Seq(Nat) /\ len \in Nat /\ Len(cells) = len /\ len <= room
      BY <2>2, <2>3, <2>4
    <3> HIDE DEF cells
    <3>2. /\ [data |-> recv_bufs_.data \o cells, room |-> room - len] \in Buffer
          /\ Len(recv_bufs_.data \o cells) + (room - len) = Len(recv_bufs_.data) + room
      BY ONLY <2>1, <3>1, AddCells, Zenon
    <3>3. bufs.data = recv_bufs_.data \o cells /\ bufs.room = room - len
      BY DEF cells
    <3>4. bufs \in Buffer
      BY <3>2 DEF cells
    <3> HIDE DEF bufs, room
    <3> QED
      BY <2>1, <3>2, <3>3, <3>4 DEF cells
  <2> HIDE DEF bufs, room
  <2>6. RecvBufOK' /\ Data(recv_bufs_)' = bufs.data
    BY <1>2, <2>5, BufferIsNotNull DEF RecvBufOK, Data
  <2> QED
    BY <1>0, <1>2, <2>3, <2>5, <2>6
<1>3. need_recv' \in BOOLEAN
    BY DEF recvBuffer, recvFails
<1> QED
    BY <1>0, <1>1, <1>2, <1>3 DEF recvBuffer, recvFails

LEMMA TakesEffect ==
    ASSUME TypeOK, rpc = "doRecv", NEW n \in 0 .. Len(recv_bufs_.data), takes(n)
    PROVE  /\ recv_bufs_' \in Buffer
           /\ Len(recv_bufs_'.data) + recv_bufs_'.room <= PACKET_SIZE
           /\ consumed' \in Seq(Nat)
           /\ consumed' = consumed \o SubSeq(Data(recv_bufs_), 1, n)
           /\ Data(recv_bufs_)' = Drop(Data(recv_bufs_), n)
<1> DEFINE data == recv_bufs_.data
<1>1. /\ recv_bufs_ \in Buffer /\ data \in Seq(Nat) /\ recv_bufs_.room \in Nat
      /\ Len(data) + recv_bufs_.room <= PACKET_SIZE /\ Data(recv_bufs_) = data
      /\ consumed \in Seq(Nat)
    BY DEF TypeOK, Buffer, Data
<1>2. /\ SubSeq(data, 1, n) \in Seq(Nat) /\ Drop(data, n) \in Seq(Nat)
      /\ Len(Drop(data, n)) <= Len(data)
    BY <1>1, TakeDrop
<1>3. /\ recv_bufs_' = [recv_bufs_ EXCEPT !.data = Drop(data, n)]
      /\ consumed' = consumed \o SubSeq(data, 1, n)
    BY DEF takes
<1>4. /\ recv_bufs_'.data = Drop(data, n) /\ recv_bufs_'.room = recv_bufs_.room
      /\ recv_bufs_' \in Buffer
    BY <1>1, <1>2, <1>3 DEF Buffer
<1> HIDE DEF data
<1>5. Len(recv_bufs_'.data) + recv_bufs_'.room <= PACKET_SIZE
    BY <1>1, <1>2, <1>4, SocketAssumption
<1>6. Data(recv_bufs_)' = Drop(data, n)
    BY <1>4, BufferIsNotNull DEF Data
<1> QED
    BY <1>1, <1>2, <1>3, <1>4, <1>5, <1>6

\* What every way through doRecv does.
DoRecvMoves(n) ==
    /\ ReceiverTypes'
    /\ consumed' = consumed \o SubSeq(Data(recv_bufs_), 1, n)
    /\ Data(recv_bufs_)' = Drop(Data(recv_bufs_), n)
    /\ rpc' # "closed" => rcvbuf' = rcvbuf
    /\ rcvbuf' \in {rcvbuf, <<>>}

LEMMA RecvBodyEffect ==
    ASSUME TypeOK, rpc = "doRecv",
           NEW head \in Seq(Nat), Len(head) = HeaderSize, recv_head_buf_' = head,
           NEW nhead \in 0 .. Len(recv_bufs_.data), NEW body0 \in Buffer,
           recvBody(head, nhead, body0)
    PROVE  \E n \in 0 .. Len(recv_bufs_.data) : DoRecvMoves(n)
<1> USE ReceiverTypesHold DEF ReceiverTypes
<1> DEFINE rest  == Drop(recv_bufs_.data, nhead)
           nbody == min(Len(rest), body0.room)
           body  == [data |-> body0.data \o SubSeq(rest, 1, nbody), room |-> body0.room - nbody]
<1>1. recv_bufs_.data \in Seq(Nat) /\ body0.data \in Seq(Nat) /\ body0.room \in Nat
    BY DEF RecvBufOK, Buffer
<1>2. rest \in Seq(Nat) /\ Len(rest) = Len(recv_bufs_.data) - nhead /\ Len(rest) \in Nat
  <2>1. rest \in Seq(Nat) /\ Len(rest) = Len(recv_bufs_.data) - nhead
    BY <1>1, TakeDrop, Zenon
  <2> QED
    BY ONLY <2>1
<1>3. nbody \in 0 .. Len(rest) /\ nbody <= body0.room
    BY <1>1, <1>2, MinBound
<1>4. /\ takes(nhead + nbody)
      /\ \/ /\ recvPacket([pid |-> head[3], body |-> body.data])
            /\ afterDoRecv(nhead + nbody)
         \/ /\ recv_buf_' = body
            /\ afterDoRecv(SOCKET_RP_BLOCK)
            /\ UNCHANGED recv_que_
    BY DEF recvBody
<1> HIDE DEF rest, nbody
<1>5. nhead + nbody \in 0 .. Len(recv_bufs_.data)
    BY <1>1, <1>2, <1>3
<1>6. SubSeq(rest, 1, nbody) \in Seq(Nat) /\ Len(SubSeq(rest, 1, nbody)) = nbody
    BY <1>2, <1>3, TakeDrop
<1>7. body \in Buffer /\ body.data \in Seq(Nat)
  <2>1. nbody \in Nat
    BY <1>2, <1>3
  <2> QED
    BY ONLY <1>1, <1>2, <1>3, <1>6, <2>1, AddCells, Zenon
<1> HIDE DEF body
<1>8. /\ recv_bufs_' \in Buffer /\ recv_bufs_' # NULL
      /\ Len(recv_bufs_'.data) + recv_bufs_'.room <= PACKET_SIZE
      /\ consumed' \in Seq(Nat)
      /\ consumed' = consumed \o SubSeq(Data(recv_bufs_), 1, nhead + nbody)
      /\ Data(recv_bufs_)' = Drop(Data(recv_bufs_), nhead + nbody)
    BY <1>4, <1>5, TakesEffect, BufferIsNotNull
<1>9. /\ rpc' \in {"recvBuffer", "doRecv", "epoll_wait"}
      /\ need_recv' = need_recv /\ rcvbuf' = rcvbuf
    BY <1>4 DEF afterDoRecv
<1>10. recv_que_' \in Seq(Packet) /\ (recv_buf_' # NULL => recv_buf_' \in Buffer)
  <2>1. [pid |-> head[3], body |-> body.data] \in Packet
    <3>1. Len(head) = 3 /\ 3 \in 1 .. 3
      BY DEF HeaderSize
    <3>2. head[3] \in Nat
      BY <3>1, ElementOfSeq, Zenon
    <3> QED
      BY ONLY <1>7, <3>2 DEF Packet
  <2>2. CASE recvPacket([pid |-> head[3], body |-> body.data])
    BY <2>1, <2>2 DEF recvPacket
  <2>3. CASE recv_buf_' = body /\ UNCHANGED recv_que_
    BY <1>7, <2>3
  <2> QED
    BY <1>4, <2>2, <2>3
<1>11. DoRecvMoves(nhead + nbody)
    BY <1>8, <1>9, <1>10 DEF DoRecvMoves, RecvBufOK
<1> QED
    BY <1>5, <1>11

LEMMA RecvHeadEffect ==
    ASSUME TypeOK, rpc = "doRecv",
           NEW head \in Seq(Nat), Len(head) <= HeaderSize,
           NEW nhead \in 0 .. Len(recv_bufs_.data),
           recvHead(head, nhead)
    PROVE  \E n \in 0 .. Len(recv_bufs_.data) : DoRecvMoves(n)
<1> USE ReceiverTypesHold DEF ReceiverTypes
<1>0. recv_head_buf_' = head
    BY DEF recvHead
<1>7. Len(head) = HeaderSize => head[1] \in Nat /\ head[2] \in Nat /\ head[3] \in Nat
  <2>1. Len(head) = HeaderSize => Len(head) = 3
    BY DEF HeaderSize
  <2>2. 1 \in 1 .. 3 /\ 2 \in 1 .. 3 /\ 3 \in 1 .. 3
    OBVIOUS
  <2> QED
    BY <2>1, <2>2, ElementOfSeq, Zenon
<1>1. CASE /\ takes(nhead)
           /\ rpc' \in {"recvBuffer", "doRecv", "epoll_wait", "closed"}
           /\ need_recv' = need_recv
           /\ rcvbuf' = rcvbuf \/ (rcvbuf' = <<>> /\ rpc' = "closed")
           /\ recv_que_' \in Seq(Packet)
           /\ recv_buf_' # NULL => recv_buf_' \in Buffer
  <2>1. /\ recv_bufs_' \in Buffer /\ recv_bufs_' # NULL
        /\ Len(recv_bufs_'.data) + recv_bufs_'.room <= PACKET_SIZE
        /\ consumed' \in Seq(Nat)
        /\ consumed' = consumed \o SubSeq(Data(recv_bufs_), 1, nhead)
        /\ Data(recv_bufs_)' = Drop(Data(recv_bufs_), nhead)
    BY <1>1, TakesEffect, BufferIsNotNull
  <2>2. DoRecvMoves(nhead)
    BY <1>0, <1>1, <2>1 DEF DoRecvMoves, RecvBufOK
  <2> QED
    BY <2>2
<1>2. CASE Len(head) < HeaderSize
  <2>1. takes(nhead) /\ afterDoRecv(SOCKET_RP_BLOCK) /\ UNCHANGED <<recv_buf_, recv_que_>>
    BY <1>2 DEF recvHead
  <2> QED
    BY <1>1, <2>1 DEF afterDoRecv
<1>3. CASE Len(head) = HeaderSize /\ recv_buf_ = NULL /\ head[1] # 0
  <2>1. takes(nhead) /\ rcvbuf' = <<>> /\ recvFails /\ UNCHANGED <<recv_buf_, recv_que_>>
    BY <1>3 DEF recvHead
  <2> QED
    BY <1>1, <2>1 DEF recvFails
<1>4. CASE Len(head) = HeaderSize /\ recv_buf_ = NULL /\ head[1] = 0 /\ head[2] = 0
  <2> DEFINE pack == [pid |-> head[3], body |-> NULL]
  <2>1. takes(nhead) /\ recvPacket(pack) /\ afterDoRecv(nhead)
    BY <1>4 DEF recvHead
  <2>2. pack \in Packet
    BY ONLY <1>7, <1>4 DEF Packet, HeaderSize
  <2> HIDE DEF pack
  <2>3. recv_que_' \in Seq(Packet) /\ recv_buf_' = NULL
    BY <2>1, <2>2 DEF recvPacket
  <2> QED
    BY <1>1, <2>1, <2>3 DEF afterDoRecv
<1>5. CASE Len(head) = HeaderSize /\ recv_buf_ = NULL /\ head[1] = 0 /\ head[2] > 0
  <2>1. recvBody(head, nhead, EmptyBuffer(head[2]))
    BY <1>5 DEF recvHead
  <2>2. EmptyBuffer(head[2]) \in Buffer
    BY ONLY <1>5, <1>7 DEF EmptyBuffer, Buffer
  <2> QED
    BY <1>0, <1>5, <2>1, <2>2, RecvBodyEffect
<1>6. CASE Len(head) = HeaderSize /\ recv_buf_ # NULL
  <2>1. recvBody(head, nhead, recv_buf_) /\ recv_buf_ \in Buffer
    BY <1>6 DEF recvHead
  <2> QED
    BY <1>0, <1>6, <2>1, RecvBodyEffect
<1> QED
    <2>1. Len(head) < HeaderSize \/ Len(head) = HeaderSize
      <3>1. Len(head) \in Nat /\ HeaderSize \in Nat
        BY LenProperties DEF HeaderSize
      <3> QED
        BY ONLY <3>1, Len(head) <= HeaderSize
    <2>2. Len(head) = HeaderSize => head[2] = 0 \/ head[2] > 0
      BY ONLY <1>7
    <2> QED
      BY ONLY <1>2, <1>3, <1>4, <1>5, <1>6, <2>1, <2>2

LEMMA DoRecvEffect ==
    ASSUME TypeOK, doRecv
    PROVE  /\ \E n \in 0 .. Len(Data(recv_bufs_)) : DoRecvMoves(n)
           /\ rpc # "closed"
           /\ UNCHANGED <<sender, sndbuf, conn, pollin, pollout, nospace>>
<1> DEFINE head0 == IF recv_packet_ = NULL THEN <<>> ELSE recv_head_buf_
           nhead == min(HeaderSize - Len(head0), Len(recv_bufs_.data))
           head  == head0 \o SubSeq(recv_bufs_.data, 1, nhead)
<1>1. /\ rpc = "doRecv" /\ recvHead(head, nhead)
      /\ UNCHANGED <<sender, sndbuf, conn, pollin, pollout, nospace>>
    BY DEF doRecv
<1>2. recv_bufs_.data \in Seq(Nat) /\ Data(recv_bufs_) = recv_bufs_.data
    BY <1>1 DEF TypeOK, Buffer, Data
<1>3. head0 \in Seq(Nat) /\ Len(head0) <= HeaderSize /\ Len(head0) \in Nat
    BY DEF TypeOK, HeaderSize
<1> HIDE DEF head0
<1>4. nhead \in 0 .. Len(recv_bufs_.data) /\ nhead <= HeaderSize - Len(head0)
  <2>1. HeaderSize - Len(head0) \in Nat /\ Len(recv_bufs_.data) \in Nat
    BY <1>2, <1>3 DEF HeaderSize
  <2> QED
    BY <2>1, MinBound, Zenon
<1> HIDE DEF nhead
<1>5. head \in Seq(Nat) /\ Len(head) <= HeaderSize
  <2>1. /\ SubSeq(recv_bufs_.data, 1, nhead) \in Seq(Nat)
        /\ Len(SubSeq(recv_bufs_.data, 1, nhead)) = nhead
    BY <1>2, <1>4, TakeDrop
  <2> QED
    BY <1>3, <1>4, <2>1 DEF HeaderSize
<1> HIDE DEF head
<1> QED
    BY <1>1, <1>2, <1>4, <1>5, RecvHeadEffect

---------------------------------------------------------------------------------
(* The kernel's steps, and the types.                                        *)

LEMMA DeliverEffect ==
    ASSUME TypeOK, deliver
    PROVE  /\ conn # "reset"
           /\ \E n \in 0 .. Len(sndbuf) :
                 /\ n <= RcvCap - Len(rcvbuf)
                 /\ rcvbuf' = rcvbuf \o SubSeq(sndbuf, 1, n)
                 /\ sndbuf' = Drop(sndbuf, n)
           /\ pollin' = TRUE /\ pollout' \in BOOLEAN /\ nospace' = FALSE
           /\ UNCHANGED <<sender, conn, receiver>>
<1>1. PICK n \in 1 .. min(Len(sndbuf), RcvCap - Len(rcvbuf)) :
          rcvbuf' = rcvbuf \o SubSeq(sndbuf, 1, n) /\ sndbuf' = Drop(sndbuf, n)
    BY DEF deliver
<1>2. Len(sndbuf) \in Nat /\ RcvCap - Len(rcvbuf) \in Nat
    BY SocketAssumption DEF TypeOK
<1> DEFINE m == min(Len(sndbuf), RcvCap - Len(rcvbuf))
<1>3. m \in 0 .. Len(sndbuf) /\ m <= RcvCap - Len(rcvbuf)
    BY <1>2, MinBound, Zenon
<1>4. n \in 1 .. m
    BY <1>1
<1> HIDE DEF m
<1>5. n \in 0 .. Len(sndbuf) /\ n <= RcvCap - Len(rcvbuf)
    BY ONLY <1>2, <1>3, <1>4
<1>6. pollout' \in BOOLEAN
    BY DEF deliver, TypeOK
<1> QED
    BY <1>1, <1>5, <1>6 DEF deliver

KernelTypes ==
    /\ sndbuf \in Seq(Nat) /\ Len(sndbuf) <= SndCap
    /\ rcvbuf \in Seq(Nat) /\ Len(rcvbuf) <= RcvCap
    /\ conn \in {"up", "fin", "reset"}
    /\ pollin \in BOOLEAN /\ pollout \in BOOLEAN /\ nospace \in BOOLEAN

LEMMA TypesSplit == TypeOK <=> SenderTypes /\ ReceiverTypes /\ KernelTypes
  BY DEF TypeOK, SenderTypes, SendBufOK, ReceiverTypes, RecvBufOK, KernelTypes

LEMMA SenderTypesKept ==
    SenderTypes /\ UNCHANGED sender => SenderTypes'
  BY DEF SenderTypes, SendBufOK, sender

LEMMA ReceiverTypesKept ==
    ReceiverTypes /\ UNCHANGED receiver => ReceiverTypes'
  BY DEF ReceiverTypes, RecvBufOK, receiver

\* Cells move between two buffers without either outgrowing its bound.
LEMMA BoundKept ==
    ASSUME NEW s \in Seq(Nat), NEW t \in Seq(Nat), NEW n \in 0 .. Len(t), NEW cap \in Nat,
           n <= cap - Len(s)
    PROVE  /\ s \o SubSeq(t, 1, n) \in Seq(Nat) /\ Len(s \o SubSeq(t, 1, n)) <= cap
           /\ Drop(t, n) \in Seq(Nat) /\ Len(Drop(t, n)) <= Len(t)
<1>1. /\ SubSeq(t, 1, n) \in Seq(Nat) /\ Len(SubSeq(t, 1, n)) = n
      /\ Drop(t, n) \in Seq(Nat) /\ Len(Drop(t, n)) = Len(t) - n
    BY TakeDrop
<1>2. /\ s \o SubSeq(t, 1, n) \in Seq(Nat)
      /\ Len(s \o SubSeq(t, 1, n)) = Len(s) + Len(SubSeq(t, 1, n))
    BY <1>1, ConcatProperties
<1>3. Len(s) \in Nat /\ Len(t) \in Nat /\ n \in 0 .. Len(t)
    OBVIOUS
<1> QED
    BY ONLY <1>1, <1>2, <1>3, n <= cap - Len(s), cap \in Nat

\* No cells wait anywhere at first.
LEMMA TypesInit == Init => TypeOK
<1> SUFFICES ASSUME Init PROVE TypeOK
    OBVIOUS
<1>0. <<>> \in Seq(Nat) /\ <<>> \in Seq(Packet) /\ Len(<<>>) = 0 /\ 0 <= HeaderSize
    BY DEF HeaderSize
<1>1. SenderTypes
  <2>1. SendBufOK /\ sret \in Int
    BY DEF Init, SendBufOK
  <2> QED
    BY <1>0, <2>1, Zenon DEF Init, SenderTypes
<1>2. ReceiverTypes
  <2>1. RecvBufOK
    BY DEF Init, RecvBufOK
  <2> QED
    BY <1>0, <2>1, Zenon DEF Init, ReceiverTypes
<1>3. KernelTypes
  <2>1. 0 <= SndCap /\ 0 <= RcvCap
    BY SocketAssumption
  <2> QED
    BY <1>0, <2>1, Zenon DEF Init, KernelTypes
<1> QED
    BY <1>1, <1>2, <1>3, TypesSplit

LEMMA TypesStep == TypeOK /\ [Next]_vars => TypeOK'
<1> SUFFICES ASSUME TypeOK, [Next]_vars PROVE TypeOK'
    OBVIOUS
<1>0. SenderTypes /\ ReceiverTypes /\ KernelTypes
    BY TypesSplit
<1>q. SenderTypes' /\ ReceiverTypes' /\ KernelTypes' => TypeOK'
    BY TypesSplit, PTL
<1>1. CASE \E size \in Bodies : sendPacket(size)
  <2>1. SenderTypes' /\ UNCHANGED <<kernel, receiver>>
    BY <1>1, SendPacketEffect
  <2> QED
    BY <1>0, <1>q, <2>1, ReceiverTypesKept DEF kernel, KernelTypes
<1>2. CASE handlePollOut
  <2>1. /\ SenderTypes' /\ pollout' \in BOOLEAN
        /\ UNCHANGED <<sndbuf, rcvbuf, conn, pollin, nospace, receiver>>
    BY <1>2, HandlePollOutEffect
  <2> QED
    BY <1>0, <1>q, <2>1, ReceiverTypesKept DEF KernelTypes
<1>3. CASE doSend
  <2>1. SenderTypes' /\ UNCHANGED <<kernel, receiver>>
    BY <1>3, DoSendEffect
  <2> QED
    BY <1>0, <1>q, <2>1, ReceiverTypesKept DEF kernel, KernelTypes
<1>4. CASE sendBuffer
  <2>1. /\ SenderTypes' /\ nospace' \in BOOLEAN
        /\ \/ sndbuf' = sndbuf
           \/ \E n \in 0 .. Len(Data(send_bufs_)) :
                 n <= SndCap - Len(sndbuf) /\ sndbuf' = sndbuf \o SubSeq(Data(send_bufs_), 1, n)
        /\ UNCHANGED <<rcvbuf, conn, pollin, pollout, receiver>>
    BY <1>4, SendBufferEffect
  <2>2. Data(send_bufs_) \in Seq(Nat)
    BY <1>0 DEF SenderTypes, SendBufOK, Buffer, Data
  <2>3. sndbuf' \in Seq(Nat) /\ Len(sndbuf') <= SndCap
    <3>1. CASE sndbuf' = sndbuf
      BY <1>0, <3>1 DEF KernelTypes
    <3>2. CASE \E n \in 0 .. Len(Data(send_bufs_)) :
                  n <= SndCap - Len(sndbuf) /\ sndbuf' = sndbuf \o SubSeq(Data(send_bufs_), 1, n)
      <4>1. SndCap \in Nat /\ sndbuf \in Seq(Nat)
        BY <1>0, SocketAssumption DEF KernelTypes
      <4> QED
        BY <2>2, <3>2, <4>1, BoundKept, Zenon
    <3> QED
      BY <2>1, <3>1, <3>2
  <2> QED
    BY <1>0, <1>q, <2>1, <2>3, ReceiverTypesKept DEF KernelTypes
<1>5. CASE close
  <2>1. /\ UNCHANGED <<sender, receiver, sndbuf, rcvbuf, pollout, nospace>>
        /\ conn' = "fin" /\ pollin' = TRUE
    BY <1>5 DEF close
  <2> QED
    BY <1>0, <1>q, <2>1, SenderTypesKept, ReceiverTypesKept DEF KernelTypes
<1>6. CASE deliver
  <2>1. /\ \E n \in 0 .. Len(sndbuf) :
              /\ n <= RcvCap - Len(rcvbuf)
              /\ rcvbuf' = rcvbuf \o SubSeq(sndbuf, 1, n)
              /\ sndbuf' = Drop(sndbuf, n)
        /\ pollin' = TRUE /\ pollout' \in BOOLEAN /\ nospace' = FALSE
        /\ UNCHANGED <<sender, conn, receiver>>
    BY <1>6, DeliverEffect
  <2>2. /\ sndbuf \in Seq(Nat) /\ rcvbuf \in Seq(Nat) /\ RcvCap \in Nat
        /\ Len(sndbuf) <= SndCap /\ SndCap \in Nat /\ Len(sndbuf) \in Nat
    BY <1>0, SocketAssumption DEF KernelTypes
  <2>3. /\ rcvbuf' \in Seq(Nat) /\ Len(rcvbuf') <= RcvCap
        /\ sndbuf' \in Seq(Nat) /\ Len(sndbuf') <= Len(sndbuf)
    BY <2>1, <2>2, BoundKept, Zenon
  <2>4. Len(sndbuf') <= SndCap
    <3>1. Len(sndbuf') \in Nat
      BY <2>3
    <3> QED
      BY ONLY <2>2, <2>3, <3>1
  <2> QED
    BY <1>0, <1>q, <2>1, <2>3, <2>4, SenderTypesKept, ReceiverTypesKept DEF KernelTypes
<1>7. CASE reset
  <2>1. /\ UNCHANGED <<sender, receiver, rcvbuf, pollout, nospace>>
        /\ sndbuf' = <<>> /\ conn' = "reset" /\ pollin' = TRUE
    BY <1>7 DEF reset
  <2> QED
    BY <1>0, <1>q, <2>1, SocketAssumption, SenderTypesKept, ReceiverTypesKept DEF KernelTypes
<1>8. CASE flushRecv
  <2>1. /\ ReceiverTypes' /\ pollin' \in BOOLEAN
        /\ UNCHANGED <<sender, sndbuf, rcvbuf, conn, pollout, nospace>>
    BY <1>8, FlushRecvEffect
  <2> QED
    BY <1>0, <1>q, <2>1, SenderTypesKept DEF KernelTypes
<1>9. CASE recvBuffer
  <2>1. /\ ReceiverTypes'
        /\ rcvbuf' = rcvbuf \/ \E n \in 0 .. Len(rcvbuf) : rcvbuf' = Drop(rcvbuf, n)
        /\ UNCHANGED <<sender, sndbuf, conn, pollin, pollout, nospace>>
    BY <1>9, RecvBufferEffect
  <2>2. rcvbuf' \in Seq(Nat) /\ Len(rcvbuf') <= RcvCap
    <3>1. CASE rcvbuf' = rcvbuf
      BY <1>0, <3>1 DEF KernelTypes
    <3>2. CASE \E n \in 0 .. Len(rcvbuf) : rcvbuf' = Drop(rcvbuf, n)
      <4>1. PICK n \in 0 .. Len(rcvbuf) : rcvbuf' = Drop(rcvbuf, n)
        BY <3>2
      <4>2. rcvbuf \in Seq(Nat) /\ Len(rcvbuf) <= RcvCap /\ RcvCap \in Nat /\ Len(rcvbuf) \in Nat
        BY <1>0, SocketAssumption DEF KernelTypes
      <4>3. rcvbuf' \in Seq(Nat) /\ Len(rcvbuf') = Len(rcvbuf) - n
        BY <4>1, <4>2, TakeDrop, Zenon
      <4> QED
        BY ONLY <4>2, <4>3, n \in 0 .. Len(rcvbuf)
    <3> QED
      BY <2>1, <3>1, <3>2
  <2> QED
    BY <1>0, <1>q, <2>1, <2>2, SenderTypesKept DEF KernelTypes
<1>10. CASE doRecv
  <2>1. /\ ReceiverTypes' /\ rcvbuf' \in {rcvbuf, <<>>}
        /\ UNCHANGED <<sender, sndbuf, conn, pollin, pollout, nospace>>
    BY <1>10, DoRecvEffect DEF DoRecvMoves
  <2>2. rcvbuf' \in Seq(Nat) /\ Len(rcvbuf') <= RcvCap
    <3>1. CASE rcvbuf' = rcvbuf
      BY <1>0, <3>1 DEF KernelTypes
    <3>2. CASE rcvbuf' = <<>>
      BY <3>2, SocketAssumption
    <3> QED
      BY <2>1, <3>1, <3>2
  <2> QED
    BY <1>0, <1>q, <2>1, <2>2, SenderTypesKept DEF KernelTypes
<1>11. CASE UNCHANGED vars
  <2>1. UNCHANGED <<sender, receiver, kernel>>
    BY <1>11 DEF vars, sender, receiver, kernel
  <2> QED
    BY <1>0, <1>q, <2>1, SenderTypesKept, ReceiverTypesKept DEF KernelTypes, kernel
<1> QED
    BY <1>1, <1>2, <1>3, <1>4, <1>5, <1>6, <1>7, <1>8, <1>9, <1>10, <1>11
    DEF Next, SenderNext, ReceiverNext

\* Every buffer keeps its bound and flushSend and flushRecv never go on without their
\* buffer: send_bufs_ and recv_bufs_ are there whenever doSend, sendBuffer, recvBuffer
\* and doRecv use them.
THEOREM SocketTypes == Spec => []TypeOK
  BY TypesInit, TypesStep, PTL DEF Spec

---------------------------------------------------------------------------------
(* The stream.                                                               *)

\* StreamConserved is not inductive: a connection that breaks or a recvClear drops
\* cells, and what is left must still continue what was taken out.  rest is what has
\* been copied and has not reached the receiver's kernel, under way or lost.
StreamInv ==
    /\ \E rest \in Seq(Nat) : copied = consumed \o rest
    /\ rpc # "closed" =>
          \E rest \in Seq(Nat) :
             /\ copied = consumed \o (Data(recv_bufs_) \o (rcvbuf \o rest))
             /\ conn # "reset" => rest = sndbuf \o Data(send_bufs_)

LEMMA DataTypes ==
    TypeOK => /\ Data(recv_bufs_) \in Seq(Nat) /\ Data(send_bufs_) \in Seq(Nat)
              /\ rcvbuf \in Seq(Nat) /\ sndbuf \in Seq(Nat)
              /\ consumed \in Seq(Nat) /\ copied \in Seq(Nat)
  BY DEF TypeOK, Buffer, Data

\* MoveCells inside a longer stream.
LEMMA MoveCellsBefore ==
    ASSUME NEW s \in Seq(Nat), NEW t \in Seq(Nat), NEW u \in Seq(Nat), NEW n \in 0 .. Len(t)
    PROVE  (s \o SubSeq(t, 1, n)) \o (Drop(t, n) \o u) = s \o (t \o u)
<1>1. SubSeq(t, 1, n) \in Seq(Nat) /\ Drop(t, n) \in Seq(Nat)
    BY TakeDrop
<1>2. s \o SubSeq(t, 1, n) \in Seq(Nat)
    BY <1>1, ConcatSeq
<1>3. (s \o SubSeq(t, 1, n)) \o (Drop(t, n) \o u)
         = ((s \o SubSeq(t, 1, n)) \o Drop(t, n)) \o u
    BY <1>1, <1>2, Assoc DEF Associates
<1>4. (s \o SubSeq(t, 1, n)) \o Drop(t, n) = s \o t
    BY MoveCells
<1>5. (s \o t) \o u = s \o (t \o u)
    BY Assoc DEF Associates
<1> QED
    BY <1>3, <1>4, <1>5

LEMMA StreamInit == Init => StreamInv
<1> SUFFICES ASSUME Init PROVE StreamInv
    OBVIOUS
<1>1. /\ copied = <<>> /\ consumed = <<>> /\ rcvbuf = <<>> /\ sndbuf = <<>>
      /\ Data(recv_bufs_) = <<>> /\ Data(send_bufs_) = <<>>
    BY DEF Init, Data
<1>2. <<>> \in Seq(Nat) /\ <<>> \o <<>> = <<>>
    BY EmptySeq, ConcatEmptySeq
<1>3. \E rest \in Seq(Nat) : copied = consumed \o rest
    BY <1>1, <1>2
<1>4. \E rest \in Seq(Nat) :
         /\ copied = consumed \o (Data(recv_bufs_) \o (rcvbuf \o rest))
         /\ conn # "reset" => rest = sndbuf \o Data(send_bufs_)
    BY <1>1, <1>2
<1> QED
    BY <1>3, <1>4 DEF StreamInv

\* doSend: the stream and send_bufs_ grow by the same cells.
LEMMA StreamDoSend ==
    ASSUME TypeOK, StreamInv, doSend
    PROVE  StreamInv'
<1>1. PICK cells \in Seq(Nat) :
          copied' = copied \o cells /\ Data(send_bufs_)' = Data(send_bufs_) \o cells
    BY DoSendEffect
<1>2. /\ UNCHANGED <<consumed, rcvbuf, sndbuf, conn, rpc>>
      /\ Data(recv_bufs_)' = Data(recv_bufs_)
    BY DoSendEffect DEF kernel, receiver, Data
<1>3. \E rest \in Seq(Nat) : copied' = consumed' \o rest
  <2>1. PICK rest \in Seq(Nat) : copied = consumed \o rest
    BY DEF StreamInv
  <2>2. rest \o cells \in Seq(Nat) /\ Associates(consumed, rest, cells)
    BY DataTypes, ConcatSeq, Assoc
  <2>3. copied' = consumed' \o (rest \o cells)
    BY <1>1, <1>2, <2>1, <2>2 DEF Associates
  <2> QED
    BY <2>2, <2>3
<1>4. ASSUME rpc' # "closed"
      PROVE  \E rest \in Seq(Nat) :
                /\ copied' = consumed' \o (Data(recv_bufs_)' \o (rcvbuf' \o rest))
                /\ conn' # "reset" => rest = sndbuf' \o Data(send_bufs_)'
  <2>1. PICK rest \in Seq(Nat) :
            /\ copied = consumed \o (Data(recv_bufs_) \o (rcvbuf \o rest))
            /\ conn # "reset" => rest = sndbuf \o Data(send_bufs_)
    BY <1>2, <1>4 DEF StreamInv
  <2>2. rest \o cells \in Seq(Nat)
    BY ConcatSeq
  <2>3. copied' = consumed' \o (Data(recv_bufs_)' \o (rcvbuf' \o (rest \o cells)))
    <3> DEFINE B == Data(recv_bufs_)
    <3>1. consumed \in Seq(Nat) /\ B \in Seq(Nat) /\ rcvbuf \in Seq(Nat)
      BY DataTypes
    <3> HIDE DEF B
    <3>2. rcvbuf \o rest \in Seq(Nat) /\ B \o (rcvbuf \o rest) \in Seq(Nat)
      BY <3>1, ConcatSeq
    <3>3. /\ Associates(consumed, B \o (rcvbuf \o rest), cells)
          /\ Associates(B, rcvbuf \o rest, cells) /\ Associates(rcvbuf, rest, cells)
      BY <3>1, <3>2, Assoc
    <3>4. (consumed \o (B \o (rcvbuf \o rest))) \o cells
             = consumed \o (B \o (rcvbuf \o (rest \o cells)))
      BY <3>3 DEF Associates
    <3> QED
      BY <1>1, <1>2, <2>1, <3>4 DEF B
  <2>4. conn' # "reset" => rest \o cells = sndbuf' \o Data(send_bufs_)'
    <3>1. Associates(sndbuf, Data(send_bufs_), cells)
      BY DataTypes, Assoc
    <3> QED
      BY <1>1, <1>2, <2>1, <3>1 DEF Associates
  <2> QED
    BY <2>2, <2>3, <2>4
<1> QED
    BY <1>3, <1>4 DEF StreamInv

\* sendBuffer: cells move from send_bufs_ to the kernel, or the connection is gone.
LEMMA StreamSendBuffer ==
    ASSUME TypeOK, StreamInv, sendBuffer
    PROVE  StreamInv'
<1>1. /\ UNCHANGED <<copied, consumed, rcvbuf, conn, rpc>>
      /\ Data(recv_bufs_)' = Data(recv_bufs_)
    BY SendBufferEffect DEF receiver, Data
<1>2. conn # "reset" => sndbuf' \o Data(send_bufs_)' = sndbuf \o Data(send_bufs_)
  <2>1. ASSUME conn # "reset"
        PROVE  \E n \in 0 .. Len(Data(send_bufs_)) :
                  /\ sndbuf' = sndbuf \o SubSeq(Data(send_bufs_), 1, n)
                  /\ Data(send_bufs_)' = Drop(Data(send_bufs_), n)
    BY <2>1, SendBufferEffect
  <2> SUFFICES ASSUME conn # "reset"
               PROVE  sndbuf' \o Data(send_bufs_)' = sndbuf \o Data(send_bufs_)
    OBVIOUS
  <2>2. PICK n \in 0 .. Len(Data(send_bufs_)) :
            /\ sndbuf' = sndbuf \o SubSeq(Data(send_bufs_), 1, n)
            /\ Data(send_bufs_)' = Drop(Data(send_bufs_), n)
    BY <2>1
  <2>3. (sndbuf \o SubSeq(Data(send_bufs_), 1, n)) \o Drop(Data(send_bufs_), n)
           = sndbuf \o Data(send_bufs_)
    BY DataTypes, MoveCells
  <2> QED
    BY <2>2, <2>3
<1> QED
    BY <1>1, <1>2 DEF StreamInv

\* deliver: cells move from one kernel buffer to the other.
LEMMA StreamDeliver ==
    ASSUME TypeOK, StreamInv, deliver
    PROVE  StreamInv'
<1> DEFINE B == Data(recv_bufs_)
           D == Data(send_bufs_)
<1>1. /\ UNCHANGED <<copied, consumed, conn, rpc>> /\ B' = B /\ D' = D /\ conn # "reset"
    BY DeliverEffect DEF sender, receiver, Data
<1>2. PICK n \in 0 .. Len(sndbuf) :
          rcvbuf' = rcvbuf \o SubSeq(sndbuf, 1, n) /\ sndbuf' = Drop(sndbuf, n)
    BY DeliverEffect
<1>3. sndbuf' \o D \in Seq(Nat) /\ rcvbuf' \o (sndbuf' \o D) = rcvbuf \o (sndbuf \o D)
  <2>1. sndbuf' \in Seq(Nat)
    BY <1>2, DataTypes, TakeDrop
  <2>2. (rcvbuf \o SubSeq(sndbuf, 1, n)) \o (Drop(sndbuf, n) \o D) = rcvbuf \o (sndbuf \o D)
    <3>1. rcvbuf \in Seq(Nat) /\ sndbuf \in Seq(Nat) /\ D \in Seq(Nat)
      BY DataTypes
    <3> QED
      BY <3>1, MoveCellsBefore, Zenon
  <2>3. sndbuf' \o D \in Seq(Nat)
    BY <2>1, DataTypes, ConcatSeq
  <2> QED
    BY <1>2, <2>2, <2>3
<1>4. rpc # "closed" => copied = consumed \o (B \o (rcvbuf \o (sndbuf \o D)))
    BY <1>1 DEF StreamInv
<1> HIDE DEF B, D
<1>5. rpc' # "closed" => \E rest \in Seq(Nat) :
                            /\ copied' = consumed' \o (B' \o (rcvbuf' \o rest))
                            /\ conn' # "reset" => rest = sndbuf' \o D'
  <2> SUFFICES ASSUME rpc' # "closed"
               PROVE  /\ copied' = consumed' \o (B' \o (rcvbuf' \o (sndbuf' \o D)))
                      /\ sndbuf' \o D = sndbuf' \o D'
    BY <1>3
  <2> QED
    BY <1>1, <1>3, <1>4
<1> QED
    BY <1>1, <1>5 DEF StreamInv, B, D

\* recvBuffer: cells move from the kernel to recv_bufs_.
LEMMA StreamRecvBuffer ==
    ASSUME TypeOK, StreamInv, recvBuffer
    PROVE  StreamInv'
<1> DEFINE B == Data(recv_bufs_)
           D == Data(send_bufs_)
<1>1. UNCHANGED <<copied, consumed, conn, sndbuf>> /\ D' = D /\ rpc # "closed"
    BY RecvBufferEffect DEF sender, Data
<1>2. ASSUME NEW rest \in Seq(Nat), rpc' # "closed"
      PROVE  B' \o (rcvbuf' \o rest) = B \o (rcvbuf \o rest)
  <2>1. CASE B' = B /\ rcvbuf' = rcvbuf
    BY <2>1
  <2>2. CASE \E n \in 0 .. Len(rcvbuf) :
                rcvbuf' = Drop(rcvbuf, n) /\ B' = B \o SubSeq(rcvbuf, 1, n)
    <3>1. PICK n \in 0 .. Len(rcvbuf) :
              rcvbuf' = Drop(rcvbuf, n) /\ B' = B \o SubSeq(rcvbuf, 1, n)
      BY <2>2
    <3>2. B \in Seq(Nat) /\ rcvbuf \in Seq(Nat)
      BY DataTypes
    <3>3. (B \o SubSeq(rcvbuf, 1, n)) \o (Drop(rcvbuf, n) \o rest) = B \o (rcvbuf \o rest)
      BY <3>2, MoveCellsBefore, Zenon
    <3> QED
      BY <3>1, <3>3
  <2> QED
    BY <2>1, <2>2, RecvBufferEffect
<1>3. PICK rest \in Seq(Nat) :
          /\ copied = consumed \o (B \o (rcvbuf \o rest))
          /\ conn # "reset" => rest = sndbuf \o D
    BY <1>1 DEF StreamInv
<1> HIDE DEF B, D
<1>4. rpc' # "closed" => /\ copied' = consumed' \o (B' \o (rcvbuf' \o rest))
                         /\ conn' # "reset" => rest = sndbuf' \o D'
    BY <1>1, <1>2, <1>3
<1> QED
    BY <1>1, <1>4 DEF StreamInv, B, D

\* doRecv: cells are taken out of recv_bufs_; recvClear drops what follows them.
LEMMA StreamDoRecv ==
    ASSUME TypeOK, StreamInv, doRecv
    PROVE  StreamInv'
<1> DEFINE B == Data(recv_bufs_)
           D == Data(send_bufs_)
<1>1. UNCHANGED <<copied, conn, sndbuf>> /\ D' = D /\ rpc # "closed"
    BY DoRecvEffect DEF sender, Data
<1>2. PICK n \in 0 .. Len(B) : DoRecvMoves(n)
    BY DoRecvEffect
<1>3. /\ consumed' = consumed \o SubSeq(B, 1, n) /\ B' = Drop(B, n)
      /\ rpc' # "closed" => rcvbuf' = rcvbuf
    BY <1>2 DEF DoRecvMoves
<1>4. PICK rest \in Seq(Nat) :
          /\ copied = consumed \o (B \o (rcvbuf \o rest))
          /\ conn # "reset" => rest = sndbuf \o D
    BY <1>1 DEF StreamInv
<1>5. B \in Seq(Nat) /\ rcvbuf \in Seq(Nat) /\ consumed \in Seq(Nat)
    BY DataTypes
<1> HIDE DEF B, D
<1>6. rcvbuf \o rest \in Seq(Nat)
    BY <1>5, ConcatSeq
<1>7. (consumed \o SubSeq(B, 1, n)) \o (Drop(B, n) \o (rcvbuf \o rest))
         = consumed \o (B \o (rcvbuf \o rest))
    BY <1>5, <1>6, MoveCellsBefore, Zenon
<1>8. copied' = consumed' \o (B' \o (rcvbuf \o rest)) /\ B' \o (rcvbuf \o rest) \in Seq(Nat)
  <2>1. B' \in Seq(Nat)
    BY <1>3, <1>5, TakeDrop
  <2>2. B' \o (rcvbuf \o rest) \in Seq(Nat)
    BY <1>6, <2>1, ConcatSeq
  <2> QED
    BY <1>1, <1>3, <1>4, <1>7, <2>2
<1>9. rpc' # "closed" => /\ copied' = consumed' \o (B' \o (rcvbuf' \o rest))
                         /\ conn' # "reset" => rest = sndbuf' \o D'
    BY <1>1, <1>3, <1>4, <1>8
<1> QED
    BY <1>8, <1>9 DEF StreamInv, B, D

LEMMA StreamStep == TypeOK /\ StreamInv /\ [Next]_vars => StreamInv'
<1> SUFFICES ASSUME TypeOK, StreamInv, [Next]_vars PROVE StreamInv'
    OBVIOUS
<1>1. CASE \/ \E size \in Bodies : sendPacket(size)
           \/ handlePollOut \/ flushRecv \/ close \/ UNCHANGED vars
  <2>1. /\ UNCHANGED <<copied, consumed, rcvbuf, sndbuf>>
        /\ Data(recv_bufs_)' = Data(recv_bufs_) /\ Data(send_bufs_)' = Data(send_bufs_)
        /\ (rpc' # "closed" => rpc # "closed") /\ (conn' # "reset" => conn # "reset")
    <3>1. CASE \E size \in Bodies : sendPacket(size)
      BY <3>1, SendPacketEffect DEF kernel, receiver, Data
    <3>2. CASE handlePollOut
      BY <3>2, HandlePollOutEffect DEF receiver, Data
    <3>3. CASE flushRecv
      BY <3>3, FlushRecvEffect DEF sender, Data
    <3>4. CASE close
      BY <3>4 DEF close, sender, receiver, Data
    <3>5. CASE UNCHANGED vars
      BY <3>5 DEF vars, Data
    <3> QED
      BY <1>1, <3>1, <3>2, <3>3, <3>4, <3>5
  <2> QED
    BY <2>1 DEF StreamInv
<1>2. CASE reset
  <2>1. /\ UNCHANGED <<copied, consumed, rcvbuf, rpc>> /\ conn' = "reset"
        /\ Data(recv_bufs_)' = Data(recv_bufs_)
    BY <1>2 DEF reset, sender, receiver, Data
  <2> QED
    BY <2>1 DEF StreamInv
<1> QED
    BY <1>1, <1>2, StreamDoSend, StreamSendBuffer, StreamDeliver, StreamRecvBuffer, StreamDoRecv
    DEF Next, SenderNext, ReceiverNext

LEMMA StreamInvImplies == TypeOK /\ StreamInv => StreamConserved
<1> SUFFICES ASSUME TypeOK, StreamInv PROVE StreamConserved
    OBVIOUS
<1>1. IsPrefix(consumed, copied)
  <2>1. PICK rest \in Seq(Nat) : copied = consumed \o rest
    BY DEF StreamInv
  <2>2. consumed \in Seq(Nat) /\ Len(consumed) \in Nat /\ Len(rest) \in Nat
    BY DataTypes
  <2>3. Len(copied) = Len(consumed) + Len(rest)
    BY <2>1, <2>2
  <2>4. SubSeq(copied, 1, Len(consumed)) = SubSeq(consumed, 1, Len(consumed))
    BY <2>1, <2>2
  <2> QED
    BY <2>2, <2>3, <2>4 DEF IsPrefix
<1>2. ASSUME conn # "reset", rpc # "closed"
      PROVE  copied = consumed \o InFlight
  <2> DEFINE B == Data(recv_bufs_)
             D == Data(send_bufs_)
  <2>1. copied = consumed \o (B \o (rcvbuf \o (sndbuf \o D)))
    BY <1>2 DEF StreamInv
  <2>2. B \in Seq(Nat) /\ D \in Seq(Nat) /\ rcvbuf \in Seq(Nat) /\ sndbuf \in Seq(Nat)
    BY DataTypes
  <2>3. InFlight = ((B \o rcvbuf) \o sndbuf) \o D
    BY DEF InFlight
  <2> HIDE DEF B, D
  <2>4. Associates(B \o rcvbuf, sndbuf, D) /\ Associates(B, rcvbuf, sndbuf \o D)
    BY <2>2, ConcatSeq, Assoc
  <2> QED
    BY <2>1, <2>3, <2>4 DEF Associates
<1> QED
    BY <1>1, <1>2 DEF StreamConserved

\* The cells doRecv takes out are, for every buffer size and every way the kernel cuts
\* the stream, the cells doSend put in.
THEOREM SocketStream == Spec => []StreamConserved
<1>1. Spec => [](TypeOK /\ StreamInv)
    BY TypesInit, StreamInit, TypesStep, StreamStep, PTL DEF Spec
<1> QED
    BY <1>1, StreamInvImplies, PTL

---------------------------------------------------------------------------------
(* What the cells of the stream are: the packets, one behind the other.      *)

\* The packets doSend has begun, and the cells of all of them: copied, and still to copy.
Begun == Len(sent) - Len(send_que_)
Stream == copied \o (send_head_buf_ \o send_buf_)
Size(p) == HeaderSize + Len(Body(p))

\* The header and the body of p stand in s behind its first o cells.
Holds(s, o, p) ==
    /\ o + Size(p) <= Len(s)
    /\ s[o + 1] = packet_seed_ /\ s[o + 2] = Len(Body(p)) /\ s[o + 3] = p.pid
    /\ \A k \in 1 .. Len(Body(p)) : s[o + HeaderSize + k] = Body(p)[k]

\* at[i] is where the i-th packet ends.
Framed(at) ==
    /\ Begun \in Nat /\ at[0] = 0 /\ at[Begun] = Len(Stream)
    /\ \A i \in 1 .. Begun : at[i] = at[i - 1] + Size(sent[i]) /\ Holds(Stream, at[i - 1], sent[i])

\* The queue is the rest of what was sent; nothing is left to copy without a packet.
Queued ==
    /\ \A j \in 1 .. Len(send_que_) : send_que_[j] = sent[Begun + j]
    /\ \A i \in 1 .. Len(sent) : Len(Body(sent[i])) < U16
    /\ send_packet_ = NULL => send_head_buf_ = <<>> /\ send_buf_ = <<>>
    /\ send_packet_ # NULL /\ send_packet_.body = NULL => send_buf_ = <<>>

\* The packet being received begins behind base cells: so much of its header, of its body.
Partial(base) ==
    /\ recv_packet_ = NULL => recv_buf_ = NULL /\ Len(consumed) = base
    /\ recv_packet_ # NULL =>
          \A j \in 1 .. Len(recv_head_buf_) : recv_head_buf_[j] = consumed[base + j]
    /\ recv_packet_ # NULL /\ recv_buf_ = NULL =>
          /\ Len(recv_head_buf_) < HeaderSize
          /\ Len(consumed) = base + Len(recv_head_buf_)
    /\ recv_buf_ # NULL =>
          /\ Len(recv_head_buf_) = HeaderSize /\ recv_head_buf_[1] = 0 /\ recv_buf_.room > 0
          /\ recv_head_buf_[2] = Len(recv_buf_.data) + recv_buf_.room
          /\ Len(consumed) = base + HeaderSize + Len(recv_buf_.data)
          /\ \A j \in 1 .. Len(recv_buf_.data) :
                recv_buf_.data[j] = consumed[base + HeaderSize + j]

Unframed(at) ==
    /\ Len(recv_que_) <= Begun
    /\ \A i \in 1 .. Len(recv_que_) : recv_que_[i] = Received(sent[i])
    /\ recv_que_ # <<>> => packet_seed_ = 0
    /\ rpc # "closed" => Partial(at[Len(recv_que_)])

OrderInv == Queued /\ \E at \in [Nat -> Nat] : Framed(at) /\ Unframed(at)

LEMMA ConcatAt ==
    ASSUME NEW s \in Seq(Nat), NEW t \in Seq(Nat)
    PROVE  /\ s \o t \in Seq(Nat) /\ Len(s \o t) = Len(s) + Len(t)
           /\ \A i \in 1 .. Len(s) : (s \o t)[i] = s[i]
           /\ \A i \in 1 .. Len(t) : (s \o t)[Len(s) + i] = t[i]
<1>1. Len(s) \in Nat /\ Len(t) \in Nat
    OBVIOUS
<1> QED
    BY <1>1, ConcatProperties

LEMMA SmallModulo == \A a, b \in Nat : a < b => a % b = a
  OBVIOUS

\* The first n cells, one by one.
LEMMA FirstCells ==
    ASSUME NEW s \in Seq(Nat), NEW n \in 0 .. Len(s)
    PROVE  /\ SubSeq(s, 1, n) \in Seq(Nat) /\ Len(SubSeq(s, 1, n)) = n
           /\ \A i \in 1 .. n : SubSeq(s, 1, n)[i] = s[i]
           /\ \A m \in 0 .. Len(s) - n : \A i \in 1 .. m : SubSeq(Drop(s, n), 1, m)[i] = s[n + i]
<1>1. SubSeq(s, 1, n) \in Seq(Nat) /\ Len(SubSeq(s, 1, n)) = n
    BY TakeDrop
<1>2. Len(s) \in Nat /\ n \in Nat /\ n <= Len(s)
    OBVIOUS
<1>3. \A i \in 1 .. n : SubSeq(s, 1, n)[i] = s[i]
    BY <1>2
<1>4. /\ Drop(s, n) \in Seq(Nat) /\ Len(Drop(s, n)) = Len(s) - n
      /\ \A i \in 1 .. Len(s) - n : Drop(s, n)[i] = s[n + i]
    BY <1>2 DEF Drop
<1>5. ASSUME NEW m \in 0 .. Len(s) - n, NEW i \in 1 .. m
      PROVE  SubSeq(Drop(s, n), 1, m)[i] = s[n + i]
  <2>1. SubSeq(Drop(s, n), 1, m)[i] = Drop(s, n)[i]
    BY <1>2, <1>4
  <2>2. i \in 1 .. Len(s) - n
    BY <1>2
  <2> QED
    BY <1>4, <2>1, <2>2
<1> QED
    BY <1>1, <1>3, <1>5

LEMMA PacketTypes ==
    ASSUME NEW p \in Packet
    PROVE  /\ Body(p) \in Seq(Nat) /\ Len(Body(p)) \in Nat /\ Size(p) \in Nat /\ p.pid \in Nat
           /\ Size(p) = 3 + Len(Body(p))
<1>1. Body(p) \in Seq(Nat) /\ p.pid \in Nat
    BY DEF Packet, Body
<1>2. Len(Body(p)) \in Nat
    BY <1>1
<1> QED
    BY <1>1, <1>2 DEF Size, HeaderSize

LEMMA StreamTypes ==
    TypeOK => /\ Stream \in Seq(Nat) /\ Len(Stream) \in Nat
              /\ copied \in Seq(Nat) /\ Len(copied) <= Len(Stream)
              /\ \A i \in 1 .. Len(copied) : Stream[i] = copied[i]
<1> SUFFICES ASSUME TypeOK PROVE /\ Stream \in Seq(Nat) /\ Len(Stream) \in Nat
              /\ copied \in Seq(Nat) /\ Len(copied) <= Len(Stream)
              /\ \A i \in 1 .. Len(copied) : Stream[i] = copied[i]
    OBVIOUS
<1> DEFINE rest == send_head_buf_ \o send_buf_
<1>1. copied \in Seq(Nat) /\ rest \in Seq(Nat)
    BY ConcatSeq DEF TypeOK
<1>2. Stream = copied \o rest
    BY DEF Stream
<1> HIDE DEF rest
<1>3. Len(copied) \in Nat /\ Len(rest) \in Nat
    BY <1>1
<1> QED
    BY <1>1, <1>2, <1>3, ConcatAt

---------------------------------------------------------------------------------
(* The sender writes packet after packet.                                    *)

\* A packet keeps its place when the stream goes on.
LEMMA HoldsMore ==
    ASSUME NEW s \in Seq(Nat), NEW t \in Seq(Nat), NEW o \in Nat, NEW p \in Packet, Holds(s, o, p)
    PROVE  Holds(s \o t, o, p)
<1>1. /\ Len(s \o t) >= Len(s) /\ \A i \in 1 .. Len(s) : (s \o t)[i] = s[i]
      /\ Len(s) \in Nat /\ Len(s \o t) \in Nat
  <2>1. Len(s) \in Nat /\ Len(t) \in Nat
    OBVIOUS
  <2> QED
    BY <2>1, ConcatAt
<1>2. o + Size(p) <= Len(s) /\ Size(p) = 3 + Len(Body(p)) /\ Len(Body(p)) \in Nat
    BY PacketTypes DEF Holds
<1>3. o + 1 \in 1 .. Len(s) /\ o + 2 \in 1 .. Len(s) /\ o + 3 \in 1 .. Len(s)
    BY <1>1, <1>2
<1>4. \A k \in 1 .. Len(Body(p)) : o + HeaderSize + k \in 1 .. Len(s)
    BY <1>1, <1>2 DEF HeaderSize
<1>5. o + Size(p) <= Len(s \o t)
    BY <1>1, <1>2
<1> QED
    BY <1>1, <1>3, <1>4, <1>5 DEF Holds

\* The next packet begins where the stream ended.
LEMMA HoldsNext ==
    ASSUME NEW s \in Seq(Nat), NEW p \in Packet, Len(Body(p)) < U16, packet_seed_ \in Nat,
           NEW cells, cells = packHeader(p, packet_seed_) \o Body(p)
    PROVE  /\ cells \in Seq(Nat) /\ Len(cells) = Size(p)
           /\ Holds(s \o cells, Len(s), p)
<1> DEFINE head == packHeader(p, packet_seed_)
<1>1. Len(Body(p)) % U16 = Len(Body(p))
  <2>1. Len(Body(p)) \in Nat /\ U16 \in Nat \ {0}
    BY PacketTypes, SocketAssumption
  <2> QED
    BY ONLY <2>1, Len(Body(p)) < U16, SmallModulo
<1>2. /\ head \in Seq(Nat) /\ Len(head) = 3
      /\ head[1] = packet_seed_ /\ head[2] = Len(Body(p)) /\ head[3] = p.pid
    BY <1>1, PacketTypes DEF packHeader
<1>3. cells = head \o Body(p)
    OBVIOUS
<1> HIDE DEF head
<1>4. Len(Body(p)) \in Nat /\ Body(p) \in Seq(Nat) /\ Size(p) = 3 + Len(Body(p))
    BY PacketTypes
<1>5. /\ cells \in Seq(Nat) /\ Len(cells) = Size(p)
      /\ cells[1] = packet_seed_ /\ cells[2] = Len(Body(p)) /\ cells[3] = p.pid
      /\ \A k \in 1 .. Len(Body(p)) : cells[3 + k] = Body(p)[k]
  <2>0. /\ cells \in Seq(Nat) /\ Len(cells) = Len(head) + Len(Body(p))
        /\ \A i \in 1 .. Len(head) : cells[i] = head[i]
        /\ \A k \in 1 .. Len(Body(p)) : cells[Len(head) + k] = Body(p)[k]
    BY ONLY <1>2, <1>3, <1>4, ConcatAt, Zenon
  <2>1. /\ cells \in Seq(Nat) /\ Len(cells) = 3 + Len(Body(p))
        /\ \A i \in 1 .. 3 : cells[i] = head[i]
        /\ \A k \in 1 .. Len(Body(p)) : cells[3 + k] = Body(p)[k]
    BY <1>2, <2>0
  <2>2. cells[1] = head[1] /\ cells[2] = head[2] /\ cells[3] = head[3]
    BY <2>1
  <2> QED
    BY <1>2, <1>4, <2>1, <2>2
<1>6. /\ Len(s \o cells) = Len(s) + Size(p)
      /\ \A i \in 1 .. Size(p) : (s \o cells)[Len(s) + i] = cells[i]
    BY <1>5, ConcatAt
<1>7. Len(s) \in Nat
    OBVIOUS
<1>8. \A k \in 1 .. Len(Body(p)) : /\ 3 + k \in 1 .. Size(p)
                                   /\ Len(s) + HeaderSize + k = Len(s) + (3 + k)
    BY <1>4, <1>7 DEF HeaderSize
<1>9. 1 \in 1 .. Size(p) /\ 2 \in 1 .. Size(p) /\ 3 \in 1 .. Size(p)
    BY <1>4
<1>10. Len(s) + Size(p) <= Len(s \o cells)
    BY <1>4, <1>6, <1>7
<1> QED
    BY <1>5, <1>6, <1>8, <1>9, <1>10 DEF Holds

\* Copying moves cells from what is left of the packet to copied: the stream stays.
LEMMA CopyPacketStream ==
    ASSUME TypeOK, spc = "doSend",
           NEW pack \in Packet, NEW head \in Seq(Nat), NEW body \in Seq(Nat),
           copyPacket(pack, head, body), pack.body = NULL => body = <<>>
    PROVE  /\ Stream' = copied \o (head \o body)
           /\ send_packet_' = NULL => send_head_buf_' = <<>> /\ send_buf_' = <<>>
           /\ send_packet_' # NULL => send_packet_' = pack
           /\ pack.body = NULL => send_buf_' = <<>>
<1> DEFINE room  == send_bufs_.room
           nhead == min(Len(head), room)
           nbody == min(Len(body), room - nhead)
           h     == SubSeq(head, 1, nhead)
           b     == SubSeq(body, 1, nbody)
           done  == /\ nhead = Len(head)
                    /\ pack.body = NULL \/ (nhead < room /\ nbody = Len(body))
<1>1. /\ copied' = copied \o (h \o b)
      /\ send_packet_' = IF done THEN NULL ELSE pack
      /\ send_head_buf_' = Drop(head, nhead) /\ send_buf_' = Drop(body, nbody)
    BY DEF copyPacket
<1>2. room \in Nat /\ Len(head) \in Nat /\ Len(body) \in Nat /\ copied \in Seq(Nat)
    BY DEF TypeOK, Buffer
<1>3. /\ nhead \in 0 .. Len(head) /\ nhead <= room
      /\ nhead < Len(head) => nhead = room
    BY <1>2 DEF min
<1> HIDE DEF room, nhead
<1>4. /\ nbody \in 0 .. Len(body)
      /\ nhead = room => nbody = 0
    BY <1>2, <1>3 DEF min
<1> HIDE DEF nbody
<1>5. /\ h \in Seq(Nat) /\ b \in Seq(Nat) /\ Drop(head, nhead) \in Seq(Nat)
      /\ Drop(body, nbody) \in Seq(Nat)
      /\ h \o Drop(head, nhead) = head /\ b \o Drop(body, nbody) = body
    BY <1>3, <1>4, TakeDrop
<1>6. nhead < Len(head) => b = <<>> /\ Drop(body, nbody) = body
  <2> SUFFICES ASSUME nhead < Len(head) PROVE b = <<>> /\ Drop(body, nbody) = body
      OBVIOUS
  <2>1. nbody = 0
    BY <1>3, <1>4
  <2>2. b = <<>>
    BY <1>4, <2>1, TakeDrop
  <2>3. <<>> \o Drop(body, nbody) = Drop(body, nbody)
    BY <1>5, ConcatEmptySeq
  <2> QED
    BY <1>5, <2>2, <2>3
<1>7. nhead = Len(head) => h = head /\ Drop(head, nhead) = <<>>
  <2> SUFFICES ASSUME nhead = Len(head) PROVE h = head /\ Drop(head, nhead) = <<>>
      OBVIOUS
  <2>1. Drop(head, nhead) = <<>>
    BY <1>2, <1>3, TakeDrop
  <2>2. h \o <<>> = h
    BY <1>5, ConcatEmptySeq
  <2> QED
    BY <1>5, <2>1, <2>2
<1>8. nbody = Len(body) => Drop(body, nbody) = <<>>
    BY <1>2, <1>4, TakeDrop
<1> DEFINE H == Drop(head, nhead)
           B == Drop(body, nbody)
<1>9. (h \o b) \o (H \o B) = head \o body
  <2>1. CASE nhead < Len(head)
    <3>1. h \o b = h /\ B = body
      BY <1>5, <1>6, <2>1, ConcatEmptySeq
    <3>2. Associates(h, H, body)
      BY <1>5, Assoc
    <3> QED
      BY <1>5, <3>1, <3>2 DEF Associates
  <2>2. CASE nhead = Len(head)
    <3>1. h = head /\ H \o B = B
      BY <1>5, <1>7, <2>2, ConcatEmptySeq
    <3>2. Associates(head, b, B)
      BY <1>5, Assoc
    <3> QED
      BY <1>5, <3>1, <3>2 DEF Associates
  <2>3. nhead < Len(head) \/ nhead = Len(head)
    BY <1>2, <1>3
  <2> QED
    BY <2>1, <2>2, <2>3
<1> HIDE DEF h, b, H, B
<1>10. Stream' = copied \o (head \o body)
  <2>1. Stream' = (copied \o (h \o b)) \o (H \o B)
    BY <1>1 DEF Stream, H, B
  <2>2. h \o b \in Seq(Nat) /\ H \o B \in Seq(Nat)
    BY <1>5, ConcatSeq DEF H, B
  <2>3. Associates(copied, h \o b, H \o B)
    BY <1>2, <2>2, Assoc
  <2> QED
    BY <1>9, <2>1, <2>3 DEF Associates
<1>11. pack.body = NULL => send_buf_' = <<>>
    BY <1>1, <1>4, <1>8
<1>12. send_packet_' = NULL => send_head_buf_' = <<>> /\ send_buf_' = <<>>
  <2>1. pack # NULL
    BY NullAssumption DEF Packet
  <2>2. done => nhead = Len(head) /\ (pack.body = NULL \/ nbody = Len(body))
    OBVIOUS
  <2> HIDE DEF done
  <2> QED
    BY <1>1, <1>7, <1>8, <1>11, <2>1, <2>2
<1> QED
    BY <1>1, <1>10, <1>11, <1>12


BodiesFit == \A size \in Bodies : size # NULL => size < U16

\* sendPacket: the packet joins both the packets sent and the queue.
LEMMA OrderSendPacket ==
    ASSUME TypeOK, OrderInv, BodiesFit, NEW size \in Bodies, sendPacket(size) PROVE OrderInv'
<1> DEFINE pack == PacketOf(Len(sent) + 1, size)
<1>1. /\ sent' = Append(sent, pack) /\ send_que_' = Append(send_que_, pack)
      /\ UNCHANGED <<copied, send_head_buf_, send_buf_, send_packet_, packet_seed_>>
      /\ UNCHANGED <<recv_que_, recv_packet_, recv_head_buf_, recv_buf_, consumed, rpc>>
    BY DEF sendPacket, receiver
<1>2. pack \in Packet /\ Len(Body(pack)) < U16
  <2>1. Len(sent) \in Nat
    BY DEF TypeOK
  <2>2. CASE size = NULL
    <3>1. pack = [pid |-> Len(sent) + 1, body |-> NULL]
      BY <2>2 DEF PacketOf
    <3>2. Body(pack) = <<>> /\ pack \in Packet
      BY <2>1, <3>1 DEF Body, Packet
    <3> QED
      BY <3>2, SocketAssumption
  <2>3. CASE size # NULL
    <3> DEFINE body == [i \in 1 .. size |-> 10 * (Len(sent) + 1) + i]
    <3>1. size \in Nat /\ size < U16
      BY <2>3, SocketAssumption DEF BodiesFit
    <3>2. body \in Seq(Nat) /\ Len(body) = size
      BY <2>1, <3>1
    <3>3. pack = [pid |-> Len(sent) + 1, body |-> body]
      BY <2>3 DEF PacketOf
    <3> HIDE DEF body
    <3>4. pack \in Packet /\ pack.body = body
      BY <2>1, <3>2, <3>3 DEF Packet
    <3>5. Len(Body(pack)) < U16
      BY <3>1, <3>2, <3>4, SocketAssumption DEF Body
    <3> QED
      BY <3>4, <3>5
  <2> QED
    BY <2>2, <2>3
<1>3. /\ sent \in Seq(Packet) /\ send_que_ \in Seq(Packet)
      /\ Len(sent) \in Nat /\ Len(send_que_) \in Nat /\ Begun \in Nat
      /\ Begun = Len(sent) - Len(send_que_)
  <2>1. sent \in Seq(Packet) /\ send_que_ \in Seq(Packet)
    BY DEF TypeOK
  <2>2. Begun \in Nat
    BY DEF OrderInv, Framed
  <2> QED
    BY <2>1, <2>2 DEF Begun
<1> HIDE DEF pack
<1>4. /\ Len(sent') = Len(sent) + 1 /\ sent'[Len(sent) + 1] = pack
      /\ \A i \in 1 .. Len(sent) : sent'[i] = sent[i]
      /\ Len(send_que_') = Len(send_que_) + 1 /\ send_que_'[Len(send_que_) + 1] = pack
      /\ \A i \in 1 .. Len(send_que_) : send_que_'[i] = send_que_[i]
    BY <1>1, <1>2, <1>3, AppendProperties
<1>5. Begun' = Begun /\ Stream' = Stream /\ \A i \in 1 .. Begun : sent'[i] = sent[i]
    BY <1>1, <1>3, <1>4 DEF Begun, Stream
<1>6. Queued'
  <2>1. \A j \in 1 .. Len(send_que_') : send_que_'[j] = sent'[Begun + j]
    <3> SUFFICES ASSUME NEW j \in 1 .. Len(send_que_') PROVE send_que_'[j] = sent'[Begun + j]
        OBVIOUS
    <3>1. CASE j \in 1 .. Len(send_que_)
      <4>1. Begun + j \in 1 .. Len(sent)
        BY <1>3, <3>1
      <4> QED
        BY <1>4, <3>1, <4>1 DEF OrderInv, Queued
    <3>2. CASE j = Len(send_que_) + 1
      <4>1. Begun + j = Len(sent) + 1
        BY <1>3, <3>2
      <4> QED
        BY <1>4, <3>2, <4>1
    <3> QED
      BY <1>3, <1>4, <3>1, <3>2
  <2>2. \A i \in 1 .. Len(sent') : Len(Body(sent'[i])) < U16
    <3> SUFFICES ASSUME NEW i \in 1 .. Len(sent') PROVE Len(Body(sent'[i])) < U16
        OBVIOUS
    <3>1. CASE i \in 1 .. Len(sent)
      BY <1>4, <3>1 DEF OrderInv, Queued
    <3>2. CASE i = Len(sent) + 1
      BY <1>2, <1>4, <3>2
    <3> QED
      BY <1>3, <1>4, <3>1, <3>2
  <2> QED
    BY <1>1, <1>5, <2>1, <2>2 DEF OrderInv, Queued
<1>7. PICK at \in [Nat -> Nat] : Framed(at) /\ Unframed(at)
    BY DEF OrderInv
<1>8. Framed(at)'
  <2>1. \A i \in 1 .. Begun : at[i] = at[i - 1] + Size(sent'[i]) /\ Holds(Stream, at[i - 1], sent'[i])
    BY <1>5, <1>7 DEF Framed
  <2> QED
    BY <1>1, <1>5, <1>7, <2>1 DEF Framed, Holds
<1>9. Unframed(at)'
  <2>1. \A i \in 1 .. Len(recv_que_) : sent'[i] = sent[i]
    BY <1>3, <1>5, <1>7 DEF Unframed, TypeOK
  <2> QED
    BY <1>1, <1>5, <1>7, <2>1 DEF Unframed, Partial
<1> QED
    BY <1>6, <1>7, <1>8, <1>9 DEF OrderInv

\* doSend goes on with a packet, or begins the next one of the queue.
LEMMA OrderDoSend ==
    ASSUME TypeOK, OrderInv, packet_seed_ \in Nat, doSend PROVE OrderInv'
<1>1. /\ UNCHANGED <<sent, packet_seed_, recv_que_, recv_packet_, recv_head_buf_, recv_buf_,
                     consumed, rpc>>
      /\ spc = "doSend" /\ Queued
    BY DEF doSend, receiver, OrderInv
<1>2. PICK at \in [Nat -> Nat] : Framed(at) /\ Unframed(at)
    BY DEF OrderInv
<1>3. /\ sent \in Seq(Packet) /\ send_que_ \in Seq(Packet)
      /\ Len(sent) \in Nat /\ Len(send_que_) \in Nat /\ Begun \in Nat
      /\ Begun = Len(sent) - Len(send_que_) /\ Len(recv_que_) \in Nat
      /\ send_head_buf_ \in Seq(Nat) /\ send_buf_ \in Seq(Nat) /\ copied \in Seq(Nat)
  <2>1. /\ sent \in Seq(Packet) /\ send_que_ \in Seq(Packet) /\ recv_que_ \in Seq(Packet)
        /\ send_head_buf_ \in Seq(Nat) /\ send_buf_ \in Seq(Nat) /\ copied \in Seq(Nat)
    BY DEF TypeOK
  <2>2. Begun \in Nat /\ Begun = Len(sent) - Len(send_que_)
    BY <1>2 DEF Framed, Begun
  <2>3. Len(sent) \in Nat /\ Len(send_que_) \in Nat /\ Len(recv_que_) \in Nat
    BY <2>1, LenProperties, Zenon
  <2> QED
    BY ONLY <2>1, <2>2, <2>3
<1>4. ASSUME Begun' = Begun, Stream' = Stream, send_que_' = send_que_,
             send_packet_' = NULL => send_head_buf_' = <<>> /\ send_buf_' = <<>>,
             send_packet_' # NULL /\ send_packet_'.body = NULL => send_buf_' = <<>>
      PROVE  OrderInv'
  <2>1. Queued'
    BY <1>1, <1>4 DEF Queued
  <2>2. Framed(at)'
    BY <1>1, <1>2, <1>4 DEF Framed, Holds
  <2>3. Unframed(at)'
    BY <1>1, <1>2, <1>4 DEF Unframed, Partial
  <2> QED
    BY <2>1, <2>2, <2>3 DEF OrderInv
<1>5. CASE send_packet_ = NULL /\ send_que_ = <<>>
  <2>1. UNCHANGED <<send_que_, send_packet_, send_head_buf_, send_buf_, copied>>
    BY <1>5 DEF doSend
  <2>2. Begun' = Begun /\ Stream' = Stream
    BY <1>1, <2>1 DEF Begun, Stream
  <2> QED
    BY <1>1, <1>4, <2>1, <2>2 DEF Queued
<1>6. CASE send_packet_ # NULL
  <2>1. copyPacket(send_packet_, send_head_buf_, send_buf_) /\ UNCHANGED send_que_
    BY <1>6 DEF doSend
  <2>2. send_packet_ \in Packet /\ (send_packet_.body = NULL => send_buf_ = <<>>)
    BY <1>1, <1>6 DEF TypeOK, Queued
  <2>3. /\ Stream' = Stream /\ (send_packet_' # NULL => send_packet_' = send_packet_)
        /\ send_packet_' = NULL => send_head_buf_' = <<>> /\ send_buf_' = <<>>
        /\ send_packet_.body = NULL => send_buf_' = <<>>
    BY <1>1, <1>3, <2>1, <2>2, CopyPacketStream DEF Stream
  <2>4. Begun' = Begun
    BY <1>1, <2>1 DEF Begun
  <2> QED
    BY <1>4, <2>1, <2>3, <2>4
<1>7. CASE send_packet_ = NULL /\ send_que_ # <<>>
  <2> DEFINE pack == Head(send_que_)
             head == packHeader(pack, packet_seed_)
             cells == head \o Body(pack)
             n == Begun + 1
  <2>1. copyPacket(pack, head, Body(pack)) /\ send_que_' = Tail(send_que_)
    BY <1>7 DEF doSend
  <2>2. /\ Len(send_que_) >= 1 /\ pack \in Packet /\ pack = send_que_[1]
        /\ Len(send_que_') = Len(send_que_) - 1
        /\ \A j \in 1 .. Len(send_que_) - 1 : send_que_'[j] = send_que_[j + 1]
    <3>1. send_que_ # <<>> /\ send_que_' = Tail(send_que_)
      BY <1>7, <2>1
    <3>2. Len(send_que_) >= 1 /\ send_que_[1] \in Packet /\ pack = send_que_[1]
      <4>1. Head(send_que_) = send_que_[1]
        BY <1>3, <3>1, HeadTailProperties
      <4>2. Len(send_que_) # 0
        BY <1>3, <3>1, EmptySeq
      <4>3. Len(send_que_) >= 1 /\ 1 \in 1 .. Len(send_que_)
        BY ONLY <1>3, <4>2
      <4> QED
        BY <1>3, <4>1, <4>3
    <3> QED
      BY <1>3, <3>1, <3>2, HeadTailProperties
  <2>3. n \in 1 .. Len(sent) /\ pack = sent[n] /\ Len(Body(pack)) < U16
    <3>1. n \in 1 .. Len(sent)
      BY ONLY <1>3, <2>2
    <3>2. 1 \in 1 .. Len(send_que_)
      BY ONLY <1>3, <2>2
    <3>3. pack = sent[n]
      BY ONLY <1>1, <2>2, <3>2, Zenon DEF Queued
    <3> QED
      BY <1>1, <3>1, <3>3 DEF Queued
  <2>4. pack.body = NULL => Body(pack) = <<>>
    BY DEF Body
  <2> HIDE DEF pack
  <2>5. head \in Seq(Nat) /\ Body(pack) \in Seq(Nat)
    BY <2>2, PackHeaderType, PacketTypes
  <2> HIDE DEF head
  <2>6. /\ Stream' = copied \o cells
        /\ send_packet_' = NULL => send_head_buf_' = <<>> /\ send_buf_' = <<>>
        /\ send_packet_' # NULL => send_packet_' = pack
        /\ pack.body = NULL => send_buf_' = <<>>
    BY <1>1, <2>1, <2>2, <2>4, <2>5, CopyPacketStream
  <2>7. Stream = copied
    <3>1. send_head_buf_ = <<>> /\ send_buf_ = <<>>
      BY <1>1, <1>7 DEF Queued
    <3>2. <<>> \o <<>> = <<>> /\ copied \o <<>> = copied
      BY <1>3, ConcatEmptySeq, EmptySeq
    <3> QED
      BY <3>1, <3>2 DEF Stream
  <2>8. cells \in Seq(Nat) /\ Len(cells) = Size(pack) /\ Holds(copied \o cells, Len(copied), pack)
    BY <1>1, <1>3, <2>2, <2>3, HoldsNext DEF head
  <2> HIDE DEF cells
  <2>9. Begun' = n
    BY <1>1, <1>3, <2>2 DEF Begun
  <2>10. Queued'
    <3>1. \A j \in 1 .. Len(send_que_') : send_que_'[j] = sent'[n + j]
      <4> SUFFICES ASSUME NEW j \in 1 .. Len(send_que_') PROVE send_que_'[j] = sent[n + j]
          BY <1>1
      <4>1. j \in 1 .. Len(send_que_) - 1 /\ j + 1 \in 1 .. Len(send_que_)
        BY <1>3, <2>2
      <4>2. send_que_[j + 1] = sent[Begun + (j + 1)]
        BY <1>1, <4>1 DEF Queued
      <4>3. Begun + (j + 1) = n + j
        BY <1>3
      <4> QED
        BY <2>2, <4>1, <4>2, <4>3
    <3> QED
      BY <1>1, <2>6, <2>9, <3>1 DEF Queued
  <2>11. Size(pack) \in Nat /\ at[Begun] \in Nat
    BY <1>3, <2>2, PacketTypes
  <2>12. PICK more \in [Nat -> Nat] :
             more[n] = at[Begun] + Size(pack) /\ \A i \in 0 .. Begun : more[i] = at[i]
    <3> DEFINE new == at[Begun] + Size(pack)
    <3>1. new \in Nat /\ n \in Nat /\ \A i \in 0 .. Begun : i \in Nat /\ i # n
      <4>1. new \in Nat
        BY ONLY <2>11
      <4>2. n \in Nat /\ \A i \in 0 .. Begun : i \in Nat /\ i # n
        <5>1. Begun \in Nat
          BY <1>3
        <5> QED
          BY ONLY <5>1
      <4> QED
        BY <4>1, <4>2
    <3> HIDE DEF new, n
    <3>2. /\ [at EXCEPT ![n] = new] \in [Nat -> Nat] /\ [at EXCEPT ![n] = new][n] = new
          /\ \A i \in 0 .. Begun : [at EXCEPT ![n] = new][i] = at[i]
      BY <3>1
    <3> QED
      BY <3>2 DEF new
  <2> HIDE DEF n
  <2>13. n = Begun + 1
    BY DEF n
  <2>14. Framed(more)'
    <3>0. /\ \A i \in 1 .. Begun : /\ i - 1 \in 0 .. Begun /\ i \in 0 .. Begun
                                  /\ more[i - 1] = at[i - 1] /\ more[i] = at[i]
                                  /\ at[i - 1] \in Nat
          /\ n - 1 = Begun /\ more[n - 1] = at[Begun]
      <4>1. \A i \in 1 .. Begun : i - 1 \in 0 .. Begun /\ i \in 0 .. Begun /\ i - 1 \in Nat
        BY ONLY <1>3
      <4>2. n - 1 = Begun /\ Begun \in 0 .. Begun
        BY ONLY <1>3, <2>13
      <4> QED
        BY <2>12, <4>1, <4>2
    <3>1. Len(Stream') = more[n]
      <4>1. Len(copied \o cells) = Len(copied) + Len(cells)
        BY <1>3, <2>8, ConcatAt
      <4> QED
        BY <1>2, <2>6, <2>7, <2>8, <2>12, <4>1 DEF Framed
    <3>2. \A i \in 1 .. Begun : Holds(Stream', more[i - 1], sent[i])
      <4> SUFFICES ASSUME NEW i \in 1 .. Begun PROVE Holds(Stream', at[i - 1], sent[i])
          BY <3>0
      <4>1. Holds(copied, at[i - 1], sent[i]) /\ at[i - 1] \in Nat /\ sent[i] \in Packet
        <5>1. i \in 1 .. Len(sent)
          BY ONLY <1>3, i \in 1 .. Begun
        <5>2. sent[i] \in Packet
          BY ONLY <1>3, <5>1
        <5> QED
          BY <1>2, <2>7, <3>0, <5>2 DEF Framed
      <4> QED
        BY <1>3, <2>6, <2>8, <4>1, HoldsMore
    <3>3. Holds(Stream', more[n - 1], sent[n])
      BY <1>2, <2>3, <2>6, <2>7, <2>8, <3>0 DEF Framed
    <3>4. \A i \in 1 .. n : more[i] = more[i - 1] + Size(sent[i]) /\ Holds(Stream', more[i - 1], sent[i])
      <4>1. \A i \in 1 .. Begun : more[i] = more[i - 1] + Size(sent[i])
        BY <1>2, <3>0 DEF Framed
      <4>2. more[n] = more[n - 1] + Size(sent[n])
        BY <2>3, <2>12, <3>0
      <4> QED
        <5>1. \A i \in 1 .. n : i \in 1 .. Begun \/ i = n
          <6>1. Begun \in Nat
            BY <1>3
          <6> QED
            BY ONLY <6>1, <2>13
        <5> QED
          BY ONLY <3>2, <3>3, <4>1, <4>2, <5>1
    <3>5. n \in Nat /\ more[0] = 0
      <4>1. Begun \in Nat /\ at[0] = 0
        BY <1>2, <1>3 DEF Framed
      <4>2. n \in Nat /\ 0 \in 0 .. Begun
        BY ONLY <2>13, <4>1
      <4> QED
        BY <2>12, <4>1, <4>2
    <3>6. ASSUME NEW i \in 1 .. Begun'
          PROVE  more[i] = more[i - 1] + Size(sent[i])' /\ Holds(Stream, more[i - 1], sent[i])'
      <4>1. sent'[i] = sent[i] /\ packet_seed_' = packet_seed_ /\ i \in 1 .. n
        BY <1>1, <2>9
      <4>2. more[i] = more[i - 1] + Size(sent[i]) /\ Holds(Stream', more[i - 1], sent[i])
        BY <3>4, <4>1
      <4> QED
        BY <4>1, <4>2 DEF Holds
    <3> QED
      BY <2>9, <3>1, <3>5, <3>6 DEF Framed
  <2>15. Unframed(more)'
    <3>1. Len(recv_que_) \in 0 .. Begun
      BY <1>2, <1>3 DEF Unframed
    <3>2. more[Len(recv_que_)] = at[Len(recv_que_)]
      BY <2>12, <3>1
    <3>3. Len(recv_que_) <= Begun'
      BY <1>3, <2>9, <2>13, <3>1
    <3> QED
      BY <1>1, <1>2, <3>2, <3>3 DEF Unframed, Partial
  <2> QED
    BY <2>10, <2>12, <2>14, <2>15 DEF OrderInv
<1> QED
    BY <1>5, <1>6, <1>7


---------------------------------------------------------------------------------
(* The receiver finds the packets again.                                     *)

\* The cells taken out of the stream once n more are.
Taken(n) == consumed \o SubSeq(recv_bufs_.data, 1, n)

LEMMA TakenCells ==
    ASSUME TypeOK, rpc = "doRecv", NEW n \in 0 .. Len(recv_bufs_.data)
    PROVE  /\ recv_bufs_.data \in Seq(Nat) /\ Len(recv_bufs_.data) \in Nat /\ n \in Nat
           /\ consumed \in Seq(Nat) /\ Len(consumed) \in Nat
           /\ Taken(n) \in Seq(Nat) /\ Len(Taken(n)) = Len(consumed) + n
           /\ \A k \in 1 .. Len(consumed) : Taken(n)[k] = consumed[k]
           /\ \A i \in 1 .. n : Taken(n)[Len(consumed) + i] = recv_bufs_.data[i]
<1>1. recv_bufs_.data \in Seq(Nat) /\ consumed \in Seq(Nat)
    BY DEF TypeOK, Buffer
<1> DEFINE more == SubSeq(recv_bufs_.data, 1, n)
<1>2. more \in Seq(Nat) /\ Len(more) = n /\ \A i \in 1 .. n : more[i] = recv_bufs_.data[i]
    BY <1>1, FirstCells
<1>3. Taken(n) = consumed \o more
    BY DEF Taken
<1>4. Len(recv_bufs_.data) \in Nat /\ Len(consumed) \in Nat
    BY <1>1, LenProperties
<1> HIDE DEF more
<1>5. /\ Taken(n) \in Seq(Nat) /\ Len(Taken(n)) = Len(consumed) + Len(more)
      /\ \A k \in 1 .. Len(consumed) : Taken(n)[k] = consumed[k]
      /\ \A i \in 1 .. Len(more) : Taken(n)[Len(consumed) + i] = more[i]
  <2>1. /\ (consumed \o more) \in Seq(Nat) /\ Len(consumed \o more) = Len(consumed) + Len(more)
        /\ \A k \in 1 .. Len(consumed) : (consumed \o more)[k] = consumed[k]
        /\ \A i \in 1 .. Len(more) : (consumed \o more)[Len(consumed) + i] = more[i]
    BY <1>1, <1>2, ConcatAt
  <2> QED
    BY ONLY <1>3, <2>1, Zenon
<1>6. \A i \in 1 .. n : Taken(n)[Len(consumed) + i] = recv_bufs_.data[i]
    BY ONLY <1>2, <1>5, Zenon
<1>7. n \in Nat
    OBVIOUS
<1> QED
    BY ONLY <1>1, <1>2, <1>4, <1>5, <1>6, <1>7, Zenon

\* Taking more does not change what was taken.
LEMMA TakenMore ==
    ASSUME TypeOK, rpc = "doRecv",
           NEW n \in 0 .. Len(recv_bufs_.data), NEW m \in 0 .. Len(recv_bufs_.data), n <= m,
           NEW k \in 1 .. Len(consumed) + n
    PROVE  Taken(m)[k] = Taken(n)[k]
<1>1. Len(consumed) \in Nat /\ Len(recv_bufs_.data) \in Nat
    BY TakenCells
<1>2. CASE k \in 1 .. Len(consumed)
    BY <1>2, TakenCells
<1>3. CASE k \notin 1 .. Len(consumed)
  <2> DEFINE i == k - Len(consumed)
  <2>1. i \in 1 .. n /\ i \in 1 .. m /\ k = Len(consumed) + i
    BY ONLY <1>1, <1>3, n \in 0 .. Len(recv_bufs_.data), m \in 0 .. Len(recv_bufs_.data), n <= m,
            k \in 1 .. Len(consumed) + n
  <2> HIDE DEF i
  <2> QED
    BY <2>1, TakenCells
<1> QED
    BY <1>2, <1>3

\* Where the cells of a packet behind b are, when l of its body had come before.
Aligned(c, h, b, l, n) ==
    /\ c + (h + n) = b + 3 + (l + n)
    /\ \A j \in 1 .. 3 : b + j \in 1 .. c + h
    /\ \A j \in 1 .. l : b + 3 + j \in 1 .. c + h
    /\ \A j \in 1 .. l + n : j \notin 1 .. l =>
          \E i \in 1 .. n : j = l + i /\ h + i \in 1 .. h + n /\ b + 3 + j = c + (h + i)

LEMMA Offsets == \A c, h, b, l, n \in Nat : c + h = b + 3 + l => Aligned(c, h, b, l, n)
<1> SUFFICES ASSUME NEW c \in Nat, NEW h \in Nat, NEW b \in Nat, NEW l \in Nat, NEW n \in Nat,
                    c + h = b + 3 + l
             PROVE  Aligned(c, h, b, l, n)
    OBVIOUS
<1>1. ASSUME NEW j \in 1 .. l + n, j \notin 1 .. l
      PROVE  /\ j - l \in 1 .. n /\ j = l + (j - l) /\ h + (j - l) \in 1 .. h + n
             /\ b + 3 + j = c + (h + (j - l))
    BY <1>1
<1> QED
    BY <1>1 DEF Aligned

\* What a doRecv makes of the cells behind base: a packet still in parts, or a whole one.
RecvCells(base) ==
    \/ UNCHANGED recv_que_ /\ (rpc' # "closed" => Partial(base)')
    \/ \E head, data \in Seq(Nat) :
          /\ Len(head) = 3 /\ head[1] = 0 /\ head[2] = Len(data)
          /\ Len(consumed') = base + 3 + Len(data)
          /\ \A j \in 1 .. 3 : head[j] = consumed'[base + j]
          /\ \A j \in 1 .. Len(data) : data[j] = consumed'[base + 3 + j]
          /\ recv_que_' = Append(recv_que_, [pid |-> head[3],
                                             body |-> IF data = <<>> THEN NULL ELSE data])
          /\ recv_packet_' = NULL /\ recv_buf_' = NULL

LEMMA RecvBodyCells ==
    ASSUME TypeOK, rpc = "doRecv", NEW base \in Nat,
           NEW head \in Seq(Nat), Len(head) = 3, head[1] = 0, recv_head_buf_' = head,
           NEW nhead \in 0 .. Len(recv_bufs_.data), NEW body0 \in Buffer, body0.room > 0,
           head[2] = Len(body0.data) + body0.room, recvBody(head, nhead, body0),
           Len(consumed) + nhead = base + 3 + Len(body0.data),
           \A j \in 1 .. 3 : head[j] = Taken(nhead)[base + j],
           \A j \in 1 .. Len(body0.data) : body0.data[j] = Taken(nhead)[base + 3 + j]
    PROVE  RecvCells(base)
<1> DEFINE rest  == Drop(recv_bufs_.data, nhead)
           nbody == min(Len(rest), body0.room)
           more  == SubSeq(rest, 1, nbody)
           data  == body0.data \o more
           body  == [data |-> data, room |-> body0.room - nbody]
           n     == nhead + nbody
<1>1. /\ consumed' = Taken(n)
      /\ \/ /\ body.room = 0
            /\ recvPacket([pid |-> head[3], body |-> body.data])
         \/ /\ body.room > 0
            /\ recv_packet_' = "open" /\ recv_buf_' = body
            /\ UNCHANGED recv_que_
    BY DEF recvBody, takes, Taken
<1>2. /\ recv_bufs_.data \in Seq(Nat) /\ body0.data \in Seq(Nat) /\ body0.room \in Nat
      /\ Len(recv_bufs_.data) \in Nat /\ Len(body0.data) \in Nat /\ nhead \in Nat
      /\ nhead <= Len(recv_bufs_.data) /\ Len(consumed) \in Nat
  <2>1. recv_bufs_.data \in Seq(Nat) /\ Len(recv_bufs_.data) \in Nat /\ nhead \in Nat
        /\ Len(consumed) \in Nat
    BY TakenCells
  <2>2. body0.data \in Seq(Nat) /\ body0.room \in Nat
    BY DEF Buffer
  <2> QED
    BY <2>1, <2>2, LenProperties
<1>19. /\ Len(consumed) \in Nat /\ nhead \in Nat /\ Len(body0.data) \in Nat
       /\ Len(consumed) + nhead = base + 3 + Len(body0.data)
    BY <1>2
<1>20. /\ Len(recv_bufs_.data) \in Nat /\ Len(body0.data) \in Nat /\ nhead \in Nat
       /\ nhead <= Len(recv_bufs_.data) /\ Len(consumed) \in Nat /\ body0.room \in Nat
    BY <1>2
<1>3. rest \in Seq(Nat) /\ Len(rest) = Len(recv_bufs_.data) - nhead /\ Len(rest) \in Nat
  <2>1. rest \in Seq(Nat) /\ Len(rest) = Len(recv_bufs_.data) - nhead
    BY <1>2, TakeDrop, Zenon
  <2> QED
    BY ONLY <1>2, <2>1
<1>4. nbody \in 0 .. Len(rest) /\ nbody <= body0.room /\ nbody \in Nat
    BY <1>2, <1>3, MinBound
<1> HIDE DEF rest, nbody
<1>5. n \in 0 .. Len(recv_bufs_.data) /\ nhead <= n /\ nbody \in 0 .. Len(recv_bufs_.data) - nhead
    BY ONLY <1>2, <1>3, <1>4
<1>6. /\ more \in Seq(Nat) /\ Len(more) = nbody
      /\ \A i \in 1 .. nbody : more[i] = recv_bufs_.data[nhead + i]
  <2>1. more \in Seq(Nat) /\ Len(more) = nbody
    BY <1>3, <1>4, FirstCells
  <2>2. \A m \in 0 .. Len(recv_bufs_.data) - nhead :
           \A i \in 1 .. m : SubSeq(Drop(recv_bufs_.data, nhead), 1, m)[i] = recv_bufs_.data[nhead + i]
    BY <1>2, FirstCells, Zenon
  <2> QED
    BY <1>5, <2>1, <2>2, Zenon DEF rest
<1> HIDE DEF more
<1>7. /\ data \in Seq(Nat) /\ Len(data) = Len(body0.data) + nbody
      /\ \A j \in 1 .. Len(body0.data) : data[j] = body0.data[j]
      /\ \A i \in 1 .. nbody : data[Len(body0.data) + i] = more[i]
    BY ONLY <1>2, <1>6, ConcatAt
<1>8. body.data = data /\ body.room = body0.room - nbody
    OBVIOUS
<1>9. body \in Buffer
  <2>1. body0.room - nbody \in Nat
    BY ONLY <1>2, <1>4
  <2> QED
    BY <1>7, <2>1 DEF Buffer
<1>21. Len(data) = Len(body0.data) + nbody /\ nbody \in Nat /\ nbody <= body0.room
    BY <1>4, <1>7
<1>10. head[2] = Len(data) + body.room
    BY ONLY <1>8, <1>20, <1>21, head[2] = Len(body0.data) + body0.room
<1> HIDE DEF data, body
<1>22. /\ Len(consumed) + (nhead + nbody) = base + 3 + (Len(body0.data) + nbody)
       /\ \A j \in 1 .. 3 : base + j \in 1 .. Len(consumed) + nhead
       /\ \A j \in 1 .. Len(body0.data) : base + 3 + j \in 1 .. Len(consumed) + nhead
       /\ \A j \in 1 .. Len(body0.data) + nbody : j \notin 1 .. Len(body0.data) =>
             \E i \in 1 .. nbody : j = Len(body0.data) + i /\ nhead + i \in 1 .. nhead + nbody
                                   /\ base + 3 + j = Len(consumed) + (nhead + i)
  <2>1. base \in Nat /\ nbody \in Nat
    BY <1>21
  <2>2. Aligned(Len(consumed), nhead, base, Len(body0.data), nbody)
    BY ONLY <1>19, <2>1, Offsets, Zenon
  <2> QED
    BY <2>2, Zenon DEF Aligned
<1>11. /\ \A k \in 1 .. Len(consumed) + nhead : consumed'[k] = Taken(nhead)[k]
       /\ \A i \in 1 .. n : consumed'[Len(consumed) + i] = recv_bufs_.data[i]
       /\ Len(consumed') = Len(consumed) + n
  <2>1. \A k \in 1 .. Len(consumed) + nhead : Taken(n)[k] = Taken(nhead)[k]
    BY <1>5, TakenMore
  <2>2. Len(Taken(n)) = Len(consumed) + n
    BY <1>5, TakenCells
  <2>3. \A i \in 1 .. n : Taken(n)[Len(consumed) + i] = recv_bufs_.data[i]
    BY <1>5, TakenCells
  <2> HIDE DEF n
  <2> QED
    BY <1>1, <2>1, <2>2, <2>3
<1>12. Len(consumed') = base + 3 + Len(data)
  <2>1. Len(consumed') = Len(consumed) + (nhead + nbody)
    BY <1>11
  <2> QED
    BY ONLY <1>21, <1>22, <2>1, Zenon
<1>13. \A j \in 1 .. 3 : head[j] = consumed'[base + j]
  <2>1. \A j \in 1 .. 3 : base + j \in 1 .. Len(consumed) + nhead
    BY <1>22, Zenon
  <2> QED
    BY <1>11, <2>1
<1>14. \A j \in 1 .. Len(data) : data[j] = consumed'[base + 3 + j]
  <2> SUFFICES ASSUME NEW j \in 1 .. Len(data) PROVE data[j] = consumed'[base + 3 + j]
      OBVIOUS
  <2>1. CASE j \in 1 .. Len(body0.data)
    <3>1. base + 3 + j \in 1 .. Len(consumed) + nhead
      BY <1>22, <2>1, Zenon
    <3>2. data[j] = Taken(nhead)[base + 3 + j]
      BY <1>7, <2>1
    <3> QED
      BY <1>11, <3>1, <3>2
  <2>2. CASE j \notin 1 .. Len(body0.data)
    <3>1. PICK i \in 1 .. nbody : /\ j = Len(body0.data) + i /\ nhead + i \in 1 .. n
                                 /\ base + 3 + j = Len(consumed) + (nhead + i)
      <4>1. j \in 1 .. Len(body0.data) + nbody
        BY <1>21
      <4> QED
        BY <1>22, <2>2, <4>1, Zenon
    <3> HIDE DEF n
    <3>2. data[j] = recv_bufs_.data[nhead + i]
      BY <1>6, <1>7, <3>1
    <3>3. consumed'[Len(consumed) + (nhead + i)] = recv_bufs_.data[nhead + i]
      BY <1>11, <3>1
    <3> QED
      BY <3>1, <3>2, <3>3
  <2> QED
    BY <2>1, <2>2
<1> HIDE DEF n
<1>15. CASE body.room = 0 /\ recvPacket([pid |-> head[3], body |-> body.data])
  <2>1. head[2] = Len(data) /\ data # <<>>
    <3>1. Len(data) \in Nat /\ Len(data) > 0
      BY ONLY <1>8, <1>15, <1>20, <1>21, body0.room > 0
    <3> QED
      BY ONLY <1>10, <1>15, <3>1, EmptySeq
  <2>2. recv_que_' = Append(recv_que_, [pid |-> head[3], body |-> data])
        /\ recv_packet_' = NULL /\ recv_buf_' = NULL
    BY <1>8, <1>15 DEF recvPacket
  <2> QED
    BY <1>7, <1>12, <1>13, <1>14, <2>1, <2>2 DEF RecvCells
<1>16. CASE body.room > 0 /\ recv_packet_' = "open" /\ recv_buf_' = body /\ UNCHANGED recv_que_
  <2>1. recv_packet_' # NULL /\ recv_buf_' # NULL
    BY <1>9, <1>16, NullAssumption, BufferIsNotNull
  <2>2. Partial(base)'
    BY <1>8, <1>10, <1>12, <1>13, <1>14, <1>16, <2>1 DEF Partial, HeaderSize
  <2> QED
    BY <1>16, <2>2 DEF RecvCells
<1> QED
    BY <1>1, <1>15, <1>16



\* Where the cells of a header are when l of them had come before, the packet behind b.
HeadAligned(c, b, l, n) ==
    /\ c + n = b + (l + n)
    /\ \A j \in 1 .. l : b + j \in 1 .. c
    /\ \A j \in 1 .. l + n : j \notin 1 .. l => \E i \in 1 .. n : j = l + i /\ b + j = c + i

LEMMA HeadOffsets == \A c, b, l, n \in Nat : c = b + l => HeadAligned(c, b, l, n)
<1> SUFFICES ASSUME NEW c \in Nat, NEW b \in Nat, NEW l \in Nat, NEW n \in Nat, c = b + l
             PROVE  HeadAligned(c, b, l, n)
    OBVIOUS
<1>1. ASSUME NEW j \in 1 .. l + n, j \notin 1 .. l
      PROVE  j - l \in 1 .. n /\ j = l + (j - l) /\ b + j = c + (j - l)
    BY <1>1
<1> QED
    BY <1>1 DEF HeadAligned

LEMMA HeaderBefore == \A b, l \in Nat : \A j \in 1 .. 3 : b + j \in 1 .. b + 3 + l
  OBVIOUS

LEMMA DoRecvCells ==
    ASSUME TypeOK, NEW base \in Nat, Partial(base), doRecv
    PROVE  RecvCells(base)
<1> DEFINE bytes == recv_bufs_.data
           head0 == IF recv_packet_ = NULL THEN <<>> ELSE recv_head_buf_
           nhead == min(HeaderSize - Len(head0), Len(bytes))
           more  == SubSeq(bytes, 1, nhead)
           head  == head0 \o more
<1>1. rpc = "doRecv" /\ recvHead(head, nhead)
    BY DEF doRecv
<1>2. /\ bytes \in Seq(Nat) /\ head0 \in Seq(Nat) /\ Len(head0) <= 3
      /\ Len(bytes) \in Nat /\ Len(head0) \in Nat /\ Len(consumed) \in Nat
  <2>1. bytes \in Seq(Nat) /\ head0 \in Seq(Nat) /\ Len(head0) <= 3 /\ consumed \in Seq(Nat)
    BY <1>1, EmptySeq DEF TypeOK, Buffer, HeaderSize
  <2> HIDE DEF bytes, head0
  <2> QED
    BY <2>1, LenProperties
<1>3. /\ recv_buf_ = NULL =>
            /\ Len(head0) < 3 /\ Len(consumed) = base + Len(head0)
            /\ \A j \in 1 .. Len(head0) : head0[j] = consumed[base + j]
      /\ recv_buf_ # NULL =>
            /\ Len(head0) = 3 /\ head0[1] = 0 /\ recv_buf_ \in Buffer /\ recv_buf_.room > 0
            /\ head0[2] = Len(recv_buf_.data) + recv_buf_.room
            /\ Len(consumed) = base + 3 + Len(recv_buf_.data)
            /\ \A j \in 1 .. Len(head0) : head0[j] = consumed[base + j]
            /\ \A j \in 1 .. Len(recv_buf_.data) :
                  recv_buf_.data[j] = consumed[base + 3 + j]
  <2>1. CASE recv_packet_ = NULL
    <3>1. recv_buf_ = NULL /\ Len(consumed) = base
      BY <2>1 DEF Partial
    <3>2. head0 = <<>> /\ Len(head0) = 0
      BY <2>1
    <3> QED
      BY <1>2, <3>1, <3>2
  <2>2. CASE recv_packet_ # NULL
    <3>1. head0 = recv_head_buf_
      BY <2>2
    <3>2. recv_buf_ # NULL => recv_buf_ \in Buffer
      BY DEF TypeOK
    <3> QED
      BY <2>2, <3>1, <3>2 DEF Partial, HeaderSize
  <2> QED
    BY <2>1, <2>2
<1> HIDE DEF head0
<1>4. nhead \in 0 .. Len(bytes) /\ nhead \in Nat /\ Len(head0) + nhead <= 3
  <2>1. 3 - Len(head0) \in Nat
    BY <1>2
  <2>2. nhead \in 0 .. Len(bytes) /\ nhead <= 3 - Len(head0)
    BY <1>2, <2>1, MinBound DEF HeaderSize
  <2> HIDE DEF nhead
  <2> QED
    BY ONLY <1>2, <2>2
<1> HIDE DEF nhead
<1>5. more \in Seq(Nat) /\ Len(more) = nhead /\ \A i \in 1 .. nhead : more[i] = bytes[i]
    BY <1>2, <1>4, FirstCells
<1> HIDE DEF more
<1>6. /\ head \in Seq(Nat) /\ Len(head) = Len(head0) + nhead
      /\ \A j \in 1 .. Len(head0) : head[j] = head0[j]
      /\ \A i \in 1 .. nhead : head[Len(head0) + i] = more[i]
    BY ONLY <1>2, <1>5, ConcatAt
<1>7. /\ Len(Taken(nhead)) = Len(consumed) + nhead
      /\ \A k \in 1 .. Len(consumed) : Taken(nhead)[k] = consumed[k]
      /\ \A i \in 1 .. nhead : Taken(nhead)[Len(consumed) + i] = bytes[i]
    BY <1>1, <1>4, TakenCells
<1> HIDE DEF head, bytes
<1>8. recv_buf_ = NULL => HeadAligned(Len(consumed), base, Len(head0), nhead)
    BY ONLY <1>2, <1>3, <1>4, base \in Nat, HeadOffsets, Zenon
<1>9. recv_buf_ # NULL => /\ nhead = 0 /\ Len(head) = 3
                          /\ head[1] = 0 /\ head[2] = Len(recv_buf_.data) + recv_buf_.room
  <2> SUFFICES ASSUME recv_buf_ # NULL
               PROVE  /\ nhead = 0 /\ Len(head) = 3
                      /\ head[1] = 0 /\ head[2] = Len(recv_buf_.data) + recv_buf_.room
      OBVIOUS
  <2>1. Len(head0) = 3 /\ head0[1] = 0 /\ head0[2] = Len(recv_buf_.data) + recv_buf_.room
    BY <1>3
  <2>2. nhead = 0 /\ Len(head) = 3 /\ 1 \in 1 .. Len(head0) /\ 2 \in 1 .. Len(head0)
    BY ONLY <1>4, <1>6, <2>1
  <2> QED
    BY ONLY <1>6, <2>1, <2>2
<1>10. \A j \in 1 .. Len(head) : head[j] = Taken(nhead)[base + j]
  <2> SUFFICES ASSUME NEW j \in 1 .. Len(head) PROVE head[j] = Taken(nhead)[base + j]
      OBVIOUS
  <2>1. CASE recv_buf_ = NULL
    <3>1. CASE j \in 1 .. Len(head0)
      <4>1. base + j \in 1 .. Len(consumed)
        BY <1>8, <2>1, <3>1, Zenon DEF HeadAligned
      <4> QED
        BY <1>3, <1>6, <1>7, <2>1, <3>1, <4>1, Zenon
    <3>2. CASE j \notin 1 .. Len(head0)
      <4>1. j \in 1 .. Len(head0) + nhead
        BY <1>6
      <4>2. PICK i \in 1 .. nhead : j = Len(head0) + i /\ base + j = Len(consumed) + i
        BY <1>8, <2>1, <3>2, <4>1, Zenon DEF HeadAligned
      <4>3. /\ head[Len(head0) + i] = more[i] /\ more[i] = bytes[i]
            /\ Taken(nhead)[Len(consumed) + i] = bytes[i]
        BY <1>5, <1>6, <1>7, Zenon
      <4> QED
        BY ONLY <4>2, <4>3, Zenon
    <3> QED
      BY <3>1, <3>2
  <2>2. CASE recv_buf_ # NULL
    <3>0. Len(recv_buf_.data) \in Nat
      BY <1>3, <2>2 DEF Buffer
    <3>1. j \in 1 .. Len(head0) /\ base + j \in 1 .. Len(consumed)
      <4>1. Len(consumed) = base + 3 + Len(recv_buf_.data) /\ Len(head0) = 3 /\ Len(head) = 3
        BY <1>3, <1>9, <2>2
      <4>2. j \in 1 .. 3
        BY <4>1
      <4>3. base + j \in 1 .. base + 3 + Len(recv_buf_.data)
        BY <3>0, <4>2, HeaderBefore, Zenon
      <4> QED
        BY ONLY <4>1, <4>2, <4>3, Zenon
    <3> QED
      BY <1>3, <1>6, <1>7, <2>2, <3>1, Zenon
  <2> QED
    BY <2>1, <2>2
<1>11. recv_buf_ = NULL => Len(Taken(nhead)) = base + Len(head)
    BY <1>6, <1>7, <1>8, Zenon DEF HeadAligned
<1>12. recv_head_buf_' = head
    BY <1>1 DEF recvHead
<1>13. CASE /\ Len(head) < 3 /\ takes(nhead) /\ recv_packet_' = "open"
            /\ UNCHANGED <<recv_buf_, recv_que_>>
  <2>0. Len(head) # 3
    <3>1. Len(head) < 3
      BY <1>13
    <3>2. Len(head) \in Nat
      BY ONLY <1>6, LenProperties
    <3> QED
      BY ONLY <3>1, <3>2
  <2>1. recv_buf_ = NULL
    BY ONLY <1>9, <2>0, Zenon
  <2>2. consumed' = Taken(nhead) /\ recv_packet_' # NULL /\ recv_buf_' = NULL
    BY <1>13, <2>1, NullAssumption DEF takes, Taken, bytes
  <2>3. Partial(base)'
    BY <1>10, <1>11, <1>12, <1>13, <2>1, <2>2 DEF Partial, HeaderSize
  <2> QED
    BY <1>13, <2>3 DEF RecvCells
<1>14. CASE recvFails /\ UNCHANGED recv_que_
    BY <1>14 DEF recvFails, RecvCells
<1>15. CASE /\ Len(head) = 3 /\ recv_buf_ = NULL /\ head[1] = 0 /\ head[2] = 0
            /\ takes(nhead) /\ recvPacket([pid |-> head[3], body |-> NULL])
  <2>1. consumed' = Taken(nhead) /\ Len(consumed') = base + 3
    BY <1>11, <1>15 DEF takes, Taken, bytes
  <2>2. /\ recv_que_' = Append(recv_que_, [pid |-> head[3], body |-> NULL])
        /\ recv_packet_' = NULL /\ recv_buf_' = NULL
    BY <1>15 DEF recvPacket
  <2>3. \A j \in 1 .. 3 : head[j] = consumed'[base + j]
    BY <1>10, <1>15, <2>1
  <2> DEFINE data == <<>>
  <2>4. data \in Seq(Nat) /\ Len(data) = 0 /\ \A j \in 1 .. Len(data) : FALSE
    OBVIOUS
  <2>5. Len(consumed') = base + 3 + Len(data)
    BY <2>1, <2>4
  <2>6. recv_que_' = Append(recv_que_, [pid |-> head[3],
                                        body |-> IF data = <<>> THEN NULL ELSE data])
    BY <2>2
  <2> HIDE DEF data
  <2> QED
    BY <1>6, <1>15, <2>2, <2>3, <2>4, <2>5, <2>6 DEF RecvCells
<1>16. CASE /\ Len(head) = 3 /\ recv_buf_ = NULL /\ head[1] = 0 /\ head[2] > 0
            /\ recvBody(head, nhead, EmptyBuffer(head[2]))
  <2> DEFINE body0 == EmptyBuffer(head[2])
  <2>1. /\ body0 \in Buffer /\ Len(body0.data) = 0 /\ body0.data = <<>> /\ body0.room = head[2]
        /\ head[2] \in Nat
    <3>1. 2 \in 1 .. Len(head)
      BY <1>16
    <3>2. head[2] \in Nat
      BY ONLY <1>6, <3>1
    <3> QED
      BY <3>2, EmptySeq DEF EmptyBuffer, Buffer
  <2> HIDE DEF body0
  <2>2. body0.room > 0 /\ head[2] = Len(body0.data) + body0.room
    BY <1>16, <2>1
  <2>3. Len(consumed) + nhead = base + 3 + Len(body0.data)
    BY <1>7, <1>11, <1>16, <2>1
  <2>4. \A j \in 1 .. 3 : head[j] = Taken(nhead)[base + j]
    BY <1>10, <1>16
  <2>5. \A j \in 1 .. Len(body0.data) : body0.data[j] = Taken(nhead)[base + 3 + j]
    BY <2>1
  <2>6. recvBody(head, nhead, body0)
    BY <1>16 DEF body0
  <2> QED
    BY <1>1, <1>4, <1>6, <1>12, <1>16, <2>1, <2>2, <2>3, <2>4, <2>5, <2>6, RecvBodyCells DEF bytes
<1>17. CASE Len(head) = 3 /\ recv_buf_ # NULL /\ recvBody(head, nhead, recv_buf_)
  <2>1. recv_buf_ \in Buffer /\ recv_buf_.room > 0 /\ Len(recv_buf_.data) \in Nat
    BY <1>3, <1>17 DEF Buffer
  <2>2. head[1] = 0 /\ head[2] = Len(recv_buf_.data) + recv_buf_.room
    BY <1>9, <1>17
  <2>3. Len(consumed) + nhead = base + 3 + Len(recv_buf_.data)
    <3>1. nhead = 0 /\ Len(consumed) = base + 3 + Len(recv_buf_.data)
      BY <1>3, <1>9, <1>17
    <3> QED
      BY ONLY <1>2, <3>1
  <2>4. \A j \in 1 .. 3 : head[j] = Taken(nhead)[base + j]
    BY <1>10, <1>17
  <2>5. \A j \in 1 .. Len(recv_buf_.data) :
           recv_buf_.data[j] = Taken(nhead)[base + 3 + j]
    <3> SUFFICES ASSUME NEW j \in 1 .. Len(recv_buf_.data)
                 PROVE  recv_buf_.data[j] = Taken(nhead)[base + 3 + j]
        OBVIOUS
    <3>1. Len(consumed) = base + 3 + Len(recv_buf_.data)
      BY <1>3, <1>17
    <3>2. base + 3 + j \in 1 .. Len(consumed)
      BY ONLY <2>1, <3>1, base \in Nat, j \in 1 .. Len(recv_buf_.data)
    <3> QED
      BY <1>3, <1>7, <1>17, <3>2
  <2> QED
    BY <1>1, <1>4, <1>6, <1>12, <1>17, <2>1, <2>2, <2>3, <2>4, <2>5, RecvBodyCells DEF bytes
<1> QED
    BY <1>1, <1>13, <1>14, <1>15, <1>16, <1>17, Zenon DEF recvHead, HeaderSize


LEMMA BodyBehind == \A b, l \in Nat : \A j \in 1 .. l : b + 3 + j \in 1 .. b + 3 + l
  OBVIOUS

LEMMA OneMore == \A n \in Nat : \A i \in 1 .. n + 1 : i \notin 1 .. n => i = n + 1
  OBVIOUS

\* What was taken out is the beginning of the stream the packets stand in.
LEMMA ConsumedInStream ==
    TypeOK /\ StreamInv =>
        /\ Len(consumed) \in Nat /\ Len(Stream) \in Nat /\ Len(consumed) <= Len(Stream)
        /\ \A k \in 1 .. Len(consumed) : consumed[k] = Stream[k]
<1> SUFFICES ASSUME TypeOK, StreamInv
             PROVE  /\ Len(consumed) \in Nat /\ Len(Stream) \in Nat
                    /\ Len(consumed) <= Len(Stream)
                    /\ \A k \in 1 .. Len(consumed) : consumed[k] = Stream[k]
    OBVIOUS
<1>1. PICK rest \in Seq(Nat) : copied = consumed \o rest
    BY DEF StreamInv
<1>2. /\ consumed \in Seq(Nat) /\ Len(consumed) \in Nat /\ Len(rest) \in Nat
      /\ Len(copied) \in Nat
  <2>1. consumed \in Seq(Nat) /\ copied \in Seq(Nat)
    BY DEF TypeOK
  <2> QED
    BY <2>1, LenProperties
<1>3. /\ Len(consumed \o rest) = Len(consumed) + Len(rest)
      /\ \A k \in 1 .. Len(consumed) : (consumed \o rest)[k] = consumed[k]
    BY <1>2, ConcatAt
<1>4. /\ Len(copied) = Len(consumed) + Len(rest)
      /\ \A k \in 1 .. Len(consumed) : copied[k] = consumed[k]
    BY ONLY <1>1, <1>3, Zenon
<1>5. /\ Len(Stream) \in Nat /\ Len(copied) <= Len(Stream)
      /\ \A k \in 1 .. Len(copied) : Stream[k] = copied[k]
    BY StreamTypes
<1>6. Len(consumed) <= Len(Stream) /\ \A k \in 1 .. Len(consumed) : k \in 1 .. Len(copied)
    BY ONLY <1>2, <1>4, <1>5
<1> QED
    BY ONLY <1>2, <1>4, <1>5, <1>6, Zenon

\* Three cells and as many as the second of them says, where a packet begins, are it.
LEMMA PacketDone ==
    ASSUME TypeOK, NEW at \in [Nat -> Nat], Framed(at), NEW m \in 0 .. Begun,
           NEW head \in Seq(Nat), Len(head) = 3, head[1] = 0,
           NEW data \in Seq(Nat), head[2] = Len(data),
           at[m] + 3 + Len(data) <= Len(Stream),
           \A j \in 1 .. 3 : head[j] = Stream[at[m] + j],
           \A j \in 1 .. Len(data) : data[j] = Stream[at[m] + 3 + j]
    PROVE  /\ m + 1 \in 1 .. Begun /\ m + 1 \in 1 .. Len(sent) /\ packet_seed_ = 0
           /\ at[m + 1] = at[m] + 3 + Len(data)
           /\ [pid |-> head[3], body |-> IF data = <<>> THEN NULL ELSE data]
                  = Received(sent[m + 1])
<1> DEFINE p == sent[m + 1]
<1>1. /\ Begun \in Nat /\ m \in Nat /\ at[m] \in Nat /\ Len(data) \in Nat
      /\ at[Begun] = Len(Stream)
  <2>1. Begun \in Nat /\ at[Begun] = Len(Stream)
    BY DEF Framed
  <2>2. m \in Nat
    BY <2>1
  <2> QED
    BY <2>1, <2>2, LenProperties
<1>2. m # Begun
  <2>1. at[m] + 3 + Len(data) <= at[Begun]
    BY <1>1
  <2>3. ~ (at[m] + 3 + Len(data) <= at[m])
    BY ONLY <1>1
  <2>4. ASSUME m = Begun PROVE FALSE
    <3>1. at[m] = at[Begun]
      BY <2>4
    <3> QED
      BY ONLY <2>1, <2>3, <3>1, Zenon
  <2> QED
    BY ONLY <2>4, Zenon
<1>3. m + 1 \in 1 .. Begun
    BY ONLY <1>1, <1>2, m \in 0 .. Begun
<1>4. at[m + 1] = at[m] + Size(p) /\ Holds(Stream, at[m], p)
  <2>1. \A i \in 1 .. Begun : at[i] = at[i - 1] + Size(sent[i]) /\ Holds(Stream, at[i - 1], sent[i])
    BY DEF Framed
  <2>2. (m + 1) - 1 = m
    BY <1>1
  <2> QED
    BY <1>3, <2>1, <2>2
<1>5. m + 1 \in 1 .. Len(sent) /\ p \in Packet
  <2>1. sent \in Seq(Packet) /\ send_que_ \in Seq(Packet)
    BY DEF TypeOK
  <2>2. Len(sent) \in Nat /\ Len(send_que_) \in Nat
    BY <2>1, LenProperties
  <2>3. Begun = Len(sent) - Len(send_que_)
    BY DEF Begun
  <2>4. m + 1 \in 1 .. Len(sent)
    BY ONLY <1>1, <1>3, <2>2, <2>3
  <2>5. sent[m + 1] \in Packet
    BY <2>1, <2>4, ElementOfSeq
  <2> QED
    BY <2>4, <2>5
<1> HIDE DEF p
<1>6. /\ Body(p) \in Seq(Nat) /\ Len(Body(p)) \in Nat /\ Size(p) = 3 + Len(Body(p))
    BY <1>5, PacketTypes
<1>7. /\ Stream[at[m] + 1] = packet_seed_ /\ Stream[at[m] + 2] = Len(Body(p))
      /\ Stream[at[m] + 3] = p.pid
      /\ \A k \in 1 .. Len(Body(p)) : Stream[at[m] + 3 + k] = Body(p)[k]
    BY <1>4 DEF Holds, HeaderSize
<1>8. head[1] = Stream[at[m] + 1] /\ head[2] = Stream[at[m] + 2] /\ head[3] = Stream[at[m] + 3]
  <2>1. 1 \in 1 .. 3 /\ 2 \in 1 .. 3 /\ 3 \in 1 .. 3
    OBVIOUS
  <2> QED
    BY <2>1, Zenon
<1>9. Len(data) = Len(Body(p)) /\ packet_seed_ = 0 /\ head[3] = p.pid
    BY <1>7, <1>8
<1>10. data = Body(p)
  <2>1. \A k \in 1 .. Len(data) : data[k] = Body(p)[k]
    BY <1>7, <1>9
  <2> QED
    BY <1>6, <1>9, <2>1, SeqEqual
<1>11. [pid |-> head[3], body |-> IF data = <<>> THEN NULL ELSE data] = Received(p)
  <2>1. data # <<>> => p.body = data
    BY <1>10 DEF Body
  <2> QED
    BY <1>9, <1>10, <2>1 DEF Received
<1>12. at[m + 1] = at[m] + 3 + Len(data)
  <2>1. at[m + 1] = at[m] + (3 + Len(data))
    BY ONLY <1>4, <1>6, <1>9, Zenon
  <2>2. at[m] + (3 + Len(data)) = at[m] + 3 + Len(data)
    BY ONLY <1>1
  <2> QED
    BY ONLY <2>1, <2>2, Zenon
<1> QED
    BY <1>3, <1>5, <1>9, <1>11, <1>12 DEF p

\* doRecv: what it completes is the next packet.
LEMMA OrderDoRecv ==
    ASSUME TypeOK, StreamInv, OrderInv, doRecv, TypeOK', StreamInv' PROVE OrderInv'
<1>1. /\ UNCHANGED <<sent, send_que_, send_packet_, send_head_buf_, send_buf_, copied,
                     packet_seed_>>
      /\ rpc = "doRecv"
    BY DEF doRecv, sender
<1>2. PICK at \in [Nat -> Nat] : Framed(at) /\ Unframed(at)
    BY DEF OrderInv
<1>3. Stream' = Stream /\ Begun' = Begun
    BY <1>1 DEF Stream, Begun
<1>4. Queued'
    BY <1>1, <1>3 DEF Queued, OrderInv
<1>5. Framed(at)'
    BY <1>1, <1>2, <1>3 DEF Framed, Holds
<1>q. PICK q \in Nat : q = Len(recv_que_)
    BY LenProperties DEF TypeOK
<1>6. /\ recv_que_ \in Seq(Packet) /\ q \in Nat /\ at[q] \in Nat /\ Begun \in Nat
      /\ q \in 0 .. Begun
  <2>1. recv_que_ \in Seq(Packet) /\ q \in Nat
    BY DEF TypeOK
  <2>2. Begun \in Nat /\ q <= Begun
    BY <1>q, <1>2 DEF Framed, Unframed
  <2>3. q \in 0 .. Begun
    BY ONLY <2>1, <2>2
  <2> QED
    BY <2>1, <2>2, <2>3
<1>7. Partial(at[q]) /\ RecvCells(at[q])
  <2>1. Partial(at[q])
    BY <1>q, <1>1, <1>2 DEF Unframed
  <2> QED
    BY <1>6, <2>1, DoRecvCells
<1>8. CASE UNCHANGED recv_que_ /\ (rpc' # "closed" => Partial(at[q])')
  <2>1. Unframed(at)'
    <3>1. Len(recv_que_') = q
      BY <1>q, <1>8
    <3>2. rpc' # "closed" => Partial(at[Len(recv_que_)])'
      BY <1>8, <3>1
    <3> QED
      BY <1>1, <1>2, <1>3, <1>8, <3>2 DEF Unframed
  <2> QED
    BY <1>4, <1>5, <2>1 DEF OrderInv
<1>9. ASSUME NEW head \in Seq(Nat), NEW data \in Seq(Nat),
             Len(head) = 3, head[1] = 0, head[2] = Len(data),
             Len(consumed') = at[q] + 3 + Len(data),
             \A j \in 1 .. 3 : head[j] = consumed'[at[q] + j],
             \A j \in 1 .. Len(data) : data[j] = consumed'[at[q] + 3 + j],
             recv_que_' = Append(recv_que_, [pid |-> head[3],
                                             body |-> IF data = <<>> THEN NULL ELSE data]),
             recv_packet_' = NULL, recv_buf_' = NULL
      PROVE  Unframed(at)'
  <2> DEFINE pack == [pid |-> head[3], body |-> IF data = <<>> THEN NULL ELSE data]
  <2>1. /\ Len(consumed') <= Len(Stream) /\ \A k \in 1 .. Len(consumed') : consumed'[k] = Stream[k]
    <3>1. (TypeOK /\ StreamInv)' =>
             (Len(consumed) <= Len(Stream) /\ \A k \in 1 .. Len(consumed) : consumed[k] = Stream[k])'
      BY ConsumedInStream, PTL
    <3> QED
      BY <1>3, <3>1
  <2>2. Len(data) \in Nat
    BY LenProperties
  <2>3. at[q] + 3 + Len(data) <= Len(Stream)
    BY <1>9, <2>1
  <2>4. /\ \A j \in 1 .. 3 : at[q] + j \in 1 .. Len(consumed')
        /\ \A j \in 1 .. Len(data) : at[q] + 3 + j \in 1 .. Len(consumed')
    <3>1. /\ \A j \in 1 .. 3 : at[q] + j \in 1 .. at[q] + 3 + Len(data)
          /\ \A j \in 1 .. Len(data) : at[q] + 3 + j \in 1 .. at[q] + 3 + Len(data)
      BY <1>6, <2>2, HeaderBefore, BodyBehind, Zenon
    <3> QED
      BY <1>9, <3>1, Zenon
  <2>5. /\ \A j \in 1 .. 3 : head[j] = Stream[at[q] + j]
        /\ \A j \in 1 .. Len(data) : data[j] = Stream[at[q] + 3 + j]
    BY <1>9, <2>1, <2>4, Zenon
  <2>6. /\ q + 1 \in 1 .. Begun /\ packet_seed_ = 0
        /\ at[q + 1] = at[q] + 3 + Len(data) /\ pack = Received(sent[q + 1])
    BY <1>2, <1>6, <1>9, <2>3, <2>5, PacketDone
  <2>7. pack \in Packet
    <3>1. 3 \in 1 .. Len(head)
      BY <1>9
    <3>2. head[3] \in Nat
      BY <3>1, ElementOfSeq
    <3> QED
      BY <3>2 DEF Packet
  <2>8. recv_que_' = Append(recv_que_, pack)
    BY <1>9
  <2> HIDE DEF pack
  <2>9. /\ Len(recv_que_') = q + 1 /\ recv_que_'[q + 1] = pack
        /\ \A i \in 1 .. q : recv_que_'[i] = recv_que_[i]
    BY <1>q, <1>6, <2>7, <2>8, AppendProperties
  <2>10. ASSUME NEW i \in 1 .. Len(recv_que_') PROVE recv_que_'[i] = Received(sent[i])
    <3>1. CASE i \in 1 .. q
      BY <1>q, <1>2, <2>9, <3>1 DEF Unframed
    <3>2. CASE i \notin 1 .. q
      <4>1. i = q + 1
        BY <1>q, <2>9, <3>2, OneMore
      <4> QED
        BY <2>6, <2>9, <4>1
    <3> QED
      BY <3>1, <3>2
  <2>11. Partial(at[q + 1])'
    BY <1>9, <2>6 DEF Partial
  <2>12. Len(recv_que_') <= Begun'
    BY <1>3, <2>6, <2>9
  <2>13. Partial(at[Len(recv_que_)])'
    BY <2>9, <2>11
  <2> QED
    BY <1>1, <2>6, <2>10, <2>12, <2>13 DEF Unframed
<1>10. CASE Unframed(at)'
    BY <1>4, <1>5, <1>10 DEF OrderInv
<1> QED
    BY <1>7, <1>8, <1>9, <1>10 DEF RecvCells


\* What is left of the receiver's steps changes no cell and no packet.
OrderVars == <<sent, send_que_, send_packet_, send_head_buf_, send_buf_, copied, packet_seed_,
               recv_que_, recv_packet_, recv_head_buf_, recv_buf_, consumed>>

LEMMA OrderKept ==
    ASSUME OrderInv, UNCHANGED OrderVars, rpc = "closed" => rpc' = "closed"
    PROVE  OrderInv'
<1>1. /\ UNCHANGED <<sent, send_que_, send_packet_, send_head_buf_, send_buf_, copied,
                     packet_seed_>>
      /\ UNCHANGED <<recv_que_, recv_packet_, recv_head_buf_, recv_buf_, consumed>>
    BY DEF OrderVars
<1>2. PICK at \in [Nat -> Nat] : Framed(at) /\ Unframed(at)
    BY DEF OrderInv
<1>3. Stream' = Stream /\ Begun' = Begun
    BY <1>1 DEF Stream, Begun
<1>4. Queued'
    BY <1>1, <1>3 DEF Queued, OrderInv
<1>5. Framed(at)'
    BY <1>1, <1>2, <1>3 DEF Framed, Holds
<1>6. rpc' # "closed" => Partial(at[Len(recv_que_)])'
  <2> SUFFICES ASSUME rpc' # "closed" PROVE Partial(at[Len(recv_que_)])'
      OBVIOUS
  <2>1. Partial(at[Len(recv_que_)])
    BY <1>2 DEF Unframed
  <2> QED
    BY <1>1, <2>1 DEF Partial
<1>7. Unframed(at)'
    BY <1>1, <1>2, <1>3, <1>6 DEF Unframed
<1> QED
    BY <1>4, <1>5, <1>7 DEF OrderInv

LEMMA OrderInit == Init => OrderInv
<1> SUFFICES ASSUME Init PROVE OrderInv
    OBVIOUS
<1> DEFINE at == [i \in Nat |-> 0]
<1>1. /\ sent = <<>> /\ send_que_ = <<>> /\ send_head_buf_ = <<>> /\ send_buf_ = <<>>
      /\ copied = <<>> /\ consumed = <<>> /\ recv_que_ = <<>> /\ send_packet_ = NULL
      /\ recv_packet_ = NULL /\ recv_buf_ = NULL
    BY DEF Init
<1>2. <<>> \in Seq(Nat) /\ Len(<<>>) = 0 /\ <<>> \o <<>> = <<>>
    BY EmptySeq, ConcatEmptySeq
<1>3. Begun = 0 /\ Stream = <<>>
    BY <1>1, <1>2 DEF Begun, Stream
<1>4. Queued
    BY <1>1, <1>2 DEF Queued
<1>5. at \in [Nat -> Nat] /\ at[0] = 0
    OBVIOUS
<1> HIDE DEF at
<1>6. Framed(at)
    BY <1>2, <1>3, <1>5 DEF Framed
<1>7. Unframed(at)
    BY <1>1, <1>2, <1>3, <1>5 DEF Unframed, Partial
<1> QED
    BY <1>4, <1>5, <1>6, <1>7 DEF OrderInv

LEMMA OrderStep ==
    ASSUME BodiesFit, TypeOK, StreamInv, OrderInv, [Next]_vars, TypeOK', StreamInv'
    PROVE  OrderInv'
<1>1. packet_seed_ \in Nat
    BY SocketAssumption DEF TypeOK
<1>2. CASE \E size \in Bodies : sendPacket(size)
    BY <1>2, OrderSendPacket
<1>3. CASE doSend
    BY <1>1, <1>3, OrderDoSend
<1>4. CASE doRecv
    BY <1>4, OrderDoRecv
<1>5. CASE \/ handlePollOut \/ sendBuffer \/ close \/ deliver \/ reset \/ flushRecv
           \/ recvBuffer \/ UNCHANGED vars
  <2>1. UNCHANGED OrderVars /\ (rpc = "closed" => rpc' = "closed")
    <3>1. CASE handlePollOut
      BY <3>1 DEF handlePollOut, receiver, OrderVars
    <3>2. CASE sendBuffer
      BY <3>2 DEF sendBuffer, receiver, OrderVars
    <3>3. CASE close \/ deliver \/ reset
      BY <3>3 DEF close, deliver, reset, sender, receiver, OrderVars
    <3>4. CASE flushRecv \/ recvBuffer
      BY <3>4 DEF flushRecv, recvBuffer, sender, OrderVars
    <3>5. CASE UNCHANGED vars
      BY <3>5 DEF vars, OrderVars
    <3> QED
      BY <1>5, <3>1, <3>2, <3>3, <3>4, <3>5
  <2> QED
    BY <2>1, OrderKept
<1> QED
    BY <1>2, <1>3, <1>4, <1>5 DEF Next, SenderNext, ReceiverNext

LEMMA OrderImplies == TypeOK /\ OrderInv => PacketsInOrder
<1> SUFFICES ASSUME TypeOK, OrderInv PROVE PacketsInOrder
    OBVIOUS
<1>1. PICK at \in [Nat -> Nat] : Framed(at) /\ Unframed(at)
    BY DEF OrderInv
<1>2. Len(sent) \in Nat /\ Len(send_que_) \in Nat /\ Len(recv_que_) \in Nat
    BY LenProperties DEF TypeOK
<1>3. Len(recv_que_) <= Begun /\ Begun = Len(sent) - Len(send_que_)
    BY <1>1 DEF Unframed, Begun
<1>4. Len(recv_que_) <= Len(sent)
    BY ONLY <1>2, <1>3
<1> QED
    BY <1>1, <1>4 DEF Unframed, PacketsInOrder

\* However the stream is cut into ::send and ::recv, the packets doRecv completes are,
\* one for one and in order, those given to sendPacket.  The hypothesis is Packet.h's
\* PACKET_MAX_SIZE: a longer body does not fit Packet::init's 16 bit length, which
\* then announces less than sendBuffer sends.
THEOREM SocketInOrder == ASSUME BodiesFit PROVE Spec => []PacketsInOrder
<1>1. Init => TypeOK /\ StreamInv /\ OrderInv
    BY TypesInit, StreamInit, OrderInit
<1>2. (TypeOK /\ StreamInv /\ OrderInv) /\ [Next]_vars => (TypeOK /\ StreamInv /\ OrderInv)'
  <2> SUFFICES ASSUME TypeOK, StreamInv, OrderInv, [Next]_vars
               PROVE  TypeOK' /\ StreamInv' /\ OrderInv'
      OBVIOUS
  <2>1. TypeOK' /\ StreamInv'
    BY TypesStep, StreamStep
  <2> QED
    BY <2>1, OrderStep
<1>3. TypeOK /\ StreamInv /\ OrderInv => PacketsInOrder
    BY OrderImplies
<1> QED
    BY <1>1, <1>2, <1>3, PTL DEF Spec


---------------------------------------------------------------------------------
(* The receiver sleeps with nothing left to do.                              *)

\* What has come of a packet: no body without its header, no header complete without one.
Parts ==
    /\ recv_packet_ = NULL => recv_buf_ = NULL
    /\ recv_packet_ # NULL /\ recv_buf_ = NULL => Len(recv_head_buf_) < HeaderSize
    /\ recv_buf_ # NULL => Len(recv_head_buf_) = HeaderSize /\ recv_buf_.room > 0

\* SleepsDrained is not inductive: that the last ::recv emptied the kernel must be known
\* while doRecv still works, and that a doRecv without a packet leaves no cell.
DrainInv ==
    /\ SleepsDrained
    /\ rpc = "doRecv" /\ ~ need_recv => rcvbuf = <<>> \/ pollin
    /\ rpc # "closed" => Parts

LEMMA DropAll == \A s \in Seq(Nat) : \A n \in Nat : n = Len(s) => Drop(s, n) = <<>>
<1> SUFFICES ASSUME NEW s \in Seq(Nat), NEW n \in Nat, n = Len(s) PROVE Drop(s, n) = <<>>
    OBVIOUS
<1>1. n \in 0 .. Len(s)
    OBVIOUS
<1>2. Drop(s, n) \in Seq(Nat) /\ Len(Drop(s, n)) = Len(s) - n
    BY <1>1, TakeDrop
<1>3. Len(Drop(s, n)) = 0
    BY <1>2
<1> QED
    BY <1>2, <1>3, EmptySeq

\* A doRecv goes on, asks for more, gives up, or has taken every cell.
DoRecvEnds ==
    \/ rpc' = "closed"
    \/ Parts' /\ UNCHANGED <<need_recv, rcvbuf>> /\ rpc' = "recvBuffer"
    \/ Parts' /\ UNCHANGED <<need_recv, rcvbuf>> /\ rpc' = "doRecv"
    \/ /\ Parts' /\ UNCHANGED <<need_recv, rcvbuf>> /\ rpc' = "epoll_wait" /\ ~ need_recv
       /\ Data(recv_bufs_)' = <<>>

LEMMA AfterDoRecvEnds ==
    ASSUME TypeOK, rpc = "doRecv", NEW n \in 0 .. Len(recv_bufs_.data), takes(n), Parts',
           NEW ret \in Nat, afterDoRecv(ret), ret = 0 => n = Len(recv_bufs_.data)
    PROVE  DoRecvEnds
<1>1. UNCHANGED <<need_recv, rcvbuf>> /\ need_recv \in BOOLEAN
    BY DEF afterDoRecv, TypeOK
<1>2. CASE need_recv
    BY <1>1, <1>2 DEF afterDoRecv, DoRecvEnds
<1>3. CASE ~ need_recv /\ ret > 0
    BY <1>1, <1>3 DEF afterDoRecv, DoRecvEnds
<1>4. CASE ~ need_recv /\ ~ (ret > 0)
  <2>1. ret = 0 /\ n = Len(recv_bufs_.data)
    BY <1>4
  <2>2. Data(recv_bufs_)' = Drop(Data(recv_bufs_), n)
    BY TakesEffect
  <2>3. Data(recv_bufs_) = recv_bufs_.data /\ Data(recv_bufs_) \in Seq(Nat) /\ n \in Nat
    BY DataTypes DEF Data, TypeOK
  <2>4. Data(recv_bufs_)' = <<>>
    BY <2>1, <2>2, <2>3, DropAll
  <2> QED
    BY <1>1, <1>4, <2>4 DEF afterDoRecv, DoRecvEnds
<1> QED
    BY <1>1, <1>2, <1>3, <1>4

LEMMA RecvBodyEnds ==
    ASSUME TypeOK, rpc = "doRecv",
           NEW head \in Seq(Nat), Len(head) = HeaderSize, recv_head_buf_' = head,
           NEW nhead \in 0 .. Len(recv_bufs_.data), NEW body0 \in Buffer, body0.room > 0,
           recvBody(head, nhead, body0)
    PROVE  DoRecvEnds
<1> DEFINE rest  == Drop(recv_bufs_.data, nhead)
           nbody == min(Len(rest), body0.room)
           body  == [data |-> body0.data \o SubSeq(rest, 1, nbody),
                     room |-> body0.room - nbody]
           n     == nhead + nbody
<1>1. /\ takes(n)
      /\ \/ /\ body.room = 0
            /\ recvPacket([pid |-> head[3], body |-> body.data])
            /\ afterDoRecv(n)
         \/ /\ body.room > 0
            /\ recv_packet_' = "open" /\ recv_buf_' = body
            /\ afterDoRecv(0)
    BY DEF recvBody, SOCKET_RP_BLOCK
<1>2. /\ recv_bufs_.data \in Seq(Nat) /\ Len(recv_bufs_.data) \in Nat /\ nhead \in Nat
      /\ body0.room \in Nat /\ body0.data \in Seq(Nat)
    BY TakenCells DEF Buffer
<1>3. rest \in Seq(Nat) /\ Len(rest) = Len(recv_bufs_.data) - nhead
    BY <1>2, TakeDrop, Zenon
<1>4. Len(rest) \in Nat
    BY ONLY <1>2, <1>3, nhead \in 0 .. Len(recv_bufs_.data)
<1>5. /\ nbody \in 0 .. Len(rest) /\ nbody \in Nat /\ nbody <= body0.room
      /\ (nbody = Len(rest) \/ nbody = body0.room)
    BY <1>2, <1>4, MinBound DEF min
<1>6. SubSeq(rest, 1, nbody) \in Seq(Nat)
    BY <1>3, <1>5, TakeDrop
<1> HIDE DEF rest, nbody
<1>7. n \in 0 .. Len(recv_bufs_.data) /\ n \in Nat
    BY ONLY <1>2, <1>3, <1>5, nhead \in 0 .. Len(recv_bufs_.data)
<1>8. /\ body0.room - nbody \in Nat /\ body.room = body0.room - nbody
    BY ONLY <1>2, <1>5
<1>9. body \in Buffer
    BY <1>2, <1>6, <1>8, ConcatSeq DEF Buffer
<1> HIDE DEF n, body
<1>10. CASE body.room = 0 /\ recvPacket([pid |-> head[3], body |-> body.data]) /\ afterDoRecv(n)
  <2>1. n # 0
    <3>1. nbody = body0.room /\ nbody > 0
      BY ONLY <1>2, <1>5, <1>8, <1>10, body0.room > 0
    <3> QED
      BY ONLY <1>2, <1>5, <3>1 DEF n
  <2>2. recv_packet_' = NULL /\ recv_buf_' = NULL
    BY <1>10 DEF recvPacket
  <2>3. Parts'
    BY <2>2 DEF Parts
  <2> QED
    BY <1>1, <1>7, <1>10, <2>1, <2>3, AfterDoRecvEnds
<1>11. CASE body.room > 0 /\ recv_packet_' = "open" /\ recv_buf_' = body /\ afterDoRecv(0)
  <2>1. nbody = Len(rest)
    BY ONLY <1>2, <1>5, <1>8, <1>11
  <2>2. n = Len(recv_bufs_.data)
    BY ONLY <1>2, <1>3, <2>1 DEF n
  <2>3. recv_packet_' # NULL /\ recv_buf_' # NULL
    BY <1>9, <1>11, NullAssumption, BufferIsNotNull
  <2>4. Parts'
    BY <1>11, <2>3 DEF Parts
  <2> QED
    BY <1>1, <1>7, <1>11, <2>2, <2>4, AfterDoRecvEnds
<1> QED
    BY <1>1, <1>10, <1>11

LEMMA DoRecvDrains ==
    ASSUME TypeOK, Parts, doRecv
    PROVE  DoRecvEnds
<1> DEFINE bytes == recv_bufs_.data
           head0 == IF recv_packet_ = NULL THEN <<>> ELSE recv_head_buf_
           nhead == min(HeaderSize - Len(head0), Len(bytes))
           head  == head0 \o SubSeq(bytes, 1, nhead)
<1>1. rpc = "doRecv" /\ recvHead(head, nhead)
    BY DEF doRecv
<1>2. /\ bytes \in Seq(Nat) /\ head0 \in Seq(Nat) /\ Len(head0) <= 3
      /\ Len(bytes) \in Nat /\ Len(head0) \in Nat
      /\ (recv_buf_ = NULL => Len(head0) < 3)
  <2>1. bytes \in Seq(Nat) /\ recv_head_buf_ \in Seq(Nat) /\ Len(recv_head_buf_) <= 3
    BY <1>1 DEF TypeOK, Buffer, HeaderSize
  <2>2. Len(bytes) \in Nat /\ Len(recv_head_buf_) \in Nat
    BY <2>1, LenProperties
  <2>3. CASE recv_packet_ = NULL
    BY <2>1, <2>2, <2>3, EmptySeq
  <2>4. CASE recv_packet_ # NULL
    BY <2>1, <2>2, <2>4 DEF Parts, HeaderSize
  <2> QED
    BY <2>3, <2>4
<1> HIDE DEF head0, bytes
<1>3. /\ nhead \in 0 .. Len(bytes) /\ nhead \in Nat
      /\ (nhead = 3 - Len(head0) \/ nhead = Len(bytes))
  <2>1. 3 - Len(head0) \in Nat
    BY <1>2
  <2> QED
    BY <1>2, <2>1, MinBound DEF HeaderSize, min
<1> HIDE DEF nhead
<1>4. head \in Seq(Nat) /\ Len(head) = Len(head0) + nhead
  <2>1. SubSeq(bytes, 1, nhead) \in Seq(Nat) /\ Len(SubSeq(bytes, 1, nhead)) = nhead
    BY <1>2, <1>3, TakeDrop
  <2> QED
    BY <1>2, <2>1, ConcatProperties
<1> HIDE DEF head
<1>5. recv_head_buf_' = head
    BY <1>1 DEF recvHead
<1>6. nhead \in 0 .. Len(recv_bufs_.data)
    BY <1>3 DEF bytes
<1>7. CASE /\ Len(head) < 3 /\ takes(nhead) /\ recv_packet_' = "open" /\ afterDoRecv(0)
           /\ UNCHANGED recv_buf_
  <2>1. nhead = Len(bytes)
    BY ONLY <1>2, <1>3, <1>4, <1>7
  <2>2. recv_buf_ = NULL
    <3>1. Len(head0) < 3
      BY ONLY <1>2, <1>3, <1>4, <1>7
    <3> QED
      BY <3>1 DEF Parts, head0, HeaderSize
  <2>3. Parts'
    BY <1>5, <1>7, <2>2, NullAssumption DEF Parts, HeaderSize
  <2>4. nhead = Len(recv_bufs_.data)
    BY <2>1 DEF bytes
  <2> QED
    BY <1>1, <1>6, <1>7, <2>3, <2>4, AfterDoRecvEnds
<1>8. CASE recvFails
    BY <1>8 DEF recvFails, DoRecvEnds
<1>9. CASE /\ Len(head) = 3 /\ recv_buf_ = NULL /\ takes(nhead)
           /\ recvPacket([pid |-> head[3], body |-> NULL]) /\ afterDoRecv(nhead)
  <2>1. nhead # 0
    <3>1. Len(head0) < 3 /\ Len(head0) + nhead = 3
      BY <1>2, <1>4, <1>9
    <3> QED
      BY ONLY <1>2, <1>3, <3>1
  <2>2. recv_packet_' = NULL /\ recv_buf_' = NULL
    BY <1>9 DEF recvPacket
  <2>3. Parts'
    BY <2>2 DEF Parts
  <2> QED
    BY <1>1, <1>3, <1>6, <1>9, <2>1, <2>3, AfterDoRecvEnds
<1>10. CASE /\ Len(head) = 3 /\ head[2] > 0 /\ recvBody(head, nhead, EmptyBuffer(head[2]))
  <2>1. 2 \in 1 .. Len(head)
    BY <1>10
  <2>2. head[2] \in Nat
    BY <1>4, <2>1, ElementOfSeq
  <2>3. EmptyBuffer(head[2]) \in Buffer /\ EmptyBuffer(head[2]).room > 0
    BY <1>10, <2>2, EmptySeq DEF EmptyBuffer, Buffer
  <2> QED
    BY <1>1, <1>4, <1>5, <1>6, <1>10, <2>3, RecvBodyEnds DEF HeaderSize
<1>11. CASE Len(head) = 3 /\ recv_buf_ # NULL /\ recvBody(head, nhead, recv_buf_)
  <2>1. recv_buf_ \in Buffer /\ recv_buf_.room > 0
    BY <1>11 DEF TypeOK, Parts
  <2> QED
    BY <1>1, <1>4, <1>5, <1>6, <1>11, <2>1, RecvBodyEnds DEF HeaderSize
<1> QED
    BY <1>1, <1>7, <1>8, <1>9, <1>10, <1>11, Zenon DEF recvHead, HeaderSize, SOCKET_RP_BLOCK

LEMMA DrainRecvBuffer ==
    ASSUME TypeOK, DrainInv, recvBuffer
    PROVE  DrainInv'
<1> DEFINE room == recv_bufs_.room
           len  == min(Len(rcvbuf), room)
<1>1. /\ rpc = "recvBuffer" /\ Parts
      /\ UNCHANGED <<pollin, recv_packet_, recv_head_buf_, recv_buf_>>
    BY DEF recvBuffer, DrainInv
<1>2. Parts'
    BY <1>1 DEF Parts
<1>3. /\ room \in Nat /\ Len(rcvbuf) \in Nat /\ rcvbuf \in Seq(Nat)
  <2>1. room \in Nat /\ rcvbuf \in Seq(Nat)
    BY <1>1 DEF TypeOK, Buffer
  <2> QED
    BY <2>1, LenProperties
<1>4. len \in Nat /\ (len = Len(rcvbuf) \/ len = room)
    BY <1>3 DEF min
<1>5. CASE rpc' = "closed"
    BY <1>5 DEF DrainInv, SleepsDrained
<1>6. CASE len = 0 /\ need_recv' = (room = 0) /\ rpc' = "doRecv" /\ UNCHANGED rcvbuf
  <2>1. ASSUME ~ need_recv' PROVE rcvbuf' = <<>>
    <3>1. room # 0
      BY <1>6, <2>1
    <3>2. Len(rcvbuf) = 0
      BY ONLY <1>4, <1>6, <3>1
    <3> QED
      BY <1>3, <1>6, <3>2, EmptySeq
  <2> QED
    BY <1>2, <1>6, <2>1 DEF DrainInv, SleepsDrained
<1>7. CASE rpc' = "recvBuffer"
    BY <1>2, <1>7 DEF DrainInv, SleepsDrained
<1>8. CASE rcvbuf' = Drop(rcvbuf, len) /\ need_recv' = (len = room) /\ rpc' = "doRecv"
  <2>1. ASSUME ~ need_recv' PROVE rcvbuf' = <<>>
    <3>1. len = Len(rcvbuf)
      BY <1>4, <1>8, <2>1
    <3> QED
      BY <1>3, <1>4, <1>8, <3>1, DropAll
  <2> QED
    BY <1>2, <1>8, <2>1 DEF DrainInv, SleepsDrained
<1> QED
    BY <1>1, <1>5, <1>6, <1>7, <1>8 DEF recvBuffer, recvFails

LEMMA DrainInit == Init => DrainInv
  BY DEF Init, DrainInv, SleepsDrained, Parts, Data

LEMMA DrainStep == ASSUME TypeOK, DrainInv, [Next]_vars PROVE DrainInv'
<1>1. CASE \/ \E size \in Bodies : sendPacket(size)
           \/ handlePollOut \/ doSend \/ sendBuffer \/ UNCHANGED vars
  <2>1. UNCHANGED <<rpc, need_recv, rcvbuf, pollin, recv_bufs_, recv_packet_, recv_head_buf_,
                    recv_buf_>>
    BY <1>1 DEF sendPacket, handlePollOut, doSend, sendBuffer, vars, kernel, receiver
  <2> QED
    BY <2>1 DEF DrainInv, SleepsDrained, Parts, Data
<1>2. CASE close \/ reset \/ deliver
  <2>1. /\ pollin' = TRUE
        /\ UNCHANGED <<rpc, need_recv, recv_bufs_, recv_packet_, recv_head_buf_, recv_buf_>>
    BY <1>2 DEF close, reset, deliver, receiver
  <2> QED
    BY <2>1 DEF DrainInv, SleepsDrained, Parts, Data
<1>3. CASE flushRecv
  <2>1. /\ rpc = "epoll_wait" /\ rpc' = "recvBuffer"
        /\ UNCHANGED <<recv_packet_, recv_head_buf_, recv_buf_>>
    BY <1>3 DEF flushRecv
  <2> QED
    BY <2>1 DEF DrainInv, SleepsDrained, Parts
<1>4. CASE recvBuffer
    BY <1>4, DrainRecvBuffer
<1>5. CASE doRecv
  <2>1. rpc = "doRecv" /\ UNCHANGED pollin
    BY <1>5 DEF doRecv
  <2>2. DoRecvEnds
    BY <1>5, <2>1, DoRecvDrains DEF DrainInv
  <2> QED
    BY <2>1, <2>2 DEF DoRecvEnds, DrainInv, SleepsDrained
<1> QED
    BY <1>1, <1>2, <1>3, <1>4, <1>5 DEF Next, SenderNext, ReceiverNext

\* When the receiving thread goes back to epoll_wait nothing is left that no edge
\* announces: for every buffer size and every cut.
THEOREM SocketDrained == Spec => []SleepsDrained
<1>1. Spec => [](TypeOK /\ DrainInv)
    BY TypesInit, DrainInit, TypesStep, DrainStep, PTL DEF Spec
<1>2. DrainInv => SleepsDrained
    BY DEF DrainInv
<1> QED
    BY <1>1, <1>2, PTL
=================================================================================
