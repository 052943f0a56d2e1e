---------------------------------- MODULE Buffer --------------------------------
(***************************************************************************)
(* kit/Buffer.cpp, kit/impl/BufferImpl.h and kit/BufferPool.cpp: byte      *)
(* buffers, the variable-length integers written to them and read back,    *)
(* and the pool they are taken from and returned to.                       *)
(*                                                                         *)
(* A buffer's cursors are offsets from head_.  A byte is a number: its     *)
(* GroupBits low bits carry a group, the next one says that another group  *)
(* follows.  Values are signed integers of Width bits.  Users read as many *)
(* values as they have written.  Writing past the memory of a buffer is    *)
(* undefined: nothing happens after it here.                               *)
(***************************************************************************)
EXTENDS Integers, Sequences, FiniteSets

CONSTANTS Buffers,     \* the Buffer objects there may be at a time
          Sizes,       \* the sizes users ask for
          Values,      \* the integers they write
          Width,       \* 8 * sizeof(T): 32 or 64
          GroupBits,   \* 7
          MinExp,      \* 3: a pooled buffer has at least 2^3 bytes
          QueueCnt,    \* BUFFER_QUEUE_CNT: 10
          PoolSize,    \* BUFFER_POOL_SIZE, the slots of a queue: 200
          Grow,        \* 64: what expandBuffer adds at least
          MaxItems,    \* bound: the values written to a buffer
          MaxRefs      \* bound: the references to a buffer

\* 1 << n.
bit[n \in Nat] == IF n = 0 THEN 1 ELSE 2 * bit[n - 1]

ASSUME BufferAssumption ==
    /\ Sizes \subseteq Nat \ {0} /\ Values \subseteq - bit[Width - 1] .. bit[Width - 1] - 1
    /\ Width \in Nat \ {0} /\ GroupBits \in 1 .. Width /\ MinExp \in Nat /\ QueueCnt \in Nat
    /\ PoolSize \in Nat \ {0} /\ Grow \in Nat /\ MaxItems \in Nat /\ MaxRefs \in Nat \ {0}

VARIABLES
    b_obj,      \* buffer -> [capacity, tail, write, read]
    b_mem,      \* buffer -> its bytes, 1 .. capacity
    b_refs,     \* buffer -> reference count; 0: no such object
    b_ques,     \* ques_: index -> the buffers in that queue
    b_holds,    \* history: buffer -> the references users have
    b_put, b_got,   \* history: buffer -> the values written to it, read from it
    b_smashed   \* history: a write has gone past a buffer's memory

bufferVars == <<b_obj, b_mem, b_refs, b_ques, b_holds, b_put, b_got, b_smashed>>

NoBuffer == [capacity |-> 0, tail |-> 0, write |-> 0, read |-> 0]
Exps == MinExp .. QueueCnt - 1

BufferInit ==
    /\ b_obj = [b \in Buffers |-> NoBuffer] /\ b_mem = [b \in Buffers |-> <<>>]
    /\ b_refs = [b \in Buffers |-> 0] /\ b_holds = [b \in Buffers |-> 0]
    /\ b_ques = [i \in Exps |-> <<>>]
    /\ b_put = [b \in Buffers |-> <<>>] /\ b_got = [b \in Buffers |-> <<>>]
    /\ b_smashed = FALSE

InUse(b) == b_holds[b] > 0 /\ ~ b_smashed

---------------------------------------------------------------------------------
(* Variable-length integers.                                                 *)

\* The groups of a value: as many as leave nothing of it, at least one.
groupsOf(u) == CHOOSE n \in 1 .. Width :
                   /\ u \div bit[n * GroupBits] = 0
                   /\ \A k \in 1 .. n - 1 : u \div bit[k * GroupBits] # 0

\* writeVaruint: the lowest group first.
writeVaruint(u) ==
    [i \in 1 .. groupsOf(u) |->
        ((u \div bit[(i - 1) * GroupBits]) % bit[GroupBits])
            + (IF i < groupsOf(u) THEN bit[GroupBits] ELSE 0)]

\* writeVarint: (unsigned)v << 1 ^ v >> Width - 1: small numbers of either sign are short.
zigzag(v) == IF v >= 0 THEN 2 * v
             ELSE bit[Width] - 1 - ((2 * (v + bit[Width])) % bit[Width])
unzigzag(u) == IF u % 2 = 0 THEN u \div 2 ELSE - (u \div 2) - 1

\* The groups a reader takes: up to the first with no other after it.
groupsFrom(b) ==
    LET m    == b_mem[b]
        last == CHOOSE i \in b_obj[b].read + 1 .. b_obj[b].tail :
                    /\ m[i] < bit[GroupBits]
                    /\ \A j \in b_obj[b].read + 1 .. i - 1 : m[j] >= bit[GroupBits]
    IN  SubSeq(m, b_obj[b].read + 1, last)

\* readVaruint's value after each group: those past the top bit are ignored.
partial(groups) ==
    LET f[i \in 0 .. Len(groups)] ==
            IF i = 0 THEN 0
            ELSE IF (i - 1) * GroupBits >= Width THEN f[i - 1]
            ELSE f[i - 1] + (groups[i] % bit[GroupBits]) * bit[(i - 1) * GroupBits]
    IN  f

\* readVaruint: what its groups make, in Width bits.
shifted(groups) == partial(groups)[Len(groups)] % bit[Width]

---------------------------------------------------------------------------------
(* Room for a write.                                                         *)

\* expandBuffer: realloc keeps the bytes and the cursors.
expandBuffer(o, m, required) ==
    LET capacity == IF required + Grow > o.capacity * 2 THEN required + Grow ELSE o.capacity * 2
    IN  [obj |-> [o EXCEPT !.capacity = capacity, !.tail = capacity],
         mem |-> [i \in 1 .. capacity |-> IF i <= o.capacity THEN m[i] ELSE 0]]

\* The unread bytes move to the front.
compact(o, m) ==
    LET rsz == o.write - o.read
    IN  [obj |-> [o EXCEPT !.read = 0, !.write = rsz],
         mem |-> [i \in DOMAIN m |-> IF i <= rsz THEN m[o.read + i] ELSE m[i]]]

\* reserveBuffer: the first way that gives room, in this order.
reserveBuffer(o, m, size) ==
    CASE o.write + size <= o.tail          -> [obj |-> o, mem |-> m]
      [] /\ o.write + size > o.tail
         /\ o.read + o.tail - o.write >= size -> compact(o, m)
      [] /\ o.write + size > o.tail
         /\ o.read + o.tail - o.write < size
         /\ o.write + size <= o.capacity   -> [obj |-> [o EXCEPT !.tail = o.write + size], mem |-> m]
      [] OTHER                             -> expandBuffer(o, m, o.write + size)

---------------------------------------------------------------------------------
(* Calls of a user that holds the buffer.                                    *)

\* writeVarint through writeBuffer.
writeVarint(b, v) ==
    LET bytes == writeVaruint(zigzag(v))
        r     == reserveBuffer(b_obj[b], b_mem[b], Len(bytes))
        from  == r.obj.write
    IN  /\ InUse(b) /\ Len(b_put[b]) < MaxItems
        /\ b_obj' = [b_obj EXCEPT ![b] = [r.obj EXCEPT !.write = from + Len(bytes)]]
        /\ b_mem' = [b_mem EXCEPT ![b] =
                [i \in 1 .. r.obj.capacity |->
                    IF i \in from + 1 .. from + Len(bytes) THEN bytes[i - from] ELSE r.mem[i]]]
        /\ b_put' = [b_put EXCEPT ![b] = Append(@, v)]
        /\ b_smashed' = (from + Len(bytes) > r.obj.capacity)
        /\ UNCHANGED <<b_refs, b_ques, b_holds, b_got>>

\* readVarint.
readVarint(b) ==
    /\ InUse(b) /\ Len(b_got[b]) < Len(b_put[b])
    /\ LET groups == groupsFrom(b)
       IN  /\ b_obj' = [b_obj EXCEPT ![b].read = @ + Len(groups)]
           /\ b_got' = [b_got EXCEPT ![b] = Append(@, unzigzag(shifted(groups)))]
    /\ UNCHANGED <<b_mem, b_refs, b_ques, b_holds, b_put, b_smashed>>

\* Ref::retain, as a Packet does.
retain(b) ==
    /\ InUse(b) /\ b_refs[b] < MaxRefs
    /\ b_refs' = [b_refs EXCEPT ![b] = @ + 1]
    /\ b_holds' = [b_holds EXCEPT ![b] = @ + 1]
    /\ UNCHANGED <<b_obj, b_mem, b_ques, b_put, b_got, b_smashed>>

---------------------------------------------------------------------------------
(* The pool.                                                                 *)

\* The queue a request looks in, and the bytes of a new buffer for it.
indexFor(size) == CHOOSE e \in MinExp .. MinExp + size :
                      bit[e] >= size /\ \A k \in MinExp .. e - 1 : bit[k] < size

\* The queue a buffer is returned to: one further than MinExp for each bit of its capacity.
indexOf(capacity) == MinExp + CHOOSE n \in 1 .. capacity :
                         bit[n - 1] <= capacity /\ capacity < bit[n]

\* createBuffer: the oldest buffer of its queue, or a new one; then reset and setSize.
createBuffer(b, size) ==
    LET index  == indexFor(size)
        pooled == index < QueueCnt /\ b_ques[index] # <<>>
    IN  /\ ~ b_smashed
        /\ IF pooled THEN /\ b = Head(b_ques[index])
                          /\ b_ques' = [b_ques EXCEPT ![index] = Tail(@)]
                          /\ UNCHANGED <<b_mem, b_refs>>
                     ELSE /\ b_refs[b] = 0
                          /\ b_refs' = [b_refs EXCEPT ![b] = 1]
                          /\ b_mem' = [b_mem EXCEPT ![b] = [i \in 1 .. bit[index] |-> 0]]
                          /\ UNCHANGED b_ques
        /\ b_obj' = [b_obj EXCEPT ![b] =
                [capacity |-> IF pooled THEN @.capacity ELSE bit[index],
                 tail |-> size, write |-> 0, read |-> 0]]
        /\ b_holds' = [b_holds EXCEPT ![b] = 1]
        /\ b_put' = [b_put EXCEPT ![b] = <<>>] /\ b_got' = [b_got EXCEPT ![b] = <<>>]
        /\ UNCHANGED b_smashed

\* Mutant of unshared: the count is not looked at.
unsharedAlways(b) == TRUE

\* KIT_DESTROY_BUFFER's question.
unshared(b) == b_refs[b] = 1

\* Buffers whose count has come to 0 are gone; nobody reads the values of one in the pool.
freed(S) ==
    LET gone == {b \in S : b_refs'[b] = 0}
        left == {b \in S : b_holds'[b] = 0}
    IN  /\ b_obj' = [b \in Buffers |-> IF b \in gone THEN NoBuffer ELSE b_obj[b]]
        /\ b_mem' = [b \in Buffers |-> IF b \in gone THEN <<>> ELSE b_mem[b]]
        /\ b_put' = [b \in Buffers |-> IF b \in left THEN <<>> ELSE b_put[b]]
        /\ b_got' = [b \in Buffers |-> IF b \in left THEN <<>> ELSE b_got[b]]

\* KIT_DESTROY_BUFFER: the last user's reference goes to the pool (destroyBuffer), which
\* releases the buffer when the queue is full or there is none for its capacity; the
\* others' are released.
destroyBuffer(b) ==
    LET index == indexOf(b_obj[b].capacity)
        pool  == unshared(b) /\ index < QueueCnt /\ Len(b_ques[index]) < PoolSize
    IN  /\ InUse(b)
        /\ b_holds' = [b_holds EXCEPT ![b] = @ - 1]
        /\ IF pool THEN b_ques' = [b_ques EXCEPT ![index] = Append(@, b)] /\ UNCHANGED b_refs
                   ELSE b_refs' = [b_refs EXCEPT ![b] = @ - 1] /\ UNCHANGED b_ques
        /\ freed({b})
        /\ UNCHANGED b_smashed

Queued(b) == UNION {{<<i, k>> : k \in {k \in DOMAIN b_ques[i] : b_ques[i][k] = b}} : i \in Exps}

\* BufferPool::clear: every queue is emptied, the buffers released.
clearPool ==
    /\ ~ b_smashed /\ \E i \in Exps : b_ques[i] # <<>>
    /\ b_refs' = [b \in Buffers |-> b_refs[b] - Cardinality(Queued(b))]
    /\ b_ques' = [i \in Exps |-> <<>>]
    /\ UNCHANGED <<b_holds, b_smashed>>
    /\ freed(Buffers)

BufferNext ==
    \/ \E b \in Buffers :
        \/ \E size \in Sizes : createBuffer(b, size)
        \/ \E v \in Values : writeVarint(b, v)
        \/ readVarint(b) \/ retain(b) \/ destroyBuffer(b)
    \/ clearPool

BufferSpec == BufferInit /\ [][BufferNext]_bufferVars

---------------------------------------------------------------------------------
\* What is read is what was written, in order: through the zigzag and the groups, and
\* through writes that move the unread bytes to the front, use the room behind tail_ or
\* make the memory larger.
ValuesKept ==
    \A b \in Buffers : InUse(b) => b_got[b] = SubSeq(b_put[b], 1, Len(b_got[b]))

\* A buffer in the pool has left its users, all of them, and is there once: createBuffer
\* never gives one away that somebody still uses.
PooledUnshared ==
    \A b \in Buffers : b_refs[b] = b_holds[b] + Cardinality(Queued(b)) /\ Cardinality(Queued(b)) <= 1
                       /\ (Queued(b) # {} => b_holds[b] = 0)

\* Buffers keep what is written to them apart from each other, in use and pooled.
BuffersApart == ValuesKept /\ PooledUnshared
=================================================================================
