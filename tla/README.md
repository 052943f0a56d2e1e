# gearkit in TLA+

gearkit is a small C++ framework for network games: a frame loop, reference
counting with a release pool, queues, buffers, timers and events (`base/`,
`kit/`, `Gear.cpp`), a TCP client and server with packets, sessions and
protocols (`network/`), and a binding to Lua with Lua 5.3.4 itself (`script/`).
It has no tests, and its (Chinese) comments are its only documentation. This
directory holds TLA+ modules of its parts, the TLC configurations that check
them on small instances, and proofs, checked by TLAPS, of what could be proved
for every instance.

## The system

Two kinds of thread matter. The **main thread** calls `Gear::mainLoop` once a
frame: everything else runs from there. Each `Server` and `Client` has an **IO
thread** in `handleThread`, which sleeps in `epoll_wait`, does the receiving, and
tells the main thread through `event_que_`. Lua runs on the main thread.

| part | state | operations | how it interacts | what is hard | what makes it correct |
|---|---|---|---|---|---|
| queues: `Queue`, `List`, `QList` (`base/`) | ring with `head_`, `tail_`, `count_`; linked list | push, pop, front, count, rest | under every other part | wrapping indices, ring and overflow list together; two threads on one ring | a FIFO: nothing lost, repeated or reordered |
| `MinQueue`, `Array`, `Map` (`base/`) | heap; linked array; chains | push, pop; set, del; get | used by timers, sessions, protocols | what a removal does to the rest | least first; the order of filling; a key is found |
| packet framing: `Socket`, `Packet` (`network/`) | `send_que_`, `send_bufs_`, `recv_bufs_`, `recv_packet_`, `recv_que_`, `ready_out` | sendPacket, flushSend, flushRecv, recvPacket, close | main thread sends, IO thread receives, kernel and peer in between | partial reads and writes, edge-triggered events, full buffers, closing | packets come out whole, once, in order; nothing stays behind asleep |
| server: `Server`, `Server_linux` | `sockets_`, `event_que_`, `del_socket_mutex_`, the Sockets' counts | IO: accept, addSocket, handleSocket, delSocket; main: handlePollEvent, pk_C_CONNECT, delSocket | two threads share the table, the Sockets, their counts and the RefPool, with one lock around delSocket | interleavings, unlocked counts, reuse of descriptors, late events, one edge for several happenings | no open connection forgotten, no wrong count, requests answered |
| client: `Client`, `Client_linux`, `Thread` | `socket_`, `active_`, `thread_`, `event_que_` | startup, connect with retry, handlePollEvent, shutdown | the same two threads | shutdown while connecting, events after an error | the same, for one connection |
| sessions: `Terminal`, `Session` | `session_map_`, `out_vec_`, `send_packets_`, `recv_packets_` | add/del/get, sendPacket, flush, handleOutSession; handleSocketRecv | above Socket, main thread only, while the IO thread goes on pushing | sockets that break under a session; packets that arrive within a loop that has counted before | a session's packets stay in order; which of them can be lost |
| timers: `Timer` | wheels of slots, `handler_map_` | addTimer, delTimer, update | handlers call back into the timer | digits that wrap, handlers changing the lists being walked | every timer fires in its window, or is deleted |
| buffers: `Buffer`, `BufferPool`, `SyncQueue` | cursors, capacity; queues by size class | write, read, reserve, expand; create, destroy | both threads | size classes, two locks over one counter | what is written is read; a pooled buffer has no users |
| life cycle: `Ref`, `RefPool`, `Gear` | counts, children, the pool, frame times | retain, release, autoRelease, update, clear, mainLoop | everything | children that go during update; a pool cleared only when there is time | deleted when nobody holds it, and not before |
| events: `Emitter`; `State` | handler lists; current state | on, once, off, emit; setState | main thread, reentrant | removal during emit | every live handler is called once per event |
| values: `Protocol`, `LuaProtocol`, `LuaBuffer` | typed trees | serialize, unserialize, clone, clear; formats | over Buffer | a tree reused for packet after packet, cut ones too | what arrives is what was sent |
| Lua: tables, strings, collector | nodes and chains, the string table, colours and lists | get, set, next, intern, a step of a cycle | the program runs between the collector's steps | relative links, resurrected strings, barriers, ephemerons | keys are found; nothing in use is freed, all garbage is |
| Lua: numbers, lexer, libraries | none (functions of their input) | arithmetic, patterns, pack, UTF-8, sort | | ends of ranges, backtracking, lying comparisons | they agree with a reference definition |
| Lua: compiler, virtual machine, chunks | FuncState; stack and frames | parse, execute, resume, dump, load | | registers, jumps, upvalues, yields and errors anywhere | a compiled program does what the manual says |
| logging, addresses, Windows, Lua's API and host libraries | | | | | not modelled: output, system calls, glue |

## Modules

Every definition keeps the name of the function or field it stands for.

| module | models | proofs |
|---|---|---|
| `Fifo` | nothing: the abstract queue, bounded or not, that the queues are shown to implement | |
| `Queue` | `base/Queue.h`, class Queue | `QueueProofs` |
| `QList` | `base/QList.h` over a ring and `base/List.h` | `QListProofs` |
| `SyncQueue` | one ring and two threads, statement by statement: `event_que_` and `kit/SyncQueue.h` | `KitProofs` |
| `Collections`, `Map` | MinQueue and `base/Array.h`; `base/Map.h` | `KitProofs` (Map: with Timer) |
| `Socket` | `network/Socket.cpp`, `Packet.cpp`: one direction of one connection, with the kernel | `SocketProofs` |
| `Server`, `MCServer` | `network/Server.cpp`, `Server_linux.cpp`, the Sockets' counts (`kit/Ref.cpp`), the pool (`kit/RefPool.cpp`) and its clearing in `Gear.cpp` | `ServerProofs` |
| `Client` | `network/Client.cpp`, `Client_linux.cpp`, `kit/Thread.cpp` | `ClientProofs` |
| `Terminal` | `network/Terminal.cpp`, `Session.cpp`, handleSocketRecv of `Server.cpp` and `Client.cpp` | `TerminalProofs` |
| `Timer` | `kit/Timer.cpp` with its map | `NumberProofs` |
| `Buffer` | `kit/Buffer.cpp`, `BufferImpl.h`, `BufferPool.cpp` | `NumberProofs` |
| `Ref` | `kit/Ref.cpp`, `RefPool.cpp` | `KitProofs` |
| `Gear`, `Emitter` | the frame loop of `Gear.cpp`; `kit/Emitter.h` | `KitProofs` |
| `Protocol` | `network/Protocol.cpp`, `script/lua/LuaProtocol.cpp` | |
| `LuaFormat` | `script/lua/LuaBuffer.cpp` | |
| `LuaString` | `lstring.c` and what `lgc.c` does to the string table | `NumberProofs` |
| `LuaGC`, `LuaTable` | `lgc.c` with the upvalues of `lfunc.c`; `ltable.c` | |
| `LuaNumber`, `LuaLex` | arithmetic of `lobject.c` and `lvm.c`, `lmathlib.c`, `lbitlib.c`; `llex.c` | |
| `LuaPattern`, `LuaPack`, `LuaUtf8`, `LuaTableLib` | `lstrlib.c`, `lutf8lib.c`, `ltablib.c` | |
| `LuaCode`, `LuaParser`, `LuaVM`, `LuaDump` | `lcode.c`; `lparser.c`; `lvm.c`, `ldo.c`, `ltm.c`, `lfunc.c`; `ldump.c`, `lundump.c` | |
| `LuaMeaning`, `LuaPrograms` | nothing: what a program means by the manual, and the programs to compare on | |
| `LuaLib` | chooses an input for each of the pure modules of Lua | |
| `KitParts`, `AppParts` | compositions for TLC: the sequential parts of `base/`, `kit/` and of `network/`, `script/`, one moving at a time | |
| `Null` | NULL, shared by the modules with pointers | |

**Queue, QList.** One action per method. `RefinesFifo` substitutes the contents
read off ring (and list) for Fifo's queue; each method is then a Fifo step.

**SyncQueue.** `++count_` and `--count_` are a load and a store each; the test of
a method, its slot and its index are steps of their own. `s_use` tells the code's
two uses apart: `event_que_` (one thread pushes what `rest()` allowed, the other
pops, no lock) and BufferPool's SyncQueue (both do both, one lock for push and
another for pop). `s_torn` records that a store has overwritten the other's.

**Socket.** `sendPacket` puts a packet in `send_que_` and calls `flushSend` when
`ready_out`; `flushSend` alternates doSend (copy the next packet's header and
body into `send_bufs_`) and sendBuffer (one `::send` a step). On the other side
an edge starts `flushRecv`: recvBuffer (one `::recv` a step) and doRecv (cut
packets out of `recv_bufs_`). The kernel moves any number of bytes from its
sending to its receiving buffer at any time and raises edges. Bytes are *cells*:
a header is one cell per field (seed, length, pid), a body one cell per byte;
the length field is taken modulo `U16`. Thread positions are `spc` and `rpc`.
The histories `sent`, `copied` and `consumed` serve the properties only.

**Server.** A connection stands for the client and for its Socket object.
`main.pc` and `io.pc` are where the threads are. A step ends where the other
thread can see a difference: getSocket is separated from the use of what it
returned, accept from Socket::create, delSocket's release from its
`sockets_[fd] = NULL`. `handle` is the open descriptor (the kernel gives the
lowest free one), `interest` and `edges` are epoll's.

Nothing in `Ref.cpp` and `RefPool.cpp` keeps the threads apart, and the model
does not either. `retain` and `release` are a load of the count (into `loaded`)
and a store, and the later store wins; every use by either thread is taken apart
so: addSocket's retain (`addRef` loads, `init` stores), delSocket's release
(`ioDelSocket`, `ioRelease`; `mainDelSocket`, `mainRelease`), the session's
retain (`handleSocketRecv`, `pk_C_CONNECT`) and each release of the pool's
clearing (`clear`, `clearing`). The pool's push_back is two steps (`create`,
`addRef`), and when RefPool::clear swaps the vector between them what comes of
the new entry is undefined: it is there, it is lost, or the thread stops.
`torn` is the Sockets whose count or place in the pool has been overwritten.

handleSocketRecv is taken apart too: it counts (`recv`), then pops a packet at a
time (`handleSocketRecv`), with pk_C_CONNECT's pull (`pk_C_CONNECT`) and answer
(`sendS_CONNECT`) as steps of their own, and the IO thread pushes between any
two. `released` is what the loop has released although there was a session,
`early` how many packets a client has sent before it was answered.

Simplifications: packets arrive whole (Socket is where they are cut); one push,
pop or pull of `recv_que_` is one step (SyncQueue is where a ring is taken
apart); delSocket's close and the load for its release are one step, since no
change of a count waits for a close; the swap of two vectors is one step; a client
sends one CONNECT only; and of what the pool holds only the Sockets of addSocket are
there, not what the main thread gives it itself. The use of a deleted Socket is
undefined behaviour: the thread that does it stops (`ioCrash`, `mainCrash`). A frame may end with or
without time to spare, and clears the pool in the first case.

**Client.** The n-th startup's Socket, connection, Thread object and IO thread
all go by n. The client may be shut down and started again while an old thread
still runs; `crash` says how a process ended that used NULL, a deleted object or
a pure virtual function, and `ended` which startups were asked or forced to end.
At a connection's first KIT_POLLOUT flushSend fails only when something is queued,
which before `pk_C_CONNECT` only a user's packets for a session can be: with an
empty queue `pk_C_CONNECT` is called on a broken connection as well, its packet is
lost, and no KIT_POLLERR is added (`pollOut`).

**Terminal.** Sessions survive their sockets. The IO thread appears as `arrives`
and `breaks`, which may come between any two steps, those of handleSocketRecv's
loop included: `socketEvent` counts the queue, `releases` and `pk_CONNECT` are a
turn of the loop each, `noPacket` is its break (`t_loop` is where it stands). A
packet that arrives after `pk_CONNECT`'s pull, and before the loop has reached
its count, is popped and released: the code loses it. `t_last` and `t_lost` say
which ones. A second CONNECT within one loop makes a second session of the same
socket, as in the code; what the first one pulled is then no longer of the
socket's session. `t_server` tells Server's handling (which handles what was
pulled at once, and answers) from Client's.

**Protocol** keeps the tree of a protocol between packets: one object takes packet
after packet, cut short ones and scripts' tables too, and may be filled to be sent
in between (`fill`, `fills`). PTArray::unserialize resizes the vector to the number
of items and then appends them, so an array holds as many null pointers as items,
in front of them; they are NULL here, and stay. `recvProtocol` shows each object it
has received: `toString` tells whether that meets a null pointer, and then the
process is over (`pt_dead`). An array without a template reads nothing.

**Timer.** `update` is one tick; it and `wheeling` are taken apart so that each
handler call is a state (`pc = "handler"`) in which handlers may add and delete
timers. `handler_map_` keeps Map's chains, because deleting the first key of a
chain drops the rest of it. The starting positions of the wheels are arbitrary,
as the constructor leaves them; the slots are taken as empty (the constructor
clears one of the 512: a stray pointer has no behaviour to model). A delay's
digits are `bits`, by the powers of `W` in the recursive function `power`.

**Ref, Gear, Emitter, Buffer.** Calls that user code may make in the middle of
`Ref::update` and of `emit` are actions enabled while those stand where they
stand (`r_walk`, `e_calls`); leaving the vector being walked is undefined, and
`r_bad`, `e_bad` record it. A release that deletes releases the children in turn:
`r_work` lists the releases still to be done, one a step, before anything else.
Gear's arithmetic is in unsigned milliseconds modulo `U32`; the histories
`g_due`, `g_debt` and `g_unclear` say when a frame should have begun, how late
the last long one was, and for how many frames the pool has not been cleared
since. A Buffer's byte is a number with a bit for "another group follows", and
its shifts are the powers `bit`; writing past a buffer's memory sets `b_smashed`.

**Collections.** Each turn of adjustDown's loop, and each of the adjust that goes
up, is a step: `h_down` and `h_up` are the positions where they stand (0: they
have returned). Array is its items with their two links, and `a_order` the order
of insertion they should give.

**Lua.** LuaGC runs a program, one instruction at a time, beside a collector
that may take a step between any two; a program with userdata and weak tables
starts from a heap it may have built (`finalizedHeap`: a userdata with a finalizer
whose value is a weak table, with entries that lead back to it), which counts as two
of its operations and lets the order of clearing in the atomic step matter; LuaTable
and LuaString are state machines of one table and of the string table. The pure modules are operators with
reference definitions beside them; LuaLib's states are their inputs. LuaVM runs
what LuaParser compiles with LuaCode, and LuaMeaning, which knows no registers,
jumps or frames, says what it should have done. The compiler's output and the
machine's results were compared with the real `luac` and `lua` on the programs
of LuaPrograms while the modules were written.

## Runs

| run | configuration | what it shows |
|---|---|---|
| `kit` | `KitParts`: the sequential parts of `base/`, `kit/` and the ring shared by two threads; 1,114,104 states | CountAgrees and RefinesFifo (QList is one FIFO), SyncInOrder, EventsFit, BuffersApart, CollectionsOrdered, NoneForgotten, Punctual, HandlersKept, TreeKept, WalkSafe, PoolClearedAgain, EmitsExactly |
| `app` | `AppParts`: `Queue`, sessions, protocols and Lua; 596,446 states | IndicesAgree and RefinesFifo (the bare ring), SessionKeeps, ReadsBack; LuaCollects, TablesFind, StringsInterned, NumbersAgree, TextsReadBack, LibrariesAgree, CompiledRuns |
| `client` | one startup, one refusal, a connection that may break, signals, shutdown, FairSpec | SafeWhileUp, AskedOnce; SessionMade |
| `socket` | 3 packets with bodies of none, 0 and 2 bytes; `PACKET_SIZE` 9, kernel 3 and 2 cells; two seeds; failures | TypeOK, PacketsInOrder, StreamConserved, SleepsDrained |
| `socket_live` | 3 packets, 16 cells, FairSpec | EveryPacketArrives, while `PACKET_SIZE` is not used up |
| `server` | 2 connections that may break, 2 descriptors, an event queue of 2; 2,818,926 states | TypeOK, PushFits, Tracked, RefsCounted, ServerListens |
| `server_live` | 2 connections, 1 descriptor; both clients send their requests only, or one of them is alone and sends two packets more, before or after the answer (`Alone`); LiveSpec; 386,637 states | Answered, Delivered, Closed |
| `socket_recv_full` (violated) | `PACKET_SIZE` cells received in all | flushRecv then never returns: it asks for 0 bytes and takes 0 for a full buffer |
| `socket_closed` (violated) | the peer closes | `::recv` 0 is taken for "nothing yet": the socket stays |
| `server_use_after_free` (violated) | 2 connections, 2 descriptors | the main thread clears the pool between Socket::create and retain |
| `server_stale_event` (violated) | 2 connections, 2 descriptors | the error event of a closed connection deletes the next owner of its descriptor |
| `server_backlog` (violated) | the same, FairSpec | two connects, one edge, one accept |

The five violated properties are what comments of the code say of it
(PROJECT.json quotes them); what it does differs.

`KitParts` and `AppParts` put parts that share no variable into one behaviour:
`part` says which one moves, and the others rest in an initial state. Each
property then holds of the composition exactly if it holds of its part alone, and
the number of states is the sum of the parts' and not their product.

**Bounds.** Each is the smallest at which what its part is checked for can
happen, counted from the code.

- *Queues.* A ring of 2 or 3 wraps and fills within the 4 or 5 values that are
  pushed; QList's list then has elements too. In SyncQueue 4 values through a
  ring of 2 let an index wrap while a count is lost.
- *Socket.* A buffer smaller than the three packets lets every header and body be
  cut at every cell and both `send_bufs_` and `recv_bufs_` run out; two seeds let
  the header be rejected.
- *Server.* Two descriptors are what reuse, a stale event and two live
  connections need; with `server_live`'s one descriptor a second connection makes
  accept fail (the listening socket is then deleted, and the other properties
  still hold), and a broken connection's descriptor is used again; an event queue
  of 2 is shorter than the three descriptors that can have events, so batches are
  cut. `MaxData` bounds packets after the request: two are the least that can be
  out of order or of which one can be lost. They matter to Delivered alone, which
  is about one connection at a time; so in `server_live` a client that sends them is
  the only one to connect.
- *Client.* One startup whose connection is refused once, answers, breaks, is
  signalled or is shut down at any step; two events fill the queue.
- *Timer.* Two wheels of two slots give the cascade; delays 1 and 3 sit on the
  first and the second wheel, cycle 2 is exactly one turn of the first, ids 1 and
  3 share a bucket while 2 has its own.
- *Buffer.* Two buffers, sizes of three classes, of which the pool takes the
  least back;
  two values of three groups, the least integer among them.
- *Ref.* A root and two objects: a child in two lists, a child of a child, an
  update that removes its own successor.
- *Gear.* Unsigned times wrap at 64 and time runs to 66; frames shorter, longer
  and several times longer than `FrameMsec`, sleeps that overrun.
- *Emitter.* Three handlers and two emissions, one inside the other.
- *Collections.* A heap of 6 has a node with one child; an array of 4.
- *Terminal.* Two sockets and two sessions, in one bucket of the map, so that one is
  made while the other loses its socket. A loss needs three arrivals: the CONNECT, one
  behind it that is counted and pulled, and one between the pull and the end of the
  loop. The proof is for any number.
- *Protocol.* Arrays of one item, and three packets or fillings of one object; a
  packet may be cut before its last cell.
- *Lua.* Three objects suffice for a link into and out of an object of each kind;
  integers have 8 bits (and floats 5 of mantissa), so that every operand near
  both ends of the range is tried; texts have up to four characters, drawn from
  those the scanner tells apart; LuaPrograms lists the programs.

CHECK_DEADLOCK is off where a bound ends the behaviour or, in Server and Client,
where a thread stops after undefined behaviour. The symmetric sets are
connections that may break (or may not), objects and sockets that no definition
tells apart; no run with
symmetry checks liveness.

**Fairness.** `FairSpec` is weak fairness of each thread as a whole (and, in
Socket, of the kernel's delivery; in Client, of a server that accepts and
answers): the operating system schedules runnable threads, TCP delivers. No
fairness is asked of clients, of closing or breaking, of the pool's clearing, or
of a particular branch. MCServer's LiveSpec is FairSpec with clients that keep to
`Alone`, which no step of either thread can make false.

**Reading the properties.** Some say less than one would like, because the code
does.

- `Punctual`: a timer may fire early by up to a turn of the highest wheel its
  delay uses, since positions are not aligned with the moment it is added. It may
  be a *whole* turn when a handler that runs in slot 0 adds it, because the next
  wheel turns later in the same tick.
- `HandlersKept` allows for Map's loss: a timer keeps its handler unless another id
  of its bucket was deleted, for deleting the first of a chain drops the rest.
- `RefsCounted` is about the Sockets not in `torn`: it says that the lost update is
  the only way to a wrong count. The model has such lost updates.
- `Delivered` allows for the packets handleSocketRecv's loop releases, and says how
  many they can be: no more than the client sent before it had an answer, so none of
  a client that waits for S_CONNECT, as this library's does.
- `SessionKeeps` allows for the same loss, and says where it can be: directly after
  what the session pulled when it was made. It says nothing of a packet that stays in
  a session's queue for ever, because flush stops after its first.
- `ReadsBack` says that a packet leaves in the object what its sender put in and the
  null pointers in front of an array's items (`Left`), and nothing of what was there
  before; and that the sender's object is what its table says.
- `EveryPacketArrives` is about a kernel and a `send_bufs_` with room for everything.
- `SyncInOrder` holds only while no store of `count_` has overwritten the other
  thread's. `EventsFit` holds whatever is lost.
- `WalkSafe` excludes an update that takes a child from a list being walked, and
  `EmitsExactly` a handler that registers or emits on its own event: after either
  the code may go on in memory that has moved, or past an end.
- `PoolClearedAgain` bounds the frames without a clear by how late the last long
  one was, and only until the 32-bit clock wraps.
- `SafeWhileUp` is about a client nobody has ended yet: the uses of NULL and of
  deleted objects that follow an error event or a shutdown are in the model, and
  outside the property.

## Proofs

TLAPS checks the following for all values of the constants that satisfy the
modules' assumptions. Each assumption says what the code's constants are: sizes
are positive, NULL is none of the values, counts are natural numbers.

| module | theorems | property of a run |
|---|---|---|
| `QueueProofs` | `QueueInvariant`, `QueueRefinement` | IndicesAgree, RefinesFifo |
| `QListProofs` | `QListInvariant`, `QListRefinement` | CountAgrees, RefinesFifo |
| `SocketProofs` | `SocketTypes`, `SocketStream`, `SocketInOrder`, `SocketDrained` | TypeOK, StreamConserved, PacketsInOrder, SleepsDrained |
| `ServerProofs` | `ServerInvariant`, `ServerTypes`, `ServerEventsFit`, `ServerTracksAll`, `ServerCounts`, `ServerListensOn` | TypeOK, PushFits, Tracked, RefsCounted, ServerListens |
| `ClientProofs` | `ClientInvariant`, `ClientSafe`, `ClientAsksOnce` | SafeWhileUp, AskedOnce |
| `NumberProofs` | `TimerHandlers`, `TimerNodes`, `TimerPunctual` | HandlersKept, NoneForgotten, Punctual |
| | `BuffersStayApart` | BuffersApart |
| | `StringsAreOne` | StringsInterned |
| `TerminalProofs` | `TerminalInvariant`, `SessionsKeep` | SessionKeeps |
| `KitProofs` | `SyncInvariant`, `SyncEventsFit`, `SyncOrder` | EventsFit, SyncInOrder |
| | `GearClears`, `EmitterExact` | PoolClearedAgain, EmitsExactly |
| | `RefInvariant`, `RefTreeKept`, `RefWalkSafe` | TreeKept, WalkSafe |
| | `CollectionsKept` | CollectionsOrdered |

None of the invariants but the first two is inductive as it stands. What had to
be added is what the code relies on without saying so:

- **Queue, QList.** Types and IndicesAgree are inductive; refinement is by cases
  on the methods, with lemmas on how the contents of the ring change when an end
  moves. For QList: the list is empty or the ring's elements all come first.
- **SyncQueue.** `SyncInv`: a thread in a method holds that method's lock
  (`MutexesHeld`); the room `rest()` saw is still there, less what has been
  pushed, both for the count in memory and for the one a thread is about to
  store (`RoomLeft`, true whatever is lost); and, as long as `s_torn` is false,
  slots, `head_`, `tail_` and `count_` agree up to the update each thread is in
  the middle of (`RingAgrees`).
- **Socket, the stream.** TypeOK alone does not carry it: doRecv removes `n` cells
  because the header says so, and that these are the oldest in flight is what the
  proof adds. `StreamInv` says that cells taken out followed by the cells in
  `recv_bufs_`, the kernel's two buffers and `send_bufs_` are the cells copied
  in, while the connection is intact, and a beginning of them after. The lemmas
  are about cutting and joining sequences.
- **Socket, the packets.** `OrderInv` says where in the stream each packet begins
  (a function `at` that exists, though no variable holds it): the packets begun are framed one
  after another from those places, the rest wait in `send_que_`; on the other
  side the cells consumed end at a boundary or inside the packet the header in
  `recv_packet_` was read from. `SocketInOrder` has a hypothesis, `BodiesFit`:
  bodies are shorter than 2^16, or the length field lies. Packet.h:20 declares
  `PACKET_MAX_SIZE`, and nothing enforces it.
- **Socket, asleep.** `DrainInv`: that the last `::recv` emptied the kernel, or an
  edge is pending, must be known while doRecv still works, and a doRecv that
  returns for want of bytes has left none (`Parts`: no body without its header).
- **Server.** `ServerInv` says for every step of either thread who owns an index
  of `sockets_`: whoever is inside delSocket has the lock (`Locked`); an entry
  is that of the connection with this descriptor, until delSocket has closed it
  (`Entries`), so that addSocket never finds one to delete (`AddingOK`); a
  connection not yet added is nowhere (`Fresh`); a batch has each descriptor
  once, and the listening socket in it means that someone waits (`BatchOK`); what
  is left of it fits in the event queue (`Room`); a count that is not torn is the
  sum of its owners, with each owner entered or left by the same store that changes
  it (`Counted`), since a store on a count that has changed since the load makes it
  torn; and the listening socket goes only after there have been
  more connections than descriptors (`Listening`).
- **Client.** `ClientInv`: until something ends the client, either startup has not
  been called (`Before`), or it has been once, the Socket has a reference besides
  the pool's, the Thread has its own, and no event on its way reports an error or
  a writable socket that is not connected (`During`); and who has asked for a
  session is connected, with `ready_out` set until a receive fails (`Asking`).
- **Terminal.** `TerminalInv` numbers the packets of either direction. `Sending`: a
  number is either given to a socket or kept in its session's queue, once and in
  order, and what is kept comes after what was given. `Receiving`: the packets a
  session has taken from its socket are those handled and those it has pulled, again
  once and in order. `Waiting`: what is left in a socket's queue are the last
  packets that came, one after the other, and all of them as long as the socket has no
  session. `Looping`: while a loop that has made a session goes on, those it has
  released begin where its pull ended and end where the queue begins, and with what it
  has still to pop they are no more than it counted. Nothing
  in it depends on which socket a session has, so sockets may break at any step.
- **Timer, chains and nodes.** `HandlersInv`: a chain holds ids that were given
  and not deleted, each in its bucket and once, and an id without a handler shares
  its bucket with a deleted one. `NodesInv`: no id has two nodes, counting those
  of the list `wheeling` is walking and not the stale list of the slot it came
  from (`Spread`), and each timer that is due and has its handler has one (`Kept`).
- **Timer, the clock.** `ClockInv` says that there is a count `c`: for each wheel
  the ticks since its last turn, counting a turn of it that this tick has still to
  make (`CountedAt`). `TurnsAt` gives from it the tick at which a wheel comes to a
  slot. No step changes that tick for a slot that holds nodes, because a node never
  sits in the slot its wheel stands in. `Timely`: the tick at which a node's slot
  comes, plus the digits of its delay below that wheel, lies between the tick it is
  due at and one turn of its top wheel earlier. The wheels' positions at the start
  appear in none of this, which is why they may be arbitrary. It rests on lemmas
  about digits: they are below `W`, those at and above a wheel are what division
  leaves, and a delay other than 0 has one other than 0 (`DigitTypes`).
- **Buffer.** `BufferInv`: a pooled buffer is once in one queue and the pool has its
  only reference, any other's count is what its users hold (`OnceEach`, `Owners`);
  and for a buffer in use there are places (a function `offset`) where each value
  still unread begins, one behind the other from `read` up to `write`, with that
  value's groups as bytes (`Stored`). Each of the four ways of reserveBuffer moves
  the unread bytes by one distance (`Reserved`), and the places with them. The bytes
  of a value are its digits in base 2^GroupBits, of which only the last lacks the bit
  for another, so a reader stops where the writer did. What is said of values ends
  once a buffer is written past its memory (`b_smashed`, after which nobody moves).
- **Strings.** `StringInv`: each short string that exists is in the chain of its hash,
  once, and the count is theirs (`TableRight`); a short one is the only one with its
  text, and whatever is dead will be swept (`MarksRight`). luaS_resize's two loops are
  recursive functions (`relinked`, `rehashed`). That no chain loses a string, though
  later chains meet again those moved ahead of them, is an induction over the chains:
  after `k` of them each string is at home or in an old chain behind `k` (`Rehashed`).
  `Resized` then has the code's own assertion, that what a shrinking cuts off is empty
  (`lstring.c:92`).
- **Ref.** `RefInv`: the count of an object is its users' references, one for each
  time it is in a list, one if the pool has it, and one for each release of it begun
  and still to be done, counted in `r_work` (`Balance`); `parent_` of a living object
  names a living one that lists it (`Parents`); a deleted object has no children left
  (`Emptied`); and as long as no update takes a child from a list being walked, each
  frame of the walk is at an index inside the list of a living object (`WalkInside`).
- **Collections.** `HeapInv`: only two parents may be out of order with their
  children, the one where the element sinks (`h_down`) and the one where adjust goes
  on (half of `h_up`), and across the first its own parent is in order with its
  children (`Grand`); the elements are, counted, those pushed and not popped.
  `ArrayInv`: the links follow `a_order` in both directions and its indices are
  distinct, so no filled item has both links 0, which is how the code knows a free
  one.
- **Gear.** `GearInv` relates the lag, the time slept, the debt and the frames
  without a clear, in the three cases the loop tells apart (late, waiting after
  a long sleep, neither), as long as the clock has not wrapped.
- **Emitter.** Until a handler registers or emits, either no emission is going on
  and the items are the live handlers, or one is, and: everything before its
  index has been called or was off, everything after has not, and the item of the
  handler that runs is where it was found.

**Only model-checked, and why.**

- Every liveness property (EveryPacketArrives, Answered, Delivered, Closed,
  SessionMade): the prover has no rule for fairness or ENABLED.
- What recursive operators compute: Protocol and Lua but for its strings
  (ReadsBack, LuaCollects and the judgements on inputs), whose modules use RECURSIVE, for trees
  of values, programs and texts. Where the recursion is over numbers only (`power`,
  `bit`, `partial`, `rehashed`) it is written as a recursive function instead, and the proofs go
  by the least number that would be wrong (`LeastNumber`, `AllNumbers`).
- TablesFind, the chained hash table of Lua under rehash, for the same reason: its
  module counts and places keys recursively.

## Not modelled

What the inventory's last row lists, and of the modelled parts:

- `State`: the first setState of a manager calls `off` of the state it leaves,
  which releases itself, and then writes to it (`kit/State.cpp:53`);
- the slots and positions Timer's constructor leaves as they are
  (`kit/Timer.cpp:9`);
- Server's startup failures and shutdown, and a signal during its epoll_wait
  (Client has the last two);
- Socket's connect, bind, listen and options, which only pass on; Map's clear;
- of Lua: debug hooks, OP_POW, the order of strings by locale, LOADKX, growth of
  the stack, and what a script sees of the host (`lapi.c`, `lauxlib.c`, `io`,
  `os`).

The hazards in PROJECT.json name the lines, each with the properties that cover
it or a note.

## Met on the way

Besides the five findings, the models show or work around the following.

- The comment at `Server_linux.cpp:139` has it that handleThread need not care about
  synchronisation; but nothing guards a Socket's count or the pool's vector (the lock
  is around delSocket only): a count loses an update, and a
  push_back into a vector being swapped has no defined outcome (`torn`).
- handleSocketRecv, which is for the packets before a session (`Server.cpp:146`), also
  pops and releases those that arrive after pk_C_CONNECT's pull, up to the count it
  took before its loop (`Server.cpp:151`, `Client.cpp:136`).
- `++count_` overwrites `--count_` of `event_que_`, and an event that has been taken is
  handed out again.
- A received array with items ends the process in recvProtocol: `toString`
  (`Terminal.cpp:158`, `Protocol.cpp:131`) meets the null pointers that
  `Protocol.cpp:91` leaves in front of them.
- An array made by `unserialize` cannot be sent on either: serialize goes through the
  same null pointers.
- Terminal's handleOutSession reads `out_vec_[length]`, one past the end; a
  session's flush stops after its first packet.
- Deleting the first key of a Map's chain drops the rest of the chain.
- A body of 2^16 bytes or more breaks the framing of everything after it.
- Releasing the last reference to a running Thread calls a pure virtual function
  (`join` in the destructor).
- BufferPool's destroyBuffer counts a size class from 4 and createBuffer from the
  size, so a buffer comes back as one of a larger class than it is.
- The template of an array of tables is created as an ARRAY and filled as a
  PTTable (`LuaProtocol.cpp:108`). `LuaBuffer.h:19` documents a letter `v` the
  code refuses, and 64-bit integers pass through a double.
- `executeString` and `executeFile` leave the message of a load error on the stack.
- Lua 5.3.4's parser jumps wrong for
  `if c then goto l ::m:: ... do return end ::l:: goto m end`; the programs of
  LuaPrograms leave that form out.

## Plan

1. Done: every part of the inventory that has state is modelled and checked;
   28 of the 40 properties the passing runs check are proved as well, and of the
   other 12 those of the kit and the network are liveness properties, ReadsBack aside.
2. Could be proved next: ReadsBack of Protocol, with the tree of a protocol as a
   function from paths to values in place of the recursion.
3. Not planned: the rest of Lua beyond TLC. Its modules are comparisons of
   recursive definitions.
