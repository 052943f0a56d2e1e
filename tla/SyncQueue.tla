--------------------------------- MODULE SyncQueue ------------------------------
(***************************************************************************)
(* A base/Queue.h ring that two threads use at once, statement by          *)
(* statement.  The code has two such uses:                                 *)
(*   "events":  Server's and Client's event_que_, a plain Queue that the   *)
(*              IO thread pushes to, never more than rest() told it, and   *)
(*              the main thread pops from;                                 *)
(*   "buffers": kit/SyncQueue.h, BufferPool's queues, where every thread   *)
(*              pushes and pops, push under one mutex and pop under        *)
(*              another.                                                   *)
(* Either way the two methods both change count_, and nothing keeps them   *)
(* apart: ++count_ and --count_ are a load and a store each.  Statements   *)
(* are taken in program order.                                             *)
(***************************************************************************)
EXTENDS Integers, Sequences, Null

CONSTANTS IO, MAIN,      \* the two threads
          SyncLength,    \* the template's slot count
          SyncMax        \* bound: the values pushed, 1 .. SyncMax

ASSUME SyncAssumption ==
    /\ IO # MAIN /\ NULL \notin {IO, MAIN}
    /\ SyncLength \in Nat \ {0} /\ SyncMax \in Nat

VARIABLES
    s_use,                          \* "events" or "buffers"
    s_count, s_head, s_tail, s_que, \* the ring's fields
    s_mutex,     \* [push |-> , pop |-> ] the thread that holds each mutex, or NULL
    s_pc,        \* thread -> "out", or the statement it is at
    s_op,        \* thread -> "push" or "pop", the method it is in
    s_loaded,    \* thread -> count_ as it has read it for ++ or --
    s_room,      \* what is left of the rest() the IO thread read
    s_pushed,    \* history: the values put in slots
    s_popped,    \* history: the values handed out, in order
    s_torn       \* history: a store has overwritten the other thread's

syncVars == <<s_use, s_count, s_head, s_tail, s_que, s_mutex, s_pc, s_op, s_loaded, s_room,
              s_pushed, s_popped, s_torn>>
ringVars == <<s_count, s_head, s_tail, s_que>>
syncHistory == <<s_pushed, s_popped, s_torn>>

Threads == {IO, MAIN}

SyncInit ==
    /\ s_use \in {"events", "buffers"}
    /\ s_count = 0 /\ s_head = 0 /\ s_tail = 0
    /\ s_que = [i \in 0 .. SyncLength - 1 |-> 0]
    /\ s_mutex = [push |-> NULL, pop |-> NULL]
    /\ s_pc = [t \in Threads |-> "out"] /\ s_op = [t \in Threads |-> "push"]
    /\ s_loaded = [t \in Threads |-> 0] /\ s_room = 0
    /\ s_pushed = 0 /\ s_popped = <<>> /\ s_torn = FALSE

at(t, op, pc) == s_op[t] = op /\ s_pc[t] = pc
goto(t, pc) == s_pc' = [s_pc EXCEPT ![t] = pc]

\* Mutant of rest: as MinQueue's.
restPlusOne == SyncLength + 1 - s_count

\* rest().
rest == SyncLength - s_count

\* The IO thread's loop: it waits for as many events as the queue has room for.
EventRest ==
    /\ s_use = "events" /\ s_pc[IO] = "out" /\ s_room = 0
    /\ s_room' = rest
    /\ UNCHANGED <<s_use, ringVars, s_mutex, s_pc, s_op, s_loaded, syncHistory>>

\* Who calls what.
mayCall(t, op) ==
    \/ s_use = "buffers"
    \/ t = IO /\ op = "push" /\ s_room > 0
    \/ t = MAIN /\ op = "pop"

\* Mutant of SyncCall: the mutex is not waited for.
SyncCallUnlocked(t, op) ==
    /\ s_pc[t] = "out" /\ mayCall(t, op)
    /\ s_mutex' = [s_mutex EXCEPT ![op] = t]
    /\ s_op' = [s_op EXCEPT ![t] = op] /\ goto(t, "check")
    /\ UNCHANGED <<s_use, ringVars, s_loaded, s_room, syncHistory>>

\* A call begins: AutoLock.  (One thread alone pushes events and one pops them: the lock is
\* no restriction there.)
SyncCall(t, op) ==
    /\ s_pc[t] = "out" /\ mayCall(t, op) /\ s_mutex[op] = NULL
    /\ s_mutex' = [s_mutex EXCEPT ![op] = t]
    /\ s_op' = [s_op EXCEPT ![t] = op] /\ goto(t, "check")
    /\ UNCHANGED <<s_use, ringVars, s_loaded, s_room, syncHistory>>

\* A call returns.
SyncReturn(t) ==
    /\ s_mutex' = [s_mutex EXCEPT ![s_op[t]] = NULL]
    /\ goto(t, "out")
    /\ s_room' = IF s_op[t] = "push" /\ s_room > 0 THEN s_room - 1 ELSE s_room

\* push: refused when count_ says full, ...
SyncFull(t) ==
    /\ at(t, "push", "check") /\ s_count = SyncLength
    /\ SyncReturn(t)
    /\ UNCHANGED <<s_use, ringVars, s_op, s_loaded, syncHistory>>

\* ... or the value goes in the tail's slot.
SyncPut(t) ==
    /\ at(t, "push", "check") /\ s_count # SyncLength /\ s_pushed < SyncMax
    /\ s_que' = [s_que EXCEPT ![s_tail] = s_pushed + 1]
    /\ s_tail' = (s_tail + 1) % SyncLength
    /\ s_pushed' = s_pushed + 1
    /\ goto(t, "load")
    /\ UNCHANGED <<s_use, s_count, s_head, s_mutex, s_op, s_loaded, s_room, s_popped, s_torn>>

\* pop: refused when count_ says empty, ...
SyncEmpty(t) ==
    /\ at(t, "pop", "check") /\ s_count = 0
    /\ SyncReturn(t)
    /\ UNCHANGED <<s_use, ringVars, s_op, s_loaded, syncHistory>>

\* ... or it takes the head's slot.
SyncTake(t) ==
    /\ at(t, "pop", "check") /\ s_count # 0
    /\ s_popped' = Append(s_popped, s_que[s_head])
    /\ s_head' = (s_head + 1) % SyncLength
    /\ goto(t, "load")
    /\ UNCHANGED <<s_use, s_count, s_tail, s_que, s_mutex, s_op, s_loaded, s_room, s_pushed, s_torn>>

\* ++count_ and --count_.
SyncLoad(t) ==
    /\ s_pc[t] = "load"
    /\ s_loaded' = [s_loaded EXCEPT ![t] = s_count]
    /\ goto(t, "store")
    /\ UNCHANGED <<s_use, ringVars, s_mutex, s_op, s_room, syncHistory>>

SyncStore(t) ==
    /\ s_pc[t] = "store"
    /\ s_count' = IF s_op[t] = "push" THEN s_loaded[t] + 1 ELSE s_loaded[t] - 1
    /\ s_torn' = (s_torn \/ s_count # s_loaded[t])
    /\ SyncReturn(t)
    /\ UNCHANGED <<s_use, s_head, s_tail, s_que, s_op, s_loaded, s_pushed, s_popped>>

SyncNext ==
    \/ EventRest
    \/ \E t \in Threads :
        \/ \E op \in {"push", "pop"} : SyncCall(t, op)
        \/ SyncFull(t) \/ SyncPut(t) \/ SyncEmpty(t) \/ SyncTake(t) \/ SyncLoad(t) \/ SyncStore(t)

SyncSpec == SyncInit /\ [][SyncNext]_syncVars

---------------------------------------------------------------------------------
\* The values come out once each and in order as long as no store of count_ has overwritten
\* the other thread's: the lost count is the only race of the two methods, the slots and
\* the two indices are safe without a common lock.  (A lost -- hands a value out twice, a
\* lost ++ leaves one behind: two owners of a Buffer, an event handled again or never.)
SyncInOrder == s_torn \/ s_popped = [i \in 1 .. Len(s_popped) |-> i]

\* Server_linux.cpp:201 says a refused event is theoretically impossible.  So it is, even
\* with lost counts and though rest() is old when the events are pushed: the main thread
\* only makes more room, and a store of the IO thread's is one it has counted on.
EventsFit == s_use = "events" => ~ (at(IO, "push", "check") /\ s_count = SyncLength)
=================================================================================
