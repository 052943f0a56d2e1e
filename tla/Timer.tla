---------------------------------- MODULE Timer ---------------------------------
(***************************************************************************)
(* kit/Timer.cpp: hierarchical timing wheels, with base/Map.h as the map   *)
(* of handlers.  update is one tick.  It walks the list in the slot that   *)
(* wheel 0 has turned to, and each handler it calls may add and delete     *)
(* timers in the middle of that walk; when a wheel comes round to slot 0   *)
(* the next wheel turns, and its nodes move down or fire.                  *)
(*                                                                         *)
(* A delay is read as the digits that the union of delay and bits gives    *)
(* it: digit i counts turns of wheel i.  Timer's constructor does not set  *)
(* the wheels' positions, so they begin anywhere.                          *)
(***************************************************************************)
EXTENDS Integers, Sequences, SequencesExt

CONSTANTS W,         \* the values of a uint8_t, and the slots of a wheel: 256
          K,         \* the number of wheels: 4
          Delays,    \* the delays callers give
          Cycles,    \* the cycles they give; 0: once
          MapSize,   \* TIMER_MAP_SIZE, the buckets of handler_map_
          MaxIds,    \* bound: the timers added
          MaxTicks   \* bound: the ticks

\* W^n.
power[n \in Nat] == IF n = 0 THEN 1 ELSE power[n - 1] * W

ASSUME TimerAssumption ==
    /\ W \in Nat \ {0, 1} /\ K \in Nat \ {0} /\ MapSize \in Nat \ {0}
    /\ Delays \subseteq 0 .. power[K] - 1 /\ Cycles \subseteq 0 .. power[K] - 1
    /\ MaxIds \in Nat /\ MaxTicks \in Nat

VARIABLES
    id_,            \* the last id given
    pos,            \* of each wheel
    nodes,          \* wheel -> slot -> its list of nodes [id, delay, cycle]
    handler_map_,   \* bucket -> its chain of ids
    index,          \* the wheel that is turning
    p,              \* what is left to walk of its slot's list
    pc,             \* "idle", "walk", or "handler" while Head(p)'s handler runs
    now,            \* history: ticks
    armed,          \* history: the tick at which an id's node was last put in place
    due,            \* history: the ids that have yet to fire
    deleted         \* history: the ids given to delTimer

timerVars == <<id_, pos, nodes, handler_map_, index, p, pc, now, armed, due, deleted>>

Wheels == 0 .. K - 1
TimerSlots == 0 .. W - 1
Ids == 1 .. MaxIds

TimerInit ==
    /\ id_ = 0 /\ pos \in [Wheels -> TimerSlots]
    /\ nodes = [i \in Wheels |-> [s \in TimerSlots |-> <<>>]]
    /\ handler_map_ = [b \in 0 .. MapSize - 1 |-> <<>>]
    /\ index = 0 /\ p = <<>> /\ pc = "idle"
    /\ now = 0 /\ armed = [id \in Ids |-> 0] /\ due = {} /\ deleted = {}

---------------------------------------------------------------------------------
(* Nodes and handlers.                                                       *)

\* node->bits[i].
bits(delay, i) == (delay \div power[i]) % W

\* addNode(top, node) looks for the highest digit at or below top that is not 0.
Levels(top, node) == {i \in 0 .. top : bits(node.delay, i) > 0}

\* Mutant of slot: the position is forgotten.
slotFromZero(i, node) == bits(node.delay, i)

\* Where on that wheel the node goes, in uint8_t.
slot(i, node) == (pos[i] + bits(node.delay, i)) % W

\* addNode, when there is such a digit: the node becomes the first of the slot's list.
addNode(top, node) ==
    LET i == CHOOSE i \in Levels(top, node) : \A j \in Levels(top, node) : j <= i
    IN  nodes' = [nodes EXCEPT ![i][slot(i, node)] = <<node>> \o @]

\* handler_map_.set of a new key, and del: when the key is the first of its chain the
\* bucket is emptied, and the chain's other handlers go with it.
bucket(id) == id % MapSize
hasHandler(id) == Contains(handler_map_[bucket(id)], id)
set(id) == handler_map_' = [handler_map_ EXCEPT ![bucket(id)] = Append(@, id)]

\* Mutant of del: the first of a chain stays.
delNotFirst(id) ==
    handler_map_' = [handler_map_ EXCEPT ![bucket(id)] =
                       IF @ # <<>> /\ Head(@) = id THEN @ ELSE SelectSeq(@, LAMBDA k : k # id)]

\* (A key is in its chain at most once.)
del(id) ==
    LET chain == handler_map_[bucket(id)]
        at    == CHOOSE k \in DOMAIN chain : chain[k] = id
    IN  handler_map_' = [handler_map_ EXCEPT ![bucket(id)] =
            IF ~ hasHandler(id) THEN chain ELSE IF at = 1 THEN <<>> ELSE RemoveAt(chain, at)]

---------------------------------------------------------------------------------
(* Calls, from outside and from handlers.                                    *)

\* A delay of 0 has no digit: the node goes nowhere and the timer never fires.
addTimer(delay, cycle) ==
    LET node == [id |-> id_ + 1, delay |-> delay, cycle |-> cycle]
    IN  /\ pc \in {"idle", "handler"} /\ id_ < MaxIds
        /\ id_' = id_ + 1
        /\ set(id_ + 1)
        /\ IF Levels(K - 1, node) = {}
             THEN UNCHANGED <<nodes, armed, due>>
             ELSE /\ addNode(K - 1, node)
                  /\ armed' = [armed EXCEPT ![id_ + 1] = now]
                  /\ due' = due \cup {id_ + 1}
        /\ UNCHANGED <<pos, index, p, pc, now, deleted>>

\* The handler goes, the node stays where it is.
delTimer(id) ==
    /\ pc \in {"idle", "handler"} /\ id <= id_ /\ id \notin deleted
    /\ del(id)
    /\ deleted' = deleted \cup {id} /\ due' = due \ {id}
    /\ UNCHANGED <<id_, pos, nodes, index, p, pc, now, armed>>

---------------------------------------------------------------------------------
(* update.                                                                   *)

\* The beginning of wheeling(i).
wheeling(i) ==
    /\ index' = i
    /\ pos' = [pos EXCEPT ![i] = (@ + 1) % W]
    /\ p' = nodes[i][pos'[i]]
    /\ pc' = "walk"

tick ==
    /\ pc = "idle" /\ now < MaxTicks
    /\ now' = now + 1
    /\ wheeling(0)
    /\ UNCHANGED <<id_, nodes, handler_map_, armed, due, deleted>>

\* wheeling's loop: the next node moves to a lower wheel.
moveDown ==
    /\ pc = "walk" /\ p # <<>> /\ Levels(index - 1, Head(p)) # {}
    /\ addNode(index - 1, Head(p))
    /\ p' = Tail(p)
    /\ UNCHANGED <<id_, pos, handler_map_, index, pc, now, armed, due, deleted>>

\* Or it fires: handleTimer finds a handler, or else answers true, and the node is gone.
handleTimer ==
    /\ pc = "walk" /\ p # <<>> /\ Levels(index - 1, Head(p)) = {}
    /\ IF hasHandler(Head(p).id) THEN pc' = "handler" /\ UNCHANGED p
                                 ELSE p' = Tail(p) /\ UNCHANGED pc
    /\ UNCHANGED <<id_, pos, nodes, handler_map_, index, now, armed, due, deleted>>

\* The handler returns; true ends the cycle.
handlerReturns(ret) ==
    LET again == [Head(p) EXCEPT !.delay = Head(p).cycle]
    IN  /\ pc = "handler"
        /\ IF ~ ret /\ again.cycle > 0
             THEN /\ addNode(K - 1, again)
                  /\ armed' = [armed EXCEPT ![again.id] = now]
                  /\ UNCHANGED due
             ELSE due' = due \ {again.id} /\ UNCHANGED <<nodes, armed>>
        /\ p' = Tail(p) /\ pc' = "walk"
        /\ UNCHANGED <<id_, pos, handler_map_, index, now, deleted>>

\* Mutant of wheelingEnds: no wheel pulls the next.
wheelingEndsAlone ==
    /\ pc = "walk" /\ p = <<>>
    /\ nodes' = [nodes EXCEPT ![index][pos[index]] = <<>>]
    /\ pc' = "idle" /\ index' = 0
    /\ UNCHANGED <<id_, pos, handler_map_, p, now, armed, due, deleted>>

\* The slot is emptied, and a wheel that came round pulls the next.
wheelingEnds ==
    /\ pc = "walk" /\ p = <<>>
    /\ nodes' = [nodes EXCEPT ![index][pos[index]] = <<>>]
    /\ IF pos[index] = 0 /\ index < K - 1
         THEN wheeling(index + 1)
         ELSE pc' = "idle" /\ index' = 0 /\ UNCHANGED <<pos, p>>
    /\ UNCHANGED <<id_, handler_map_, now, armed, due, deleted>>

TimerNext == \/ \E delay \in Delays, cycle \in Cycles : addTimer(delay, cycle)
        \/ \E id \in Ids : delTimer(id)
        \/ tick \/ moveDown \/ handleTimer \/ wheelingEnds
        \/ \E ret \in BOOLEAN : handlerReturns(ret)

TimerSpec == TimerInit /\ [][TimerNext]_timerVars

---------------------------------------------------------------------------------
\* The nodes that wait in a wheel; those left in p are still in the turning slot's list.
Waiting(id) == {w \in Wheels \X TimerSlots : \E n \in Range(nodes[w[1]][w[2]]) : n.id = id}
InWalk == IF pc = "idle" THEN {} ELSE {<<index, pos[index]>>}

\* wheeling empties a slot it has walked, and addNode puts nodes in slots while it walks,
\* from handlers too: none of them in the slot about to be emptied.  A timer that has yet
\* to fire has its node in one slot, or among those that are still to be walked.
NoneForgotten ==
    \A id \in due : hasHandler(id) =>
        LET elsewhere == Waiting(id) \ InWalk
            toCome    == {i \in DOMAIN p : p[i].id = id}
        IN  \/ toCome = {} /\ \E w \in elsewhere : elsewhere = {w}
            \/ elsewhere = {} /\ \E i \in toCome : toCome = {i}

\* The top wheel a delay uses.
TopLevel(delay) ==
    CHOOSE i \in Wheels : bits(delay, i) > 0 /\ \A j \in Wheels : bits(delay, j) > 0 => j <= i

\* A handler runs at its tick or before it, by no more than one turn of the highest wheel
\* its delay uses, wherever the wheels stood: addNode spreads the digits, and a wheel that
\* turns finds all lower wheels at 0.  (A whole turn early is a timer added by a handler in
\* slot 0, before the next wheel has turned in the same tick.)
OnTime ==
    pc = "handler" =>
        LET n == Head(p)
        IN  now - armed[n.id] \in n.delay - power[TopLevel(n.delay)] .. n.delay

\* No timer is overdue: one that has yet to fire and whose handler is there fires within
\* its delay, whatever handlers added and deleted meanwhile.
NeverLate ==
    pc = "idle" => \A id \in due : hasHandler(id) =>
        \E i \in Wheels, s \in TimerSlots : \E n \in Range(nodes[i][s]) :
            n.id = id /\ now - armed[id] < n.delay

\* Timers keep their time.
Punctual == OnTime /\ NeverLate

\* A deleted timer stays silent and a timer keeps its handler, unless delTimer of another
\* id of the same bucket took it along.
HandlersKept ==
    \A id \in 1 .. id_ :
        /\ id \in deleted => ~ hasHandler(id)
        /\ hasHandler(id) \/ \E k \in deleted : bucket(k) = bucket(id)
=================================================================================
