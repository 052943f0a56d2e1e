--------------------------------- MODULE Emitter --------------------------------
(***************************************************************************)
(* kit/Emitter.h: the handlers of one event (the events of an Emitter do   *)
(* not touch each other).  A handler runs in the middle of emit's loop and *)
(* may call on, once, off and emit itself; emit keeps a reference into the *)
(* vector while it runs.  Using that reference after the vector has moved  *)
(* or shrunk, and going past its end, is undefined: nothing happens after  *)
(* it here.                                                                *)
(***************************************************************************)
EXTENDS Integers, Sequences, SequencesExt, FiniteSets, FiniteSetsExt

CONSTANTS MaxHandlers,   \* bound: the handlers registered
          MaxEmits       \* bound: the calls of emit

ASSUME EmitterAssumption == MaxHandlers \in Nat /\ MaxEmits \in Nat

VARIABLES
    e_id,        \* id_
    e_vec,       \* handler_vecs_[event_id]: [id, once, deleted]
    e_capacity,  \* the vector's
    e_calls,     \* the calls of emit under way, innermost last: [i, tail, len], whether
                 \* a handler is running and the vector has moved from under it, and as
                 \* history the ids there at the start, those called, those turned off
    e_emits,     \* history: the calls of emit so far
    e_fired,     \* history: id -> how often its handler has run
    e_once,      \* history: the ids given by once
    e_off,       \* history: the ids given to off
    e_inside,    \* history: a handler has registered one or emitted
    e_bad        \* history: emit has used a dead reference or gone past the end

emitterVars == <<e_id, e_vec, e_capacity, e_calls, e_emits, e_fired, e_once, e_off, e_inside, e_bad>>

Handlers == 1 .. MaxHandlers

EmitterInit ==
    /\ e_id = 0 /\ e_vec = <<>> /\ e_capacity = 0 /\ e_calls = <<>> /\ e_emits = 0
    /\ e_fired = [id \in Handlers |-> 0] /\ e_once = {} /\ e_off = {}
    /\ e_inside = FALSE /\ e_bad = FALSE

\* Users call from outside and from handlers.
mayEmit == ~ e_bad /\ (e_calls # <<>> => Last(e_calls).running)
within == e_inside \/ e_calls # <<>>

\* on and once: push_back, which moves the vector when it is full.
register(once) ==
    LET full == Len(e_vec) = e_capacity
    IN  /\ mayEmit /\ e_id < MaxHandlers
        /\ e_id' = e_id + 1
        /\ e_vec' = Append(e_vec, [id |-> e_id + 1, once |-> once, deleted |-> FALSE])
        /\ e_capacity' = IF full THEN (IF e_capacity = 0 THEN 1 ELSE 2 * e_capacity)
                                 ELSE e_capacity
        /\ e_calls' = [k \in DOMAIN e_calls |->
                [e_calls[k] EXCEPT !.moved = @ \/ full]]
        /\ e_inside' = within
        /\ e_once' = IF once THEN e_once \cup {e_id + 1} ELSE e_once
        /\ UNCHANGED <<e_emits, e_fired, e_off, e_bad>>

\* off marks the first item with that id.
off(id) ==
    LET at == {k \in DOMAIN e_vec : e_vec[k].id = id}
    IN  /\ mayEmit /\ id <= e_id /\ id \notin e_off
        /\ e_vec' = IF at = {} THEN e_vec ELSE [e_vec EXCEPT ![Min(at)].deleted = TRUE]
        /\ e_off' = e_off \cup {id}
        /\ e_calls' = [k \in DOMAIN e_calls |-> [e_calls[k] EXCEPT !.offed = @ \cup {id}]]
        /\ UNCHANGED <<e_id, e_capacity, e_emits, e_fired, e_once, e_inside, e_bad>>

live == {e_vec[k].id : k \in {k \in DOMAIN e_vec : ~ e_vec[k].deleted}}

emit ==
    /\ mayEmit /\ e_emits < MaxEmits
    /\ e_emits' = e_emits + 1
    /\ e_calls' = Append(e_calls, [i |-> 0, tail |-> Len(e_vec), len |-> Len(e_vec),
                                   running |-> FALSE, moved |-> FALSE,
                                   start |-> live, called |-> <<>>, offed |-> {}])
    /\ e_inside' = within
    /\ UNCHANGED <<e_id, e_vec, e_capacity, e_fired, e_once, e_off, e_bad>>

\* Mutant of swapped: the item behind the loop is not brought in.
swappedNot(vec, ia, ib) == vec

\* __swap: temp is a reference to vec[ia], so the item there is lost and the other is
\* there twice.
swapped(vec, ia, ib) == [vec EXCEPT ![ia] = vec[ib]]

Top == Last(e_calls)
top(c) == e_calls' = [e_calls EXCEPT ![Len(e_calls)] = c]

\* What follows an item: a deleted one is replaced by the one before tail, if there is one.
after(vec, c) ==
    IF ~ vec[c.i + 1].deleted
      THEN /\ e_vec' = vec /\ top([c EXCEPT !.i = @ + 1, !.running = FALSE])
           /\ UNCHANGED e_bad
      ELSE /\ e_bad' = (c.tail > Len(vec))
           /\ e_vec' = IF e_bad' THEN vec ELSE swapped(vec, c.i + 1, c.tail)
           /\ top([c EXCEPT !.tail = @ - 1, !.running = FALSE])

\* emit's loop: past the end, ...
emitPast ==
    /\ e_calls # <<>> /\ ~ e_bad
    /\ ~ Top.running /\ Top.i # Top.tail /\ Top.i >= Len(e_vec)
    /\ e_bad' = TRUE
    /\ UNCHANGED <<e_id, e_vec, e_capacity, e_calls, e_emits, e_fired, e_once, e_off, e_inside>>

\* ... or an item whose handler is called, ...
emitItem ==
    /\ e_calls # <<>> /\ ~ e_bad
    /\ ~ Top.running /\ Top.i # Top.tail /\ Top.i < Len(e_vec)
    /\ LET id == e_vec[Top.i + 1].id
       IN  IF e_vec[Top.i + 1].deleted
             THEN after(e_vec, Top) /\ UNCHANGED e_fired
             ELSE /\ top([Top EXCEPT !.running = TRUE, !.moved = FALSE,
                                     !.called = Append(@, id)])
                  /\ e_fired' = [e_fired EXCEPT ![id] = @ + 1]
                  /\ UNCHANGED <<e_vec, e_bad>>
    /\ UNCHANGED <<e_id, e_capacity, e_emits, e_once, e_off, e_inside>>

\* Mutant of emitReturns: once is forgotten.
emitReturnsOften ==
    /\ e_calls # <<>> /\ ~ e_bad /\ Top.running
    /\ IF Top.moved \/ Top.i >= Len(e_vec)
         THEN e_bad' = TRUE /\ UNCHANGED <<e_vec, e_calls>>
         ELSE after(e_vec, Top)
    /\ UNCHANGED <<e_id, e_capacity, e_emits, e_fired, e_once, e_off, e_inside>>

\* ... and that returns to item, a reference.
emitReturns ==
    /\ e_calls # <<>> /\ ~ e_bad /\ Top.running
    /\ IF Top.moved \/ Top.i >= Len(e_vec)
         THEN e_bad' = TRUE /\ UNCHANGED <<e_vec, e_calls>>
         ELSE after([e_vec EXCEPT ![Top.i + 1].deleted = @ \/ e_vec[Top.i + 1].once], Top)
    /\ UNCHANGED <<e_id, e_capacity, e_emits, e_fired, e_once, e_off, e_inside>>

\* The loop ends: resized, when nothing was pushed meanwhile.
emitEnds ==
    /\ e_calls # <<>> /\ ~ e_bad /\ ~ Top.running /\ Top.i = Top.tail
    /\ e_vec' = IF Top.len = Len(e_vec) THEN SubSeq(e_vec, 1, Top.tail) ELSE e_vec
    /\ e_calls' = Front(e_calls)
    /\ UNCHANGED <<e_id, e_capacity, e_emits, e_fired, e_once, e_off, e_inside, e_bad>>

EmitterNext ==
    \/ \E once \in BOOLEAN : register(once)
    \/ \E id \in Handlers : off(id)
    \/ emit \/ emitPast \/ emitItem \/ emitReturns \/ emitEnds

EmitterSpec == EmitterInit /\ [][EmitterNext]_emitterVars

---------------------------------------------------------------------------------
\* An emission calls each handler that was there when it began exactly once, and no other,
\* whatever handlers turn off meanwhile, themselves or those to come, and although the
\* deleted items' places are filled from the end.  (Only while no handler registers or
\* emits: then items are left twice, or the loop runs into freed memory.)
CalledOnce ==
    ~ e_inside => \A k \in DOMAIN e_calls :
        LET c == e_calls[k]
        IN  /\ IsInjective(c.called) /\ Range(c.called) \subseteq c.start
            /\ c.i = c.tail => c.start \subseteq Range(c.called) \cup c.offed

\* Between emissions the items are the registered handlers, once each, without those
\* turned off or done.
HandlersListed ==
    ~ e_inside /\ e_calls = <<>> =>
        /\ \A j, k \in DOMAIN e_vec : e_vec[j].id = e_vec[k].id => j = k
        /\ \A id \in 1 .. e_id :
              id \in live <=> id \notin e_off /\ (id \in e_once => e_fired[id] = 0)

\* An emission calls whom it should, and leaves the list as it should be.
EmitsExactly == CalledOnce /\ HandlersListed
=================================================================================
